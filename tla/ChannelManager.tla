--------------------------- MODULE ChannelManager ---------------------------
(* The channel manager's queues and their life cycle: the dispatcher that   *)
(* moves outbound messages from the bus to one worker per channel, the      *)
(* workers that send with retries, StartAll, Reload with the functions it   *)
(* defers to a goroutine, and StopAll.  m.mu is held across whole           *)
(* operations that wait for workers, but never around a send on a queue.    *)
(* Media messages take the same path through queues of their own.           *)
EXTENDS Integers, Sequences, FiniteSets, Functions

CONSTANTS
    Names,        \* the configured names of channels
    NumOut,       \* bound: messages published to the bus
    QueueSize,    \* defaultChannelQueueSize
    MaxRetries,   \* maxRetries
    MaxReloads    \* bound: calls of Reload

ManagerAssumption ==
    /\ IsFiniteSet(Names) /\ Names # {}
    /\ {NumOut, MaxReloads, MaxRetries} \subseteq Nat /\ QueueSize \in Nat \ {0}

VARIABLES
    hashes,     \* m.channelHashes: the version of each name's configuration
    channels,   \* m.channels: the number of each name's channel object, 0: none
    halted,     \* the channel objects whose Stop was called last
    workers,    \* m.workers: the worker of each name, 0: none
    gang,       \* every worker ever started
    task,       \* m.dispatchTask: the context it cancels, 0: nil
    cancelled,  \* the cancelled contexts; StartAll makes 1, a reload the next
    dispatcher, \* the goroutine of dispatchOutbound
    outbox,     \* the bus's outbound stream
    fate,       \* what became of each message, with its channel's name
    owner,      \* who waits for workers with m.mu held: a reload or StopOwner; 0: none
    gateway,    \* the process and its main goroutine
    deferred,   \* for each reload the functions its goroutine has yet to call
    touched,    \* history: names a reload stopped or started
    broken,     \* history: names without a start, or whose last one failed
    overtaken   \* history: names unregistered after a later reload started them

chanVars == <<hashes, channels, halted, workers, gang, task, cancelled, dispatcher,
              outbox, fate, owner, gateway, deferred, touched, broken, overtaken>>

Messages == 1 .. NumOut
Reloads == 1 .. MaxReloads
Contexts == 0 .. MaxReloads + 1
Objects == 0 .. Cardinality(Names) * (MaxReloads + 1)

(* A channelWorker with the message it is sending, 0 when it waits.          *)
Worker == [name: Names, object: Objects, ctx: Contexts, queue: Seq(Messages),
           closed: BOOLEAN, at: {"select", "limit", "send", "pause", "done"},
           msg: 0 .. NumOut, tries: 0 .. MaxRetries]

NewWorker(n, o, c) ==
    [name |-> n, object |-> o, ctx |-> c, queue |-> <<>>, closed |-> FALSE,
     at |-> "select", msg |-> 0, tries |-> 0]

Workers == DOMAIN gang
StopOwner == MaxReloads + 1
Settled == {"sent", "failed", "skipped", "lost"}

ManagerTypeOK ==
    /\ hashes \in [Names -> 0 .. MaxReloads + 1] /\ channels \in [Names -> Objects]
    /\ halted \subseteq Objects
    /\ gang \in Seq(Worker) /\ workers \in [Names -> 0 .. Len(gang)]
    /\ \A i \in Workers : Len(gang[i].queue) <= QueueSize
    /\ task \in Contexts /\ cancelled \subseteq Contexts
    /\ dispatcher \in [at: {"off", "receive", "look", "put", "over", "panicked"},
                       msg: 0 .. NumOut, worker: 0 .. Len(gang)]
    /\ outbox \in Seq(Messages)
    /\ touched \subseteq Names /\ broken \subseteq Names /\ overtaken \subseteq Names
    /\ fate \in [Messages -> [name: Names, is: {"unborn", "moving"} \cup Settled]]
    /\ owner \in 0 .. StopOwner
    /\ gateway \in {"starting", "running", "stopping", "stopped", "failed", "crashed"}
    /\ deferred \in [Reloads -> Seq([do: {"unregister", "register"}, name: Names,
                                     object: Objects])]

(* Distinct numbers from first on for the members of a set.                  *)
Numbered(S, first) ==
    CHOOSE f \in Bijection(S, first .. first + Cardinality(S) - 1) : TRUE

(* NewManager has recorded the hash of every enabled name and made the       *)
(* channel objects of those that were ready.                                 *)
ManagerInit ==
    /\ \E enabled \in SUBSET Names : \E ready \in SUBSET enabled :
          /\ hashes = [n \in Names |-> IF n \in enabled THEN 1 ELSE 0]
          /\ channels = [n \in Names |->
                            IF n \in ready THEN Numbered(Names, 1)[n] ELSE 0]
          /\ broken = Names \ ready
    /\ halted = {} /\ workers = [n \in Names |-> 0] /\ gang = <<>>
    /\ task = 0 /\ cancelled = {}
    /\ dispatcher = [at |-> "off", msg |-> 0, worker |-> 0]
    /\ outbox = <<>>
    /\ fate = [m \in Messages |-> [name |-> CHOOSE n \in Names : TRUE, is |-> "unborn"]]
    /\ owner = 0 /\ gateway = "starting"
    /\ deferred = [r \in Reloads |-> <<>>] /\ touched = {} /\ overtaken = {}

-----------------------------------------------------------------------------
(* The gateway's main goroutine.                                             *)

(* A worker under context c for every name of S.                             *)
Hire(S, c, objects) ==
    LET number == Numbered(S, Len(gang) + 1)
        holder(i) == CHOOSE n \in S : number[n] = i
    IN  /\ gang' = gang \o [k \in 1 .. Cardinality(S) |->
              LET n == holder(Len(gang) + k) IN NewWorker(n, objects[n], c)]
        /\ workers' = [n \in Names |-> IF n \in S THEN number[n] ELSE workers[n]]

(* StartAll: a worker for each channel whose Start succeeds, then the        *)
(* dispatcher; when there are channels and none starts, startup fails.       *)
StartAll(started) ==
    LET made == {n \in Names : channels[n] # 0}
    IN  /\ gateway = "starting" /\ started \subseteq made
        /\ IF made # {} /\ started = {}
           THEN /\ cancelled' = cancelled \cup {1} /\ gateway' = "failed"
                /\ UNCHANGED <<gang, workers, task, dispatcher>>
           ELSE /\ Hire(started, 1, channels)
                /\ task' = 1 /\ dispatcher' = [dispatcher EXCEPT !.at = "receive"]
                /\ gateway' = "running" /\ UNCHANGED cancelled
        /\ broken' = Names \ started
        /\ UNCHANGED <<hashes, channels, halted, outbox, fate, owner, deferred, touched,
                       overtaken>>

(* compareChannels: a changed configuration is both removed and added.       *)
Removed(new) == {n \in Names : hashes[n] # 0 /\ new[n] # hashes[n]}
Added(new) == {n \in Names : new[n] # 0 /\ new[n] # hashes[n]}

(* What Reload leaves to a goroutine: first the removals, then the additions. *)
Registrations(removed, started, objects) ==
    LET calls(S, what) == [k \in 1 .. Cardinality(S) |->
            LET n == CHOOSE x \in S : Numbered(S, 1)[x] = k
            IN  [do |-> what, name |-> n, object |-> objects[n]]]
    IN  calls(removed, "unregister") \o calls(started, "register")

ReloadCancels(r, new, ready, started) ==
    LET fresh == Numbered(ready, 1 + Cardinality(Names) * r)
        objects == [n \in Names |-> IF n \in ready THEN fresh[n] ELSE channels[n]]
    IN  /\ channels' = objects
        /\ halted' = (halted \cup {channels[n] : n \in Removed(new)})
                         \ {objects[n] : n \in started}
        /\ Hire(started, r + 1, objects)
        /\ task' = r + 1 /\ hashes' = new /\ cancelled' = cancelled \cup {task}
        /\ deferred' = [deferred EXCEPT ![r] = Registrations(Removed(new), started, objects)]
        /\ touched' = touched \cup Removed(new) \cup Added(new)
        /\ broken' = (broken \ (Removed(new) \cup Added(new))) \cup (Added(new) \ started)
        /\ UNCHANGED <<dispatcher, outbox, fate, owner, gateway, overtaken>>

(* Everything Reload does under m.mu: stop the removed channels, replace the *)
(* context without cancelling the old one, make the added channels that are  *)
(* ready, start workers for those whose Start succeeds.                      *)
ReloadDone(r, new, ready, started) ==
    LET fresh == Numbered(ready, 1 + Cardinality(Names) * r)
        objects == [n \in Names |-> IF n \in ready THEN fresh[n] ELSE channels[n]]
    IN  /\ channels' = objects
        /\ halted' = (halted \cup {channels[n] : n \in Removed(new)})
                         \ {objects[n] : n \in started}
        /\ Hire(started, r + 1, objects)
        /\ task' = r + 1 /\ hashes' = new
        /\ deferred' = [deferred EXCEPT ![r] = Registrations(Removed(new), started, objects)]
        /\ touched' = touched \cup Removed(new) \cup Added(new)
        /\ broken' = (broken \ (Removed(new) \cup Added(new))) \cup (Added(new) \ started)
        /\ UNCHANGED <<cancelled, dispatcher, outbox, fate, owner, gateway, overtaken>>

(* A name without a channel object is stopped, or started, through a nil     *)
(* interface: the panic is not recovered and ends the process.               *)
NilChannel(new, ready) == \E n \in Removed(new) \cup (Added(new) \ ready) : channels[n] = 0

ReloadPanics(new, ready) ==
    /\ gateway' = "crashed"
    /\ broken' = broken \cup (Added(new) \ ready)
    /\ UNCHANGED <<hashes, channels, halted, workers, gang, task, cancelled, dispatcher,
                   outbox, fate, owner, deferred, touched, overtaken>>

(* What the configuration file may have become: each name's part may be gone *)
(* or new.                                                                   *)
Configurations(r) == {new \in [Names -> 0 .. r + 1] :
                         \A n \in Names : new[n] \in {0, hashes[n], r + 1}}

(* The reloads come in order.                                                *)
Reload(r, new, ready, started) ==
    /\ gateway = "running" /\ owner = 0 /\ task = r
    /\ \A n \in started : n \in ready \/ channels[n] # 0
    /\ IF NilChannel(new, ready) THEN ReloadPanics(new, ready)
       ELSE ReloadDone(r, new, ready, started)

(* StopAll: cancel the last context, close every queue, wait for the workers *)
(* with m.mu held, stop the channels.                                        *)
StopAll ==
    /\ gateway = "running" /\ owner = 0
    /\ gateway' = "stopping" /\ owner' = StopOwner
    /\ cancelled' = cancelled \cup {task} /\ task' = 0
    /\ gang' = [i \in Workers |-> [gang[i] EXCEPT
                  !.closed = @ \/ \E n \in Names : workers[n] = i]]
    /\ UNCHANGED <<hashes, channels, halted, workers, dispatcher, outbox, fate, deferred,
                   touched, broken, overtaken>>

StopAllEnds ==
    /\ gateway = "stopping"
    /\ \A n \in Names : workers[n] # 0 => gang[workers[n]].at = "done"
    /\ halted' = halted \cup ({channels[n] : n \in Names} \ {0})
    /\ gateway' = "stopped" /\ owner' = 0
    /\ UNCHANGED <<hashes, channels, workers, gang, task, cancelled, dispatcher, outbox,
                   fate, deferred, touched, broken, overtaken>>

-----------------------------------------------------------------------------
(* The goroutine of a reload.                                                *)

Pop(r) == deferred' = [deferred EXCEPT ![r] = Tail(@)]

(* It does not look whether the name still has the object it was to remove.  *)
Forget(r, n) ==
    /\ workers' = [workers EXCEPT ![n] = 0]
    /\ channels' = [channels EXCEPT ![n] = 0]
    /\ overtaken' = IF hashes[n] \in {0, r + 1} THEN overtaken ELSE overtaken \cup {n}

(* UnregisterChannel closes the queue of whatever worker the name has now;   *)
(* when StopAll has closed it already the goroutine's recover drops the rest.*)
Unregister(r) ==
    LET n == Head(deferred[r]).name  w == workers[n]
    IN  /\ gateway # "crashed" /\ owner = 0 /\ deferred[r] # <<>>
        /\ Head(deferred[r]).do = "unregister"
        /\ \/ /\ w = 0
              /\ Forget(r, n) /\ Pop(r) /\ UNCHANGED <<gang, owner>>
           \/ /\ w # 0 /\ gang[w].closed
              /\ deferred' = [deferred EXCEPT ![r] = <<>>]
              /\ UNCHANGED <<workers, channels, gang, owner, overtaken>>
           \/ /\ w # 0 /\ ~gang[w].closed
              /\ gang' = [gang EXCEPT ![w].closed = TRUE] /\ owner' = r
              /\ UNCHANGED <<workers, channels, deferred, overtaken>>
        /\ UNCHANGED <<hashes, halted, task, cancelled, dispatcher, outbox, fate, gateway,
                       touched, broken>>

UnregisterEnds(r) ==
    LET n == Head(deferred[r]).name
    IN  /\ gateway # "crashed" /\ owner = r /\ gang[workers[n]].at = "done"
        /\ Forget(r, n) /\ Pop(r) /\ owner' = 0
        /\ UNCHANGED <<hashes, halted, gang, task, cancelled, dispatcher, outbox, fate,
                       gateway, touched, broken>>

(* RegisterChannel stores the channel and no worker.                         *)
Register(r) ==
    LET call == Head(deferred[r])
    IN  /\ gateway # "crashed" /\ owner = 0 /\ deferred[r] # <<>>
        /\ call.do = "register"
        /\ channels' = [channels EXCEPT ![call.name] = call.object] /\ Pop(r)
        /\ UNCHANGED <<hashes, halted, workers, gang, task, cancelled, dispatcher, outbox,
                       fate, owner, gateway, touched, broken, overtaken>>

-----------------------------------------------------------------------------
(* The dispatcher.                                                           *)

PublishOutbound(m, n) ==
    /\ gateway \in {"running", "stopping"}
    /\ fate[m].is = "unborn" /\ \A l \in 1 .. m - 1 : fate[l].is # "unborn"
    /\ fate' = [fate EXCEPT ![m] = [name |-> n, is |-> "moving"]]
    /\ outbox' = Append(outbox, m)
    /\ UNCHANGED <<hashes, channels, halted, workers, gang, task, cancelled, dispatcher,
                   owner, gateway, deferred, touched, broken, overtaken>>

Settle(m, how) == fate' = [fate EXCEPT ![m].is = how]

(* Once StopAll has returned the gateway closes the bus, which takes what is *)
(* left in the stream to throw it away.                                      *)
Drain ==
    /\ gateway = "stopped" /\ outbox # <<>>
    /\ Settle(Head(outbox), "lost") /\ outbox' = Tail(outbox)
    /\ UNCHANGED <<hashes, channels, halted, workers, gang, task, cancelled, dispatcher,
                   owner, gateway, deferred, touched, broken, overtaken>>

(* select on the context, which only StopAll without a reload before it      *)
(* cancels, and on the bus's stream, which ends when the bus is closed and   *)
(* nothing is left.                                                          *)
Receive ==
    /\ gateway # "crashed" /\ dispatcher.at = "receive"
    /\ \/ /\ 1 \in cancelled \/ (gateway = "stopped" /\ outbox = <<>>)
          /\ dispatcher' = [dispatcher EXCEPT !.at = "over"] /\ UNCHANGED outbox
       \/ /\ outbox # <<>>
          /\ dispatcher' = [dispatcher EXCEPT !.at = "look", !.msg = Head(outbox)]
          /\ outbox' = Tail(outbox)
    /\ UNCHANGED <<hashes, channels, halted, workers, gang, task, cancelled, fate, owner,
                   gateway, deferred, touched, broken, overtaken>>

(* Read the channel and its worker under m.mu; without either the message is *)
(* skipped with a warning.                                                   *)
Look ==
    LET n == fate[dispatcher.msg].name
    IN  /\ gateway # "crashed" /\ dispatcher.at = "look" /\ owner = 0
        /\ IF channels[n] = 0 \/ workers[n] = 0
           THEN /\ Settle(dispatcher.msg, "skipped")
                /\ dispatcher' = [at |-> "receive", msg |-> 0, worker |-> 0]
           ELSE /\ dispatcher' = [dispatcher EXCEPT !.at = "put", !.worker = workers[n]]
                /\ UNCHANGED fate
        /\ UNCHANGED <<hashes, channels, halted, workers, gang, task, cancelled, outbox,
                       owner, gateway, deferred, touched, broken, overtaken>>

(* select on the worker's queue and on the context, without the lock: a send *)
(* on a queue closed since then panics and ends the process.                 *)
Put ==
    LET w == dispatcher.worker  m == dispatcher.msg
    IN  /\ gateway # "crashed" /\ dispatcher.at = "put"
        /\ \/ /\ ~gang[w].closed /\ Len(gang[w].queue) < QueueSize
              /\ gang' = [gang EXCEPT ![w].queue = Append(@, m)]
              /\ dispatcher' = [at |-> "receive", msg |-> 0, worker |-> 0]
              /\ UNCHANGED <<fate, gateway>>
           \/ /\ gang[w].closed
              /\ dispatcher' = [dispatcher EXCEPT !.at = "panicked"]
              /\ gateway' = "crashed" /\ UNCHANGED <<gang, fate>>
           \/ /\ 1 \in cancelled
              /\ Settle(m, "lost")
              /\ dispatcher' = [at |-> "over", msg |-> 0, worker |-> 0]
              /\ UNCHANGED <<gang, gateway>>
        /\ UNCHANGED <<hashes, channels, halted, workers, task, cancelled, outbox, owner,
                       deferred, touched, broken, overtaken>>

-----------------------------------------------------------------------------
(* runWorker and sendWithRetry of worker i.                                  *)

WorkerOnly == UNCHANGED <<hashes, channels, halted, workers, task, cancelled, dispatcher,
                          outbox, owner, gateway, deferred, touched, broken, overtaken>>

Free(i) == gang' = [gang EXCEPT ![i].at = "select", ![i].msg = 0, ![i].tries = 0]

Take(i) ==
    /\ gateway # "crashed" /\ gang[i].at = "select" /\ gang[i].queue # <<>>
    /\ gang' = [gang EXCEPT ![i].at = "limit", ![i].msg = Head(gang[i].queue),
                            ![i].queue = Tail(@)]
    /\ UNCHANGED fate /\ WorkerOnly

LeaveOnCancel(i) ==
    /\ gateway # "crashed" /\ gang[i].at = "select" /\ gang[i].ctx \in cancelled
    /\ gang' = [gang EXCEPT ![i].at = "done"]
    /\ UNCHANGED fate /\ WorkerOnly

(* On a cancelled context the worker may return with messages in its queue.  *)
Leave(i) ==
    /\ gateway # "crashed" /\ gang[i].at = "select"
    /\ \/ gang[i].closed /\ gang[i].queue = <<>>
       \/ gang[i].ctx \in cancelled
    /\ gang' = [gang EXCEPT ![i].at = "done"]
    /\ fate' = [m \in Messages |->
                  IF \E k \in 1 .. Len(gang[i].queue) : gang[i].queue[k] = m
                  THEN [fate[m] EXCEPT !.is = "lost"] ELSE fate[m]]
    /\ WorkerOnly

GiveUpAnyway(i) ==
    /\ gateway # "crashed" /\ gang[i].at \in {"limit", "pause"}
    /\ Settle(gang[i].msg, "lost") /\ Free(i) /\ WorkerOnly

(* Waiting for a token, or for the next try, ends early on cancellation.     *)
GiveUp(i) ==
    /\ gateway # "crashed" /\ gang[i].at \in {"limit", "pause"}
    /\ gang[i].ctx \in cancelled
    /\ Settle(gang[i].msg, "lost") /\ Free(i) /\ WorkerOnly

Proceed(i) ==
    /\ gateway # "crashed"
    /\ \/ gang[i].at = "limit" /\ gang[i].ctx \notin cancelled
       \/ gang[i].at = "pause"
    /\ gang' = [gang EXCEPT ![i].at = "send"] /\ UNCHANGED fate /\ WorkerOnly

(* Channel.Send: a stopped channel fails for good (ErrNotRunning), unless    *)
(* preSend has handled the message, before the first try: it edits it into a *)
(* placeholder, or drops what a stream has said.                             *)
ChannelSend(i, result) ==
    /\ gateway # "crashed" /\ gang[i].at = "send"
    /\ gang[i].object \in halted =>
          result = "permanent" \/ (result = "ok" /\ gang[i].tries = 0)
    /\ \/ /\ result = "ok"
          /\ Settle(gang[i].msg, "sent") /\ Free(i)
       \/ /\ result = "permanent" \/ (result = "temporary" /\ gang[i].tries = MaxRetries)
          /\ Settle(gang[i].msg, "failed") /\ Free(i)
       \/ /\ result = "temporary" /\ gang[i].tries < MaxRetries
          /\ gang' = [gang EXCEPT ![i].at = "pause", ![i].tries = @ + 1]
          /\ UNCHANGED fate
    /\ WorkerOnly

-----------------------------------------------------------------------------
Dispatch == Receive \/ Look \/ Put

Work(i) == \/ Take(i) \/ Leave(i) \/ GiveUp(i) \/ Proceed(i)
           \/ \E result \in {"ok", "permanent", "temporary"} : ChannelSend(i, result)

Deferred(r) == Unregister(r) \/ UnregisterEnds(r) \/ Register(r)

ManagerNext ==
    \/ \E started \in SUBSET Names : StartAll(started)
    \/ \E r \in Reloads \cap {task} : \E new \in Configurations(r) :
          \E ready \in SUBSET Added(new), started \in SUBSET Added(new) :
             Reload(r, new, ready, started)
    \/ StopAll \/ StopAllEnds
    \/ \E r \in Reloads : Deferred(r)
    \/ \E m \in Messages, n \in Names : PublishOutbound(m, n)
    \/ Drain \/ Dispatch
    \/ \E i \in 1 .. Len(gang) : Work(i)

(* The Go scheduler runs every goroutine that can go on; a send returns; the *)
(* limiter hands out tokens.                                                 *)
ManagerFairness ==
    /\ WF_chanVars(Dispatch) /\ WF_chanVars(StopAllEnds)
    /\ \A r \in Reloads : WF_chanVars(Deferred(r))
    /\ \A i \in 1 .. Cardinality(Names) * (MaxReloads + 1) :
          WF_chanVars(i \in Workers /\ Work(i))

ManagerSpec == ManagerInit /\ [][ManagerNext]_chanVars /\ ManagerFairness

-----------------------------------------------------------------------------
(* Properties.                                                               *)

(* Reloads of other channels leave a channel alone: as long as StopAll has   *)
(* not been called, a channel that started and whose configuration never     *)
(* changed keeps a worker that runs under a live context, takes messages and *)
(* sends through a started object (Reload stops only what compareChannels    *)
(* calls removed, and replaces the context without cancelling it).           *)
UntouchedFlows ==
    gateway = "running" =>
        \A n \in Names \ (touched \cup broken) :
            /\ channels[n] \notin {0} \cup halted /\ workers[n] # 0
            /\ LET w == gang[workers[n]]
               IN  /\ w.object = channels[n] /\ ~w.closed /\ w.at # "done"
                   /\ w.ctx \notin cancelled

(* A message for a working channel is dropped without a send only when the   *)
(* manager stops or a reload touched that channel.                           *)
DropHasCause ==
    \A m \in Messages : fate[m].is \in {"lost", "skipped"} =>
        fate[m].name \in touched \cup broken \/ task = 0

(* Messages of a channel no reload touched are sent in the order they were   *)
(* published: one dispatcher, one queue and one worker.                      *)
SentInOrder ==
    gateway = "running" =>
        \A k, m \in Messages :
            /\ k < m /\ fate[k].name = fate[m].name
            /\ fate[m].name \notin touched /\ fate[m].is \in Settled
            => fate[k].is \in Settled

(* The names that the goroutine of reload r has yet to register.             *)
Awaited(r) == {n \in Names : \E k \in 1 .. Len(deferred[r]) :
                                deferred[r][k].do = "register" /\ deferred[r][k].name = n}

(* What ends the process: the dispatcher's send on a closed queue, once the  *)
(* manager stops or a reload touched the message's channel; or a reload that *)
(* finds no object for a name, whose last start failed, whose registration   *)
(* by an earlier reload is still to come, or which the goroutine of a reload *)
(* unregistered after a later one had started it again.                      *)
CrashHasCause ==
    gateway = "crashed" =>
        IF dispatcher.at = "panicked"
        THEN task = 0 \/ fate[dispatcher.msg].name \in touched
        ELSE \E n \in Names : /\ channels[n] = 0
                               /\ \/ n \in broken \cup overtaken
                                  \/ \E r \in Reloads : n \in Awaited(r)

ChannelsDeliver == UntouchedFlows /\ DropHasCause /\ SentInOrder /\ CrashHasCause

(* StopAll returns although it waits for every worker with m.mu held and the *)
(* dispatcher, a reload's goroutine and the workers run on; and while the    *)
(* manager runs, no message stays for ever behind the queue of another       *)
(* channel or behind a reload: again and again there is nothing under way.   *)
ManagerAdvances ==
    []<>(/\ gateway # "stopping"
         /\ gateway = "running" => \A m \in Messages : fate[m].is # "moving")

(* The started event of a reload says "worker goroutines have been started"  *)
(* (docs/architecture/runtime-events.md:114): once its goroutine is done, a  *)
(* channel whose last Start succeeded has a worker.                          *)
RestartedHasWorker ==
    gateway = "running" /\ (\A r \in Reloads : deferred[r] = <<>>) =>
        \A n \in Names \ broken : hashes[n] # 0 => workers[n] # 0
=============================================================================
