-------------------------------- MODULE Cron --------------------------------
(* The cron service: jobs in memory, the file every change is saved to, the  *)
(* loop that sleeps until the next run and executes what is due, the cron    *)
(* tool's operations, and the two ways a service is replaced: a config       *)
(* reload, which starts a new one while the old loop may still execute a job *)
(* and old turns still hold the old tool, and a crash.  One mutex guards     *)
(* each operation, none guards the job that runs.  The command picoclaw cron *)
(* works on the same file from a process of its own.  Cron expressions       *)
(* behave as "every"; a failed save is only logged and is left out.          *)
EXTENDS Integers, FiniteSets

CONSTANTS
    Ids,         \* job identifiers, random and never used twice
    MaxTime,     \* bound: the last tick of the clock
    Hour,        \* how long the loop sleeps when nothing is scheduled
    Period,      \* the period of a recurring job
    MaxServices, \* bound: services started, by the gateway or by a reload
    MaxEdits     \* bound: operations of the cron tool and of the command

CronAssumption ==
    /\ Ids # {}
    /\ {MaxServices, MaxEdits} \subseteq Nat
    /\ {MaxTime, Hour, Period} \subseteq Nat \ {0}

VARIABLES
    clock,
    phase,     \* the gateway: "down", "up" or "reloading"
    service,   \* the number of the latest service
    first,     \* the first service of this process
    store,     \* the jobs each service has in memory
    disk,      \* the jobs in the file
    loop,      \* the goroutine runLoop of each service
    copy,      \* a job that a tool call has read and will write back
    cli,       \* the command, and the jobs it has read
    edits,     \* operations left
    used,      \* history: identifiers given out
    missed,    \* history: a notify met the loop between reading and sleeping
    lapsed,    \* history: one-shot jobs whose time had passed when computed
    stale,     \* history: jobs overwritten from a copy with another next run
    clobbered, \* history: the last to save was a replaced service or the command
    taken      \* history: the one-shot jobs checkJobs took up, with their times

cronVars == <<clock, phase, service, first, store, disk, loop, copy, cli, edits, used,
              missed, lapsed, stale, clobbered, taken>>

Services == 1 .. MaxServices
Latest == MaxTime + Hour + Period
Kinds == {"none", "at", "every"}

(* A CronJob; next 0 stands for a nil NextRunAtMS.                           *)
Job == [kind: Kinds, when: 0 .. Latest, enabled: BOOLEAN, next: 0 .. Latest]
NoJob == [kind |-> "none", when |-> 0, enabled |-> FALSE, next |-> 0]
Idle == [at |-> "off", deadline |-> 0, due |-> {}, job |-> {}]
NoCopy == [by |-> 0, id |-> CHOOSE i \in Ids : TRUE, job |-> NoJob]
NoCli == [open |-> FALSE, jobs |-> [i \in Ids |-> NoJob]]

LoopPlaces == {"off", "top", "armed", "asleep", "check", "execute", "run"}

CronTypeOK ==
    /\ clock \in 1 .. MaxTime /\ phase \in {"down", "up", "reloading"}
    /\ service \in 0 .. MaxServices /\ first \in 1 .. MaxServices + 1
    /\ store \in [Services -> [Ids -> Job]] /\ disk \in [Ids -> Job]
    /\ loop \in [Services -> [at: LoopPlaces, deadline: 0 .. Latest, due: SUBSET Ids,
                             job: SUBSET Ids]]
    /\ \A s \in Services : Cardinality(loop[s].job) <= 1
    /\ copy \in [by: 0 .. MaxServices, id: Ids, job: Job]
    /\ cli \in [open: BOOLEAN, jobs: [Ids -> Job]]
    /\ edits \in 0 .. MaxEdits /\ {used, lapsed, stale} \subseteq SUBSET Ids
    /\ {missed, clobbered} \subseteq BOOLEAN /\ taken \subseteq Ids \X (1 .. MaxTime)

CronInit ==
    /\ clock = 1 /\ phase = "down" /\ service = 0 /\ first = 1
    /\ store = [s \in Services |-> [i \in Ids |-> NoJob]]
    /\ disk = [i \in Ids |-> NoJob]
    /\ loop = [s \in Services |-> Idle]
    /\ copy = NoCopy /\ cli = NoCli /\ edits = MaxEdits /\ used = {}
    /\ missed = FALSE /\ lapsed = {} /\ stale = {} /\ clobbered = FALSE
    /\ taken = {}

-----------------------------------------------------------------------------
Present(s) == {i \in Ids : store[s][i].kind # "none"}

NextRunNow(job) ==
    CASE job.kind = "at" /\ job.when >= clock -> job.when
      [] job.kind = "every"                   -> clock + Period
      [] OTHER                                -> 0

(* computeNextRun: a one-shot job whose time has passed has no next run.     *)
NextRun(job) ==
    CASE job.kind = "at" /\ job.when > clock -> job.when
      [] job.kind = "every"                  -> clock + Period
      [] OTHER                               -> 0

Scheduled(jobs) == {i \in Ids : jobs[i].enabled /\ jobs[i].next # 0}

Lapses(job) == job.enabled /\ job.kind = "at" /\ NextRun(job) = 0

(* Replace the jobs of service s and save them (saveStoreUnsafe).            *)
Save(s, jobs) ==
    /\ store' = [store EXCEPT ![s] = jobs]
    /\ disk' = jobs
    /\ clobbered' = (s # service)

(* notify: a send on a channel without a buffer, dropped unless the loop is  *)
(* in its select.                                                            *)
Notified(l) == IF l.at = "asleep" THEN [l EXCEPT !.at = "top"] ELSE l

Notify(s) ==
    /\ loop' = [loop EXCEPT ![s] = Notified(@)]
    /\ missed' = (missed \/ (s = service /\ loop[s].at = "armed"))

-----------------------------------------------------------------------------
(* The life of services.  Start reads the file, computes every next run anew *)
(* and saves; the number stands for the object NewCronService made.          *)
Start ==
    /\ phase # "up" /\ service < MaxServices
    /\ service' = service + 1 /\ phase' = "up"
    /\ LET jobs == [i \in Ids |-> IF disk[i].enabled
                                  THEN [disk[i] EXCEPT !.next = NextRun(disk[i])]
                                  ELSE disk[i]]
       IN  store' = [store EXCEPT ![service + 1] = jobs] /\ disk' = jobs
    /\ loop' = [loop EXCEPT ![service + 1].at = "top"]
    /\ lapsed' = {i \in Ids : Lapses(disk[i])}
    /\ stale' = {} /\ missed' = FALSE /\ clobbered' = FALSE
    /\ UNCHANGED <<clock, first, copy, cli, edits, used, taken>>

(* A reload stops the service; its loop ends when it next waits.             *)
Stop ==
    /\ phase = "up" /\ phase' = "reloading"
    /\ UNCHANGED <<clock, service, first, store, disk, loop, copy, cli, edits, used, missed,
                   lapsed, stale, clobbered, taken>>

Crash ==
    /\ phase # "down" /\ phase' = "down" /\ first' = service + 1
    /\ loop' = [s \in Services |-> Idle] /\ copy' = NoCopy
    /\ store' = [s \in Services |-> [i \in Ids |-> NoJob]]
    /\ UNCHANGED <<clock, service, disk, cli, edits, used, missed, lapsed, stale, clobbered,
                   taken>>

Tick ==
    /\ clock < MaxTime /\ clock' = clock + 1
    /\ UNCHANGED <<phase, service, first, store, disk, loop, copy, cli, edits, used, missed,
                   lapsed, stale, clobbered, taken>>

-----------------------------------------------------------------------------
(* runLoop.                                                                  *)

Running(s) == s = service /\ phase = "up"

LoopOnly == UNCHANGED <<clock, phase, service, first, copy, cli, edits, used, lapsed, stale>>
InLoop == LoopOnly /\ UNCHANGED <<store, disk, missed, clobbered, taken>>

(* Read the next wake-up under the lock and set the timer ...                *)
Plan(s) ==
    LET wakes == {store[s][i].next : i \in Scheduled(store[s])}
    IN  /\ loop[s].at = "top"
        /\ \E deadline \in 1 .. Latest :
              /\ IF wakes = {}
                 THEN deadline = clock + Hour
                 ELSE deadline \in wakes /\ \A w \in wakes : deadline <= w
              /\ loop' = [loop EXCEPT ![s].at = "armed", ![s].deadline = deadline]
        /\ InLoop

(* ... and only then enter the select that receives wake-ups.                *)
Sleep(s) ==
    /\ loop[s].at = "armed"
    /\ loop' = [loop EXCEPT ![s].at = "asleep"] /\ InLoop

(* The last tick stands for any later time: every timer has fired then.      *)
Fire(s) ==
    /\ loop[s].at = "asleep" /\ (loop[s].deadline <= clock \/ clock = MaxTime)
    /\ loop' = [loop EXCEPT ![s].at = "check"] /\ InLoop

QuitAnyway(s) ==
    /\ loop[s].at = "asleep"
    /\ loop' = [loop EXCEPT ![s] = Idle] /\ InLoop

Quit(s) ==
    /\ loop[s].at = "asleep" /\ ~Running(s)
    /\ loop' = [loop EXCEPT ![s] = Idle] /\ InLoop

CheckUnsaved(s) ==
    LET due == {i \in Scheduled(store[s]) : store[s][i].next <= clock}
    IN  /\ loop[s].at = "check" /\ Running(s)
        /\ loop' = [loop EXCEPT ![s].at = "execute", ![s].due = due]
        /\ store' = [store EXCEPT ![s] = [i \in Ids |->
              IF i \in due THEN [store[s][i] EXCEPT !.next = 0] ELSE store[s][i]]]
        /\ LoopOnly /\ UNCHANGED <<missed, disk, clobbered, taken>>

(* checkJobs: collect what is due, reset its next run and save.              *)
Check(s) ==
    LET due == {i \in Scheduled(store[s]) : store[s][i].next <= clock}
    IN  /\ loop[s].at = "check"
        /\ IF Running(s)
           THEN /\ loop' = [loop EXCEPT ![s].at = "execute", ![s].due = due]
                /\ Save(s, [i \in Ids |-> IF i \in due THEN [store[s][i] EXCEPT !.next = 0]
                                                       ELSE store[s][i]])
                /\ taken' = taken \cup {<<i, store[s][i].when>> :
                                            i \in {j \in due : store[s][j].kind = "at"}}
           ELSE /\ loop' = [loop EXCEPT ![s].at = "top"]
                /\ UNCHANGED <<store, disk, clobbered, taken>>
        /\ LoopOnly /\ UNCHANGED missed

(* executeJobByID up to the call of the handler: a job that is gone is       *)
(* skipped; whether it is still enabled is not looked at.                    *)
Execute(s) ==
    /\ loop[s].at = "execute"
    /\ \/ /\ loop[s].due = {}
          /\ loop' = [loop EXCEPT ![s].at = "top", ![s].deadline = 0]
       \/ \E i \in loop[s].due :
             loop' = IF i \in Present(s)
                     THEN [loop EXCEPT ![s].at = "run", ![s].job = {i}, ![s].due = @ \ {i}]
                     ELSE [loop EXCEPT ![s].due = @ \ {i}]
    /\ InLoop

FinishKeepsNil(s) ==
    /\ loop[s].at = "run"
    /\ \E i \in loop[s].job :
          Save(s, [store[s] EXCEPT ![i] = IF @.kind = "at" THEN NoJob ELSE @])
    /\ loop' = [loop EXCEPT ![s].at = "execute", ![s].job = {}]
    /\ LoopOnly /\ UNCHANGED <<missed, taken>>

(* The handler has returned: a one-shot job is deleted, by the schedule it   *)
(* has now; a recurring one gets its next run, whether or not it is enabled. *)
Finish(s) ==
    /\ loop[s].at = "run"
    /\ \E i \in loop[s].job :
          LET job == store[s][i]
          IN  IF i \notin Present(s)
              THEN UNCHANGED <<store, disk, clobbered>>
              ELSE Save(s, [store[s] EXCEPT ![i] =
                              IF job.kind = "at" THEN NoJob
                              ELSE [job EXCEPT !.next = NextRun(job)]])
    /\ loop' = [loop EXCEPT ![s].at = "execute", ![s].job = {}]
    /\ LoopOnly /\ UNCHANGED <<missed, taken>>

Loop(s) == Plan(s) \/ Sleep(s) \/ Fire(s) \/ Quit(s) \/ Check(s) \/ Execute(s) \/ Finish(s)

-----------------------------------------------------------------------------
(* The cron tool, through the service its turn knows: the latest one or, in  *)
(* a turn older than a reload, a replaced one.                               *)

Edit(s) ==
    /\ phase # "down" /\ s \in first .. service
    /\ edits > 0 /\ edits' = edits - 1
    /\ UNCHANGED <<clock, phase, service, first, cli>>

NewJobs == {[kind |-> "every", when |-> 0, enabled |-> TRUE, next |-> 0]} \cup
           {[kind |-> "at", when |-> t, enabled |-> TRUE, next |-> 0] :
               t \in clock + 1 .. MaxTime}

AddJob(s, i, job) ==
    /\ Edit(s) /\ i \notin used /\ job \in NewJobs
    /\ used' = used \cup {i}
    /\ Save(s, [store[s] EXCEPT ![i] = [job EXCEPT !.next = NextRun(job)]])
    /\ Notify(s)
    /\ UNCHANGED <<copy, lapsed, stale, taken>>

RemoveJob(s, i) ==
    /\ Edit(s) /\ i \in Present(s)
    /\ Save(s, [store[s] EXCEPT ![i] = NoJob])
    /\ Notify(s)
    /\ UNCHANGED <<copy, used, lapsed, stale, taken>>

Switched(job, enabled) ==
    [job EXCEPT !.enabled = enabled, !.next = IF enabled THEN NextRun(job) ELSE 0]

EnableJob(s, i, enabled) ==
    /\ Edit(s) /\ i \in Present(s)
    /\ LET job == Switched(store[s][i], enabled)
       IN  /\ Save(s, [store[s] EXCEPT ![i] = job])
           /\ lapsed' = IF s = service /\ Lapses(job) THEN lapsed \cup {i} ELSE lapsed
    /\ Notify(s)
    /\ UNCHANGED <<copy, used, stale, taken>>

(* updateJob of the tool: GetJob copies the job, UpdateJob writes the copy.  *)
GetJob(s, i) ==
    /\ phase # "down" /\ s \in first .. service /\ edits > 0
    /\ copy = NoCopy /\ i \in Present(s)
    /\ copy' = [by |-> s, id |-> i, job |-> store[s][i]]
    /\ UNCHANGED <<clock, phase, service, first, store, disk, loop, cli, edits, used, missed,
                   lapsed, stale, clobbered, taken>>

(* The next run is computed only when the schedule or the switch differs     *)
(* from what is stored now; otherwise the copy's is stored.                  *)
Updated(old, new) ==
    CASE ~new.enabled -> [new EXCEPT !.next = 0]
      [] new.enabled /\ (~old.enabled \/ old.kind # new.kind \/ old.when # new.when)
             -> [new EXCEPT !.next = NextRun(new)]
      [] OTHER -> new

UpdateJob(patch) ==
    LET s == copy.by  i == copy.id
        new == IF patch = NoJob THEN copy.job
               ELSE [copy.job EXCEPT !.kind = patch.kind, !.when = patch.when]
        job == Updated(store[s][i], new)
    IN  /\ s # 0 /\ Edit(s) /\ patch \in NewJobs \cup {NoJob}
        /\ copy' = NoCopy
        /\ IF i \in Present(s)
           THEN /\ Save(s, [store[s] EXCEPT ![i] = job]) /\ Notify(s)
                /\ stale' = IF /\ s = service /\ job.enabled /\ job = new
                               /\ job.next # store[s][i].next
                            THEN stale \cup {i} ELSE stale
                /\ lapsed' = IF s = service /\ Lapses(job) THEN lapsed \cup {i} ELSE lapsed
           ELSE UNCHANGED <<store, disk, clobbered, loop, missed, stale, lapsed>>
        /\ UNCHANGED <<used, taken>>

Tool(s) ==
    \/ \E i \in Ids : \/ \E job \in NewJobs : AddJob(s, i, job)
                      \/ RemoveJob(s, i)
                      \/ \E enabled \in BOOLEAN : EnableJob(s, i, enabled)
                      \/ GetJob(s, i)

-----------------------------------------------------------------------------
(* picoclaw cron: a process that reads the file (NewCronService, which is not *)
(* started), changes one job and saves all that it has read, whether or not a *)
(* gateway runs; nobody tells the gateway's service.                          *)

CliSame == UNCHANGED <<clock, phase, service, first, store, loop, copy, missed, lapsed, stale,
                       taken>>

CliOpen ==
    /\ ~cli.open /\ edits > 0 /\ edits' = edits - 1
    /\ cli' = [open |-> TRUE, jobs |-> disk]
    /\ CliSame /\ UNCHANGED <<disk, used, clobbered>>

(* What add makes of a new identifier, and remove, enable and disable of a    *)
(* job that was read; add has no one-shot jobs.                               *)
CliChanges(i) ==
    IF i \notin used
    THEN {[job EXCEPT !.next = NextRun(job)] : job \in {n \in NewJobs : n.kind = "every"}}
    ELSE IF cli.jobs[i].kind = "none" THEN {}
    ELSE {NoJob} \cup {Switched(cli.jobs[i], enabled) : enabled \in BOOLEAN}

CliSave ==
    /\ cli.open /\ cli' = NoCli
    /\ \E i \in Ids : \E job \in CliChanges(i) :
           disk' = [cli.jobs EXCEPT ![i] = job] /\ used' = used \cup {i}
    /\ clobbered' = TRUE
    /\ CliSame /\ UNCHANGED edits

(* A list, or a job that is not there.                                       *)
CliLeave ==
    /\ cli.open /\ cli' = NoCli
    /\ CliSame /\ UNCHANGED <<disk, used, clobbered, edits>>

Cli == CliOpen \/ CliSave \/ CliLeave

CronNext ==
    \/ Start \/ Stop \/ Crash \/ Tick \/ Cli
    \/ \E s \in Services : Loop(s) \/ Tool(s)
    \/ \E patch \in NewJobs \cup {NoJob} : UpdateJob(patch)

(* Time passes, a loop that can go on does, and a job's handler returns: its *)
(* commands have a time limit (execTimeout).                                 *)
CronFairness ==
    /\ WF_cronVars(Tick)
    /\ \A s \in Services : WF_cronVars(Loop(s))

CronSpec == CronInit /\ [][CronNext]_cronVars /\ CronFairness

-----------------------------------------------------------------------------
(* Properties.                                                               *)

(* An enabled job of the running service has a next run, unless the loop     *)
(* has it in hand, its one-shot time had passed when it was last computed, or *)
(* a tool call wrote it back from a copy made when it had none.              *)
EnabledIsScheduled ==
    phase = "up" =>
        \A i \in Ids : store[service][i].enabled /\ store[service][i].next = 0 =>
            i \in loop[service].due \cup loop[service].job \cup lapsed \cup stale

(* A one-shot job is taken up at most once for each time it is scheduled,    *)
(* over crashes, reloads and services that overlap: the next run is reset and *)
(* saved before the handler is called, and a time that has passed is not      *)
(* computed again.                                                            *)
OneShotOnce ==
    [][\A s \in Services : \A i \in loop'[s].due \ loop[s].due :
          store[s][i].kind = "at" => <<i, store[s][i].when>> \notin taken]_cronVars

(* The file holds the jobs of the running service, so that a crash loses no   *)
(* change a tool call was told of, unless a replaced service or the command   *)
(* picoclaw cron has saved over it since.                                     *)
FileIsCurrent == phase = "up" => disk = store[service] \/ clobbered

(* The loop sleeps past a job's next run only when the wake-up met it between *)
(* reading the jobs and entering its select.                                  *)
SleepsNoLonger ==
    phase = "up" /\ loop[service].at = "asleep" /\ ~missed =>
        \A i \in Scheduled(store[service]) : loop[service].deadline <= store[service][i].next

(* What the scheduler keeps of its jobs.                                      *)
JobsAreKept == EnabledIsScheduled /\ SleepsNoLonger /\ FileIsCurrent

(* Even then the job is late and not lost: as long as the service is not      *)
(* stopped, it is again and again that nothing is overdue.                    *)
DueIsTaken ==
    []<>(phase # "up" \/ \A i \in Scheduled(store[service]) : store[service][i].next > clock)
=============================================================================
