------------------------------ MODULE MCServices ------------------------------
(* The services beside the agent's turns: the channel manager, the cron       *)
(* service and the runtime event bus.  They share no state, so that a run of   *)
(* them together is any interleaving of a run of each: every behaviour here    *)
(* runs one part and leaves the others where they start.  The channel manager  *)
(* has two parts, two channels with one reload and one channel with three.     *)
EXTENDS EventBus, Cron, ChannelManager

CONSTANTS n1, n2, p1, p2

VARIABLE part

(* Who has how many events left: two publishers, two and one, at a            *)
(* subscription that drops its oldest event; one publisher, two, at two        *)
(* subscriptions, of which the first blocks and is used once; and one, three,  *)
(* at that one: an event is handled, one waits and one is to block.            *)
After(x, y) == [p \in {p1, p2} |-> IF p = p1 THEN x ELSE y]
Two == [subs |-> {2}, count |-> After(1, 2)]
Both == [subs |-> {1, 2}, count |-> After(1, 3)]
Three == [subs |-> {1}, count |-> After(0, 3)]

BusSetups == {Two, Both, Three}
BusPolicies == <<"Block", "DropOldest">>

ASSUME Assumptions == ManagerAssumption /\ CronAssumption /\ EventBusAssumption

Parts == {"wide", "long", "cron", "events"}
InWide == part = "wide"
InLong == part = "long"

TypesOK == part \in Parts /\ ManagerTypeOK /\ CronTypeOK /\ TypeOK

allVars == <<part, chanVars, cronVars, eventVars>>

(* In the long part one channel is configured, and one message is for it.     *)
ServicesInit ==
    /\ part \in Parts
    /\ ManagerInit /\ CronInit /\ Init
    /\ hashes = [n \in Names |-> IF InLong /\ n # n1 THEN 0 ELSE 1]
    /\ part \in {"wide", "long"} \/ \A n \in Names : channels[n] # 0
    /\ part = "events" \/ registered = {2}

ChannelsStep ==
    /\ InWide \/ InLong
    /\ ManagerNext
    /\ Cardinality({n \in Names : hashes'[n] # hashes[n]}) <= 1
    /\ InWide => task' <= 2
    /\ InLong => /\ \A n \in Names \ {n1} : hashes'[n] = 0
                 /\ \A m \in Messages : fate'[m].is # "unborn" =>
                       m = 1 /\ fate'[m].name = n1 /\ task' <= 3
    /\ UNCHANGED <<part, cronVars, eventVars>>
CronStep ==
    part = "cron" /\ CronNext /\ UNCHANGED <<part, chanVars, eventVars>>
EventsStep ==
    part = "events" /\ Next /\ UNCHANGED <<part, chanVars, cronVars>>

ServicesNext == ChannelsStep \/ CronStep \/ EventsStep

(* The fairness of each module, for the part that runs; nothing of the        *)
(* channel manager that is fair can go on before its main goroutine does.     *)
ServicesFairness ==
    /\ ManagerFairness
    /\ WF_cronVars(part = "cron" /\ Tick)
    /\ \A s \in 1 .. 2 : WF_cronVars(part = "cron" /\ Loop(s))
    /\ \A p \in {p1, p2} :
          WF_eventVars(part = "events" /\ publisher[p].at # "idle" /\ Publishing(p))
    /\ \A s \in 1 .. 2 : /\ WF_eventVars(part = "events" /\ Close(s))
                         /\ WF_eventVars(part = "events" /\ Run(s))
    /\ WF_eventVars(part = "events" /\ CloseNext)

ServicesSpec == ServicesInit /\ [][ServicesNext]_allVars /\ ServicesFairness
=============================================================================
