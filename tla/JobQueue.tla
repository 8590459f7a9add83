----------------------------- MODULE JobQueue ------------------------------
(***************************************************************************)
(* The job queue of src/experiments/ops: specifications are files that     *)
(* move from pending/ over running/ to done/; one dispatcher starts them   *)
(* through launch.py, which starts the experiment, writes its PID into the *)
(* run directory and goes on watching it.  The dispatcher may die between  *)
(* any two steps, the launcher and the experiment survive it, and a name   *)
(* may be queued again after it is done.                                   *)
(*                                                                         *)
(* Process ids are not reused in the model.                                *)
(***************************************************************************)
EXTENDS Naturals, FiniteSets, Sequences

CONSTANTS
    Jobs,           \* names that are queued
    Lanes, Lane,    \* the lane of every job
    Slots,          \* lane -> capacity
    Priority,       \* job -> priority
    After,          \* job -> the names it waits for, queued or not
    MaxAdds,        \* bound on how often a name is queued
    MaxDeaths,      \* bound on the deaths of the dispatcher
    IdleRounds      \* IDLE_ALARM_MIN in rounds of the dispatcher

VARIABLES
    pending, running, done,     \* the files of the three directories
    wrapperOf,      \* job -> the launch whose process id its running file has
    pidFile,        \* job -> the launch whose experiment PID names, 0 if none
    launches,       \* every launch: [job, wrapper, experiment]
    added, deaths,
    pc, toScan, live, todo, doneNames, current,     \* the dispatcher
    idle, alarm     \* IDLE_SINCE in rounds, the file IDLE-ALARM

files == <<pending, running, done, wrapperOf>>
processes == <<pidFile, launches>>
bounds == <<added, deaths>>
dispatcher == <<pc, toScan, live, todo, doneNames, current, idle, alarm>>
vars == <<files, processes, bounds, dispatcher>>

Ids == DOMAIN launches

Init ==
    /\ pending = {} /\ running = {} /\ done = {}
    /\ wrapperOf = [j \in Jobs |-> 0] /\ pidFile = [j \in Jobs |-> 0]
    /\ launches = <<>>
    /\ added = [j \in Jobs |-> 0] /\ deaths = 0
    /\ pc = "off" /\ toScan = {} /\ live = {} /\ todo = {} /\ doneNames = {}
    /\ current = {} /\ idle = [l \in Lanes |-> 0] /\ alarm = FALSE

-----------------------------------------------------------------------------
(* The user and the machine *)

\* queue.py add, of a new name or of one that is done.
Add(j) ==
    /\ j \notin pending \cup running /\ added[j] < MaxAdds
    /\ pending' = pending \cup {j}
    /\ added' = [added EXCEPT ![j] = @ + 1]
    /\ UNCHANGED <<running, done, wrapperOf, processes, deaths, dispatcher>>

\* IDLE_SINCE and the round's lists are lost with the process.
DispatcherDies ==
    /\ pc # "off" /\ deaths < MaxDeaths
    /\ deaths' = deaths + 1
    /\ pc' = "off" /\ toScan' = {} /\ live' = {} /\ todo' = {}
    /\ doneNames' = {} /\ current' = {} /\ idle' = [l \in Lanes |-> 0]
    /\ UNCHANGED <<alarm, files, processes, added>>

-----------------------------------------------------------------------------
(* launch.py and the experiment *)

At(i, wrapper, experiment) ==
    launches[i].wrapper = wrapper /\ launches[i].experiment = experiment

Becomes(i, wrapper, experiment) ==
    /\ launches' = [launches EXCEPT ![i].wrapper = wrapper,
                                    ![i].experiment = experiment]
    /\ UNCHANGED <<files, bounds, dispatcher>>

Refused(i) == At(i, "checking", "none") /\ Becomes(i, "ended", "none") /\ UNCHANGED pidFile

StartExperiment(i) ==
    At(i, "checking", "none") /\ Becomes(i, "started", "alive") /\ UNCHANGED pidFile

WritePid(i) ==
    /\ launches[i].wrapper = "started"
    /\ Becomes(i, "watching", launches[i].experiment)
    /\ pidFile' = [pidFile EXCEPT ![launches[i].job] = i]

\* The health check is over: it watches the rows for a bounded time (launch.py:86).
WatchEnds(i) ==
    /\ launches[i].wrapper = "watching"
    /\ Becomes(i, "ended", launches[i].experiment)
    /\ UNCHANGED pidFile

ExperimentEnds(i) ==
    /\ launches[i].experiment = "alive"
    /\ Becomes(i, launches[i].wrapper, "ended")
    /\ UNCHANGED pidFile

-----------------------------------------------------------------------------
(* The dispatcher: queue.py run *)

BeginRound ==
    /\ pc \in {"off", "sleep"}
    /\ pc' = "scan" /\ toScan' = running /\ live' = {}
    /\ UNCHANGED <<todo, doneNames, current, idle, alarm, files, processes, bounds>>

\* The seeded mistake counts a job as finished with its launcher.
JobAliveFault(j) == launches[wrapperOf[j]].wrapper # "ended"

\* job_pid and alive: the PID of the run directory, whichever attempt wrote
\* it, else that of the launcher.
JobAlive(j) ==
    IF pidFile[j] # 0 THEN launches[pidFile[j]].experiment = "alive"
    ELSE launches[wrapperOf[j]].wrapper # "ended"

\* The seeded mistake removes the file of a finished job.
FinishedFault(j) == done' = done /\ running' = running \ {j}

Finished(j) == done' = done \cup {j} /\ running' = running \ {j}

\* running(), one file at a time.
ScanJob(j) ==
    /\ pc = "scan" /\ j \in toScan
    /\ toScan' = toScan \ {j}
    /\ IF JobAlive(j) THEN live' = live \cup {j} /\ UNCHANGED <<running, done>>
                      ELSE Finished(j) /\ UNCHANGED live
    /\ UNCHANGED <<pc, todo, doneNames, current, idle, alarm, pending, wrapperOf,
                   processes, bounds>>

\* The seeded mistake stops counting one round too early.
IdleForFault(l, serving) ==
    IF serving \/ \E j \in live : Lane[j] = l THEN 0
    ELSE IF idle[l] + 1 < IdleRounds THEN idle[l] + 1 ELSE idle[l]

IdleFor(l, serving) ==
    IF serving \/ \E j \in live : Lane[j] = l THEN 0
    ELSE IF idle[l] < IdleRounds THEN idle[l] + 1 ELSE idle[l]

\* idle_alarm, then the specifications and the names that are done.  A lane
\* whose model servers answer requests of others is not idle.
ReadPending(serving) ==
    /\ pc = "scan" /\ toScan = {}
    /\ pc' = "pick" /\ todo' = pending /\ doneNames' = done
    /\ idle' = [l \in Lanes |-> IdleFor(l, l \in serving)]
    /\ alarm' = (\E l \in Lanes : idle'[l] = IdleRounds)
    /\ UNCHANGED <<toScan, live, current, files, processes, bounds>>

Busy(l) == Cardinality({j \in live : Lane[j] = l})

\* The seeded mistake compares with the capacity after the start.
EligibleFault(j) == Busy(Lane[j]) <= Slots[Lane[j]] /\ After[j] \subseteq doneNames

Eligible(j) == Busy(Lane[j]) < Slots[Lane[j]] /\ After[j] \subseteq doneNames

HighestPriority(j) == \A k \in todo : Priority[k] <= Priority[j]

Skip(j) ==
    /\ pc = "pick" /\ j \in todo /\ HighestPriority(j) /\ ~Eligible(j)
    /\ todo' = todo \ {j}
    /\ UNCHANGED <<pc, toScan, live, doneNames, current, idle, alarm, files, processes,
                   bounds>>

Popen(j) ==
    /\ pc = "pick" /\ j \in todo /\ HighestPriority(j) /\ Eligible(j)
    /\ launches' = Append(launches, [job |-> j, wrapper |-> "checking",
                                     experiment |-> "none"])
    /\ todo' = todo \ {j} /\ current' = {j} /\ pc' = "record"
    /\ UNCHANGED <<toScan, live, doneNames, idle, alarm, files, pidFile, bounds>>

Record ==
    /\ pc = "record" /\ pc' = "unlink"
    /\ running' = running \cup current
    /\ wrapperOf' = [j \in Jobs |-> IF j \in current THEN Len(launches)
                                    ELSE wrapperOf[j]]
    /\ UNCHANGED <<pending, done, processes, bounds, toScan, live, todo, doneNames,
                   current, idle, alarm>>

\* The seeded mistake leaves the specification in pending.
UnlinkFault ==
    /\ pc = "unlink" /\ pc' = "pick"
    /\ live' = live \cup current /\ current' = {}
    /\ UNCHANGED <<files, processes, bounds, toScan, todo, doneNames, idle, alarm>>

Unlink ==
    /\ pc = "unlink" /\ pc' = "pick"
    /\ pending' = pending \ current
    /\ live' = live \cup current /\ current' = {}
    /\ UNCHANGED <<running, done, wrapperOf, processes, bounds, toScan, todo,
                   doneNames, idle, alarm>>

RoundEnds ==
    /\ pc = "pick" /\ todo = {} /\ pc' = "sleep"
    /\ UNCHANGED <<toScan, live, todo, doneNames, current, idle, alarm, files, processes,
                   bounds>>

DispatcherStep ==
    \/ BeginRound \/ Record \/ Unlink \/ RoundEnds
    \/ \E j \in Jobs : ScanJob(j) \/ Skip(j) \/ Popen(j)
    \/ \E serving \in SUBSET Lanes : ReadPending(serving)

LaunchStep(i) == Refused(i) \/ StartExperiment(i) \/ WritePid(i) \/ WatchEnds(i)

Next ==
    \/ DispatcherStep \/ DispatcherDies
    \/ \E j \in Jobs : Add(j)
    \/ \E i \in Ids : LaunchStep(i) \/ ExperimentEnds(i)

Spec == Init /\ [][Next]_vars

\* The dispatcher loops for ever and a launcher comes to its end; that
\* experiments end is what the user expects of them.
FairSpec ==
    /\ Spec /\ WF_vars(DispatcherStep)
    /\ \A i \in 1..(Cardinality(Jobs) * MaxAdds + MaxDeaths) :
        WF_vars(i \in Ids /\ LaunchStep(i)) /\ WF_vars(i \in Ids /\ ExperimentEnds(i))

-----------------------------------------------------------------------------
(* Properties *)

TypeOK ==
    /\ pending \cup running \cup done \subseteq Jobs
    /\ wrapperOf \in [Jobs -> 0..Len(launches)] /\ pidFile \in [Jobs -> 0..Len(launches)]
    /\ \A i \in Ids :
        /\ launches[i].job \in Jobs
        /\ launches[i].wrapper \in {"checking", "started", "watching", "ended"}
        /\ launches[i].experiment \in {"none", "alive", "ended"}
    /\ added \in [Jobs -> 0..MaxAdds] /\ deaths \in 0..MaxDeaths
    /\ pc \in {"off", "scan", "pick", "record", "unlink", "sleep"}
    /\ toScan \cup live \cup todo \cup doneNames \cup current \subseteq Jobs
    /\ Cardinality(current) <= 1
    /\ \A l \in Lanes : Busy(l) <= Slots[l]
    /\ idle \in [Lanes -> 0..IdleRounds] /\ alarm \in BOOLEAN

\* Launches that hold, or are about to hold, a share of a lane's GPU.
Occupying(l) ==
    {i \in Ids : /\ Lane[launches[i].job] = l
                 /\ \/ launches[i].experiment = "alive"
                    \/ At(i, "checking", "none")}

\* The dispatcher never overcommits a lane, however the end of experiments and
\* launchers, the PID files and its own rounds interleave.
LaneCapacity == \A l \in Lanes : Cardinality(Occupying(l)) <= Slots[l]

\* "after": an experiment starts when those it waits for are over.
DependencyOrder ==
    \A i, k \in Ids :
        launches[k].job \in After[launches[i].job] =>
            \/ launches[i].experiment = "none"
            \/ launches[k].experiment # "alive"

\* A specification that was queued is in one of the directories for ever,
\* whenever the dispatcher dies.
JobNeverLost == \A j \in Jobs : added[j] > 0 => j \in pending \cup running \cup done

\* The dispatcher starts a queued job once; each of its deaths, between the
\* start and the removal of the pending file, costs at most one second start.
StartedOncePerDeath ==
    \A j \in Jobs :
        Cardinality({i \in Ids : launches[i].job = j}) <= added[j] + deaths

\* Every queued job whose dependencies are queued comes to its end.
QueueDrains ==
    \A j \in Jobs :
        j \in pending /\ (\A k \in After[j] : added[k] > 0) ~> j \in done

\* A lane that stays without work raises the alarm, and keeps it raised.
IdleIsNoticed ==
    \A l \in Lanes :
        <>[](\A j \in running \cup pending : Lane[j] # l) /\ <>[][\A S \in SUBSET Lanes :
            ReadPending(S) => l \notin S]_vars => <>[]alarm

\* queue.py:4-5 says of "after": "wait until those runs have a DONE or are not
\* running"; a job must not wait for ever for runs that are not running.
AfterReleases ==
    \A j \in Jobs :
        ~<>[](j \in pending /\ \A i \in Ids : launches[i].job \notin After[j] \cup {j}
                /\ running = {})

=============================================================================
