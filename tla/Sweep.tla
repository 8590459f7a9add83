------------------------------- MODULE Sweep -------------------------------
(***************************************************************************)
(* The policy sweep run_sweep.py: threads answer the jobs of a request     *)
(* under one of three policies and append one row each to rows.jsonl.      *)
(* There is no checkpoint beside the rows: a rerun skips the jobs whose    *)
(* rows it can read.  The process may be killed or interrupted, and an     *)
(* append may fail, leaving a part of the line.                            *)
(*                                                                         *)
(* A job is its row key: a task, and a policy (with its harness).          *)
(***************************************************************************)
EXTENDS Integers, Sequences, FiniteSets, Functions

CONSTANTS
    Requests,       \* selections of jobs, as sequences without repetition
    Settings,       \* what the key leaves out: the model, the temperature
    Workers,        \* --concurrency
    Calls,          \* calls of a fixed job (its chunks), and at most of an rlm job
    Tears,          \* what a cut leaves of a line, of {"part", "whole"}
    MaxFaults       \* bound on kills, interrupts and failing appends

VARIABLES
    pc,             \* the process: "off", "run", "drain", "broken", "summarized"
    request,        \* the jobs this process was asked for
    setting,        \* its command line, written to config.json
    job,            \* the state of each of them in this process
    row,            \* what a job has gathered
    file,           \* rows.jsonl: fragments, each with or without its newline
    paid,           \* job -> how often it was begun
    losses, interrupts

vars == <<pc, request, setting, job, row, file, paid, losses, interrupts>>

Jobs == UNION {Range(r) : r \in Requests}
Policy(k) == k[2]

NoRow == [error |-> FALSE, answered |-> 0, tokens |-> 0, setting |-> "none"]

\* Every line is one JSON value: a cut line, and a line glued to a cut one, is not.
Readable ==
    \A i \in DOMAIN file :
        file[i].text = "whole" /\ (file[i].newline \/ i = Len(file))

Rows == {i \in DOMAIN file : file[i].text = "whole"}
Stored == {file[i].key : i \in Rows}

Init ==
    /\ pc = "off" /\ request = <<>> /\ setting \in Settings
    /\ job = [k \in Jobs |-> "none"] /\ row = [k \in Jobs |-> NoRow]
    /\ file = <<>>
    /\ paid = [k \in Jobs |-> 0]
    /\ losses = 0 /\ interrupts = 0

\* The seeded mistake skips the jobs that succeeded only.
StartFault(r, s) ==
    /\ pc \in {"off", "broken", "summarized"}
    /\ request' = r /\ setting' = s
    /\ row' = [k \in Jobs |-> NoRow]
    /\ IF Readable
       THEN /\ pc' = "run"
            /\ job' = [k \in Jobs |->
                         IF k \in Range(r)
                            /\ ~\E line \in Range(file) : line.key = k /\ ~line.row.error
                         THEN "queued" ELSE "none"]
       ELSE pc' = "broken" /\ job' = [k \in Jobs |-> "none"]
    /\ UNCHANGED <<file, paid, losses, interrupts>>

Start(r, s) ==
    /\ pc \in {"off", "broken", "summarized"}
    /\ request' = r /\ setting' = s
    /\ row' = [k \in Jobs |-> NoRow]
    /\ IF Readable
       THEN /\ pc' = "run"
            /\ job' = [k \in Jobs |-> IF k \in Range(r) \ Stored THEN "queued" ELSE "none"]
       ELSE pc' = "broken" /\ job' = [k \in Jobs |-> "none"]
    /\ UNCHANGED <<file, paid, losses, interrupts>>

-----------------------------------------------------------------------------
(* The threads *)

Busy == {k \in Jobs : job[k] \in {"running", "judged"}}

\* pool.map hands the jobs out in the order of the list.
Begin(k) ==
    /\ job[k] = "queued" /\ Cardinality(Busy) < Workers
    /\ \A i, j \in DOMAIN request :
          request[j] = k /\ i < j => job[request[i]] # "queued"
    /\ job' = [job EXCEPT ![k] = "running"]
    /\ paid' = [paid EXCEPT ![k] = @ + 1]
    /\ row' = [row EXCEPT ![k].setting = setting]
    /\ UNCHANGED <<pc, request, setting, file, losses, interrupts>>

MaxAnswered(k) == IF Policy(k) = "direct" THEN 1 ELSE Calls

\* A model call that was answered, and its reported usage.
Answer(k) ==
    /\ job[k] = "running" /\ row[k].answered < MaxAnswered(k)
    /\ row' = [row EXCEPT ![k].answered = @ + 1]
    /\ UNCHANGED <<pc, request, setting, job, file, paid, losses, interrupts>>

\* A direct or a fixed job has its answer when all its calls were answered; the
\* recursive one may end with any number of them.
Judge(k) ==
    /\ job[k] = "running"
    /\ Policy(k) # "rlm" => row[k].answered = MaxAnswered(k)
    /\ job' = [job EXCEPT ![k] = "judged"]
    /\ row' = [row EXCEPT ![k].tokens = @ + row[k].answered]
    /\ UNCHANGED <<pc, request, setting, file, paid, losses, interrupts>>

\* An exception of the policy or of verify: the row keeps the error only.
\* The seeded mistake lets it end the future.
FailFault(k) ==
    /\ job[k] = "running"
    /\ job' = [job EXCEPT ![k] = "raised"]
    /\ UNCHANGED <<pc, request, setting, row, file, paid, losses, interrupts>>

Fail(k) ==
    /\ job[k] = "running"
    /\ job' = [job EXCEPT ![k] = "judged"]
    /\ row' = [row EXCEPT ![k].error = TRUE]
    /\ UNCHANGED <<pc, request, setting, file, paid, losses, interrupts>>

Line(k, text, newline) ==
    [key |-> k, row |-> row[k], text |-> text, newline |-> newline]

\* Under the lock: open for appending, write, close.
\* The seeded mistake appends what it read at the start and its own row.
AppendRowFault(k) ==
    /\ job[k] = "judged"
    /\ file' = SelectSeq(file, LAMBDA line : job[line.key] = "none")
               \o <<Line(k, "whole", TRUE)>>
    /\ job' = [job EXCEPT ![k] = "done"]
    /\ UNCHANGED <<pc, request, setting, row, paid, losses, interrupts>>

AppendRow(k) ==
    /\ job[k] = "judged"
    /\ file' = Append(file, Line(k, "whole", TRUE))
    /\ job' = [job EXCEPT ![k] = "done"]
    /\ UNCHANGED <<pc, request, setting, row, paid, losses, interrupts>>

Cuts(k) == {file} \cup {Append(file, Line(k, text, FALSE)) : text \in Tears}

AppendFails(k) ==
    /\ job[k] = "judged" /\ losses < MaxFaults
    /\ file' \in Cuts(k)
    /\ job' = [job EXCEPT ![k] = "raised"]
    /\ losses' = losses + 1
    /\ UNCHANGED <<pc, request, setting, row, paid, interrupts>>

-----------------------------------------------------------------------------
(* The main thread *)

\* The seeded mistake leaves without joining the pool.
DrainFault ==
    /\ pc' = "off"
    /\ job' = [k \in Jobs |-> IF job[k] = "queued" THEN "none" ELSE job[k]]

\* Leaving the results iterator cancels the futures that have not begun; the
\* pool is then joined.
Drain ==
    /\ pc' = "drain"
    /\ job' = [k \in Jobs |-> IF job[k] = "queued" THEN "none" ELSE job[k]]

\* The seeded mistake abandons the running jobs.
InterruptFault ==
    /\ pc = "run" /\ interrupts < MaxFaults
    /\ pc' = "off" /\ job' = [k \in Jobs |-> "none"]
    /\ interrupts' = interrupts + 1
    /\ UNCHANGED <<request, setting, row, file, paid, losses>>

Interrupt ==
    /\ pc = "run" /\ interrupts < MaxFaults
    /\ Drain
    /\ interrupts' = interrupts + 1
    /\ UNCHANGED <<request, setting, row, file, paid, losses>>

\* The results are taken in order: an exception is met when those before it are.
ResultRaises ==
    /\ pc = "run"
    /\ \E j \in DOMAIN request :
          /\ job[request[j]] = "raised"
          /\ \A i \in 1..(j - 1) : job[request[i]] \in {"none", "done"}
    /\ Drain
    /\ UNCHANGED <<request, setting, row, file, paid, losses, interrupts>>

\* The seeded mistake waits for every future to have a result.
DrainedFault ==
    /\ pc = "drain" /\ \A k \in Jobs : job[k] \in {"none", "done"}
    /\ pc' = "off" /\ job' = [k \in Jobs |-> "none"]
    /\ UNCHANGED <<request, setting, row, file, paid, losses, interrupts>>

Drained ==
    /\ pc = "drain" /\ Busy = {}
    /\ pc' = "off" /\ job' = [k \in Jobs |-> "none"]
    /\ UNCHANGED <<request, setting, row, file, paid, losses, interrupts>>

\* summarize parses the whole file again.
Summarize ==
    /\ pc = "run" /\ \A k \in Jobs : job[k] \in {"none", "done"}
    /\ pc' = IF Readable THEN "summarized" ELSE "broken"
    /\ job' = [k \in Jobs |-> "none"]
    /\ UNCHANGED <<request, setting, row, file, paid, losses, interrupts>>

Kill ==
    /\ pc \in {"run", "drain"} /\ losses < MaxFaults
    /\ \/ UNCHANGED file
       \/ \E k \in Jobs : job[k] = "judged" /\ file' \in Cuts(k)
    /\ pc' = "off" /\ job' = [k \in Jobs |-> "none"]
    /\ losses' = losses + 1
    /\ UNCHANGED <<request, setting, row, paid, interrupts>>

Work(k) ==
    \/ Begin(k) \/ Answer(k) \/ Judge(k) \/ Fail(k) \/ AppendRow(k) \/ AppendFails(k)

Main == ResultRaises \/ Drained \/ Summarize

Next ==
    \/ \E r \in Requests, s \in Settings : Start(r, s)
    \/ \E k \in Jobs : Work(k)
    \/ Main \/ Interrupt \/ Kill

Spec == Init /\ [][Next]_vars

\* Threads are scheduled, and a model call ends by its timeout at last; nobody
\* has to start, interrupt or kill the process.
FairSpec ==
    /\ Spec /\ WF_vars(Main)
    /\ \A k \in Jobs : WF_vars(Work(k))

-----------------------------------------------------------------------------
(* Properties                                                              *)

PaidInAll == FoldFunction(LAMBDA n, sum : n + sum, 0, paid)

TypeOK ==
    /\ pc \in {"off", "run", "drain", "broken", "summarized"}
    /\ request \in Requests \cup {<<>>} /\ setting \in Settings
    /\ job \in [Jobs -> {"none", "queued", "running", "judged", "done", "raised"}]
    /\ \A k \in Jobs : job[k] # "none" => pc \in {"run", "drain"} /\ k \in Range(request)
    /\ losses \in 0..MaxFaults /\ interrupts \in 0..MaxFaults

\* What rows.jsonl promises: a job whose row is in the file is never answered
\* again, and no row that reached it whole is ever lost, wherever the process
\* was cut and whatever was glued to the cut line.
Promise == INSTANCE DurableWork WITH Keys <- Jobs, stored <- Stored
WorkSpec == Promise!Spec

\* A kill costs no more than the jobs that were in the threads, a failing append
\* no more than its row; an interrupt, and a failing policy, cost nothing: every
\* job that was begun has a row once the process is gone.
OnlyCutsLose ==
    pc \in {"off", "summarized"} =>
        PaidInAll <= Cardinality(Stored) + Workers * losses

\* The table is printed from one row for each job that was asked for, made by
\* whatever chain of processes.
SummaryComplete ==
    pc = "summarized" =>
        \A k \in Range(request) :
            Cardinality({i \in DOMAIN file : file[i].key = k}) = 1

\* A process that began ends, unless it is killed, and joins its threads first.
RunEnds == pc = "run" ~> pc \notin {"run", "drain"}

\* run_sweep.py:3: every policy sees the same public request, with the same
\* model and sampling.
SamePublicRequest ==
    pc = "summarized" =>
        \A i, j \in DOMAIN file :
            file[i].key[1] = file[j].key[1] => file[i].row.setting = file[j].row.setting

\* run_sweep.py:3-5: costs are counted over every model call a policy makes.
CostsCounted ==
    pc = "summarized" =>
        \A i \in DOMAIN file : file[i].row.tokens = file[i].row.answered
=============================================================================
