---------------------------- MODULE RLTraining ----------------------------
(***************************************************************************)
(* The reinforcement learning loop of rl_train.py: roll out tasks with the *)
(* served controller, update the adapter, save it, serve it under a new    *)
(* name, and log the step.  The process may die anywhere; the user starts  *)
(* it anew or resumes it from the last line of the log.  The model server  *)
(* outlives it, and refuses a name that it already serves.                 *)
(*                                                                         *)
(* Weights are the history that made them: <<"warm">> or <<"base">>, then  *)
(* the attempts (processes) that updated them.                             *)
(***************************************************************************)
EXTENDS Integers, SequencesExt, FiniteSetsExt, Functions

CONSTANTS
    WarmStart,      \* --init-adapter was given
    KL,             \* --kl-coef is positive
    Steps,          \* --steps
    Group,          \* rollouts per task
    Rewards,        \* rewards of a rollout, as integers
    MaxAttempts,    \* bound on how often the program is started
    Tears           \* what a cut leaves of a log line, of {"part", "whole"}

VARIABLES
    pc,             \* the process: "off", or the stage of main it is at
    attempt,        \* which process this is
    resumed,        \* it took its first adapter from the log
    step,           \* the step of its loop
    weights,        \* of the trainable adapter in memory
    reference,      \* the frozen second adapter, Nothing without the KL term
    controller,     \* the model the rollouts ask for
    rows,           \* the rollouts of this step: sample -> outcome
    adapters,       \* step -> what adapters/step-NNNN holds
    served,         \* the server: adapter name -> weights
    rollouts,       \* step -> the attempt that wrote rollouts/step-NNNN.jsonl
    log,            \* log.jsonl: fragments, each with or without its newline
    paid            \* rounds of rollouts, ever

process == <<pc, attempt, resumed, step, weights, reference, controller, rows>>
disk == <<adapters, rollouts, log>>
vars == <<process, disk, served, paid>>

Nothing == <<>>
Base == <<"base">>
Warm == IF WarmStart THEN <<"warm">> ELSE Base
Public == <<"public", 0>>

\* How a rollout may end: a failed one is charged the cap and has no trace.
Outcomes ==
    [reward : Rewards, error : {FALSE}] \cup {[reward |-> Min(Rewards), error |-> TRUE]}

\* A step's adapter is named after the directory and the step, the first one of
\* a process after the time.
NameOf(s) == <<"step", s>>
FirstName == <<"init", attempt>>

Serving(model) == IF model = Public THEN Base ELSE served[model]

\* json.loads of the last line, which may continue a cut one.
LastReadable ==
    Last(log).text = "whole" /\ (Len(log) > 1 => log[Len(log) - 1].newline)

Line(s, text, newline) ==
    [step |-> s, weights |-> weights, attempt |-> attempt, text |-> text, newline |-> newline]

-----------------------------------------------------------------------------
(* What a step learns from *)

Sum(f) == FoldFunction(LAMBDA x, total : x + total, 0, f)

\* The leave-one-out advantage, times Group - 1 to stay an integer.
\* The seeded mistake keeps the rollout in its own baseline's sum.
AdvantageFault(i) ==
    LET all == Sum([j \in 1..Group |-> rows[j].reward])
    IN  (Group - 1) * rows[i].reward - all

Advantage(i) ==
    LET all == Sum([j \in 1..Group |-> rows[j].reward])
    IN  (Group - 1) * rows[i].reward - (all - rows[i].reward)

\* The rollouts update takes sequences from: a trace and an advantage.
Teaching == {i \in 1..Group : ~rows[i].error /\ Advantage(i) # 0}

-----------------------------------------------------------------------------
Init ==
    /\ pc = "off" /\ attempt = 0 /\ step = 0 /\ resumed = FALSE
    /\ weights = Nothing /\ reference = Nothing /\ controller = Public
    /\ rows = Nothing
    /\ adapters = [s \in 0..Steps |-> Nothing] /\ served = << >>
    /\ rollouts = [s \in 0..Steps |-> 0] /\ log = << >>
    /\ paid = 0

\* A last line that is no JSON value ends the process here.
Start(resume) ==
    /\ pc = "off" /\ attempt < MaxAttempts
    /\ attempt' = attempt + 1 /\ controller' = Public
    /\ resumed' = (resume /\ log # << >>)
    /\ IF resumed'
       THEN /\ pc' = IF LastReadable THEN "build" ELSE "off"
            /\ step' = IF LastReadable THEN Last(log).step + 1 ELSE step
       ELSE pc' = "build" /\ step' = 1
    /\ UNCHANGED <<weights, reference, rows, disk, served, paid>>

\* The adapter of the last logged step, or the one given.
\* The seeded mistake takes the newest adapter that was saved.
FirstAdapterFault ==
    IF resumed
    THEN adapters[Max({0} \cup {s \in 0..Steps : adapters[s] # Nothing})]
    ELSE Warm

FirstAdapter == IF resumed THEN adapters[step - 1] ELSE Warm

\* The trainer: base model, trainable adapter, and the frozen copy of the
\* adapter it starts from.  An adapter that is not there ends the process.
Build ==
    /\ pc = "build"
    /\ weights' = FirstAdapter
    /\ reference' = IF KL /\ (WarmStart \/ resumed) THEN FirstAdapter ELSE Nothing
    /\ pc' = IF FirstAdapter = Nothing THEN "off"
             ELSE IF WarmStart \/ resumed THEN "serve" ELSE "first"
    /\ UNCHANGED <<attempt, resumed, step, controller, rows, disk, served, paid>>

\* load_adapter: the server takes a new name only.
Load(name, w) ==
    /\ name \notin DOMAIN served
    /\ served' = [n \in DOMAIN served \cup {name} |-> IF n = name THEN w ELSE served[n]]

\* The end of the loop's range.
\* The seeded mistake takes the range to include its end.
AfterFault(s) == IF s > Steps + 1 THEN "off" ELSE "rollout"

After(s) == IF s > Steps THEN "off" ELSE "rollout"

Serve ==
    /\ pc = "serve"
    /\ Load(FirstName, FirstAdapter)
    /\ controller' = FirstName
    /\ pc' = IF step = 1 THEN "first" ELSE After(step)
    /\ UNCHANGED <<attempt, resumed, step, weights, reference, rows, disk, paid>>

\* The evaluation before the first step, and its line.
First ==
    /\ pc = "first"
    /\ log' = Append(log, Line(0, "whole", TRUE))
    /\ pc' = After(step)
    /\ UNCHANGED <<attempt, resumed, step, weights, reference, controller, rows,
                   adapters, rollouts, served, paid>>

\* The seeded mistake keeps the file of an attempt that died.
RolloutFault ==
    /\ pc = "rollout"
    /\ rows' \in [1..Group -> Outcomes]
    /\ rollouts' = [rollouts EXCEPT ![step] = IF @ = 0 THEN attempt ELSE @]
    /\ paid' = paid + 1
    /\ pc' = "update"
    /\ UNCHANGED <<attempt, resumed, step, weights, reference, controller,
                   adapters, log, served>>

Rollout ==
    /\ pc = "rollout"
    /\ rows' \in [1..Group -> Outcomes]
    /\ rollouts' = [rollouts EXCEPT ![step] = attempt]
    /\ paid' = paid + 1
    /\ pc' = "update"
    /\ UNCHANGED <<attempt, resumed, step, weights, reference, controller,
                   adapters, log, served>>

Update ==
    /\ pc = "update"
    /\ weights' = IF Teaching = {} THEN weights ELSE Append(weights, attempt)
    /\ rows' = Nothing
    /\ pc' = "save"
    /\ UNCHANGED <<attempt, resumed, step, reference, controller, disk,
                   served, paid>>

\* The seeded mistake counts the saved adapters from zero.
SaveFault ==
    /\ pc = "save"
    /\ adapters' = [adapters EXCEPT ![step - 1] = weights]
    /\ pc' = "load"
    /\ UNCHANGED <<attempt, resumed, step, weights, reference, controller, rows,
                   rollouts, log, served, paid>>

Save ==
    /\ pc = "save"
    /\ adapters' = [adapters EXCEPT ![step] = weights]
    /\ pc' = "load"
    /\ UNCHANGED <<attempt, resumed, step, weights, reference, controller, rows,
                   rollouts, log, served, paid>>

\* The seeded mistake tries again until the server accepts.
LoadStepFault ==
    /\ pc = "load"
    /\ Load(NameOf(step), adapters[step]) /\ pc' = "unload"
    /\ UNCHANGED <<attempt, resumed, step, weights, reference, controller, rows,
                   disk, paid>>

\* A refusal ends the process after the step was paid for.
LoadStep ==
    /\ pc = "load"
    /\ \/ Load(NameOf(step), adapters[step]) /\ pc' = "unload"
       \/ NameOf(step) \in DOMAIN served /\ pc' = "off" /\ UNCHANGED served
    /\ UNCHANGED <<attempt, resumed, step, weights, reference, controller, rows,
                   disk, paid>>

\* The seeded mistake goes on asking for the adapter it began with.
UnloadFault ==
    /\ pc = "unload"
    /\ controller' = IF controller = Public THEN NameOf(step) ELSE controller
    /\ pc' = "log"
    /\ UNCHANGED <<attempt, resumed, step, weights, reference, rows, disk, paid, served>>

Unload ==
    /\ pc = "unload"
    /\ served' = IF controller = Public THEN served
                 ELSE Restrict(served, DOMAIN served \ {controller})
    /\ controller' = NameOf(step)
    /\ pc' = "log"
    /\ UNCHANGED <<attempt, resumed, step, weights, reference, rows, disk, paid>>

\* The seeded mistake logs the last step only.
LogStepFault ==
    /\ pc = "log"
    /\ log' = IF step = Steps THEN Append(log, Line(step, "whole", TRUE)) ELSE log
    /\ step' = step + 1
    /\ pc' = After(step + 1)
    /\ UNCHANGED <<attempt, resumed, weights, reference, controller, rows,
                   adapters, rollouts, served, paid>>

\* The evaluation that is due now and then, and the step's line.
LogStep ==
    /\ pc = "log"
    /\ log' = Append(log, Line(step, "whole", TRUE))
    /\ step' = step + 1
    /\ pc' = After(step + 1)
    /\ UNCHANGED <<attempt, resumed, weights, reference, controller, rows,
                   adapters, rollouts, served, paid>>

\* A kill, or an exception of the trainer, the server or a write.  The adapter
\* or the line that was being written may be there in part.
Crash ==
    /\ pc # "off"
    /\ pc' = "off" /\ rows' = Nothing
    /\ \/ UNCHANGED disk
       \/ /\ pc = "save"
          /\ adapters' = [adapters EXCEPT ![step] = Nothing]
          /\ UNCHANGED <<rollouts, log>>
       \/ /\ pc \in {"first", "log"}
          /\ \E text \in Tears :
                log' = Append(log, Line(IF pc = "first" THEN 0 ELSE step, text, FALSE))
          /\ UNCHANGED <<adapters, rollouts>>
    /\ UNCHANGED <<attempt, resumed, step, weights, reference, controller,
                   served, paid>>

Loop ==
    \/ Build \/ Serve \/ First \/ Rollout \/ Update \/ Save \/ LoadStep
    \/ Unload \/ LogStep

Next == Loop \/ Crash \/ \E resume \in BOOLEAN : Start(resume)

Spec == Init /\ [][Next]_vars

\* A process goes on; nobody has to start it again.
FairSpec == Spec /\ WF_vars(Loop)

-----------------------------------------------------------------------------
(* Properties                                                              *)

Stages == {"off", "build", "serve", "first", "rollout", "update", "save",
           "load", "unload", "log"}

TypeOK ==
    /\ pc \in Stages
    /\ attempt \in 0..MaxAttempts /\ step \in 0..(Steps + 1)
    /\ DOMAIN served \subseteq {NameOf(s) : s \in 1..Steps} \cup
                               {<<"init", a>> : a \in 1..MaxAttempts}
    /\ pc \in {"rollout", "update", "save", "load", "unload", "log"} => step <= Steps
    /\ controller # Public /\ pc \notin {"off", "unload", "log"} =>
          controller \in DOMAIN served

\* Rollouts and evaluations ask for the weights that are trained: what the
\* server answers with under the controller's name is what memory holds.
OnPolicy ==
    pc \in {"first", "rollout", "log"} => Serving(controller) = weights

\* The last line of the log can be resumed from: the adapter of its step is on
\* disk and holds the weights the line is about.
LogBacked ==
    \A i \in DOMAIN log :
        i = Len(log) /\ log[i].text = "whole" /\ log[i].step > 0 =>
            adapters[log[i].step] = log[i].weights

\* A line continues the weights of the line before it: however often the
\* process was resumed the log tells of one training, unless it was begun anew.
OneTraining ==
    \A i, j \in DOMAIN log :
        j = i + 1 /\ log[j].step # 0 /\ log[i].text = "whole" =>
            /\ log[j].step = log[i].step + 1
            /\ \/ log[j].weights = log[i].weights
               \/ \E a \in 1..attempt : log[j].weights = Append(log[i].weights, a)

\* The rollouts kept for a logged step are those its line is about, not those
\* of an attempt that died and was repeated.
RolloutsOfLog ==
    \A i \in DOMAIN log :
        log[i].step > 0 /\ (\A j \in (i + 1)..Len(log) : log[j].step > log[i].step) =>
            rollouts[log[i].step] = log[i].attempt

\* Every process loses at most the step it was in.
OneStepPerProcess ==
    paid <= attempt + Cardinality({i \in DOMAIN log : log[i].step > 0})

\* A step changes the weights only when two of its rollouts earned differently:
\* a group that all succeeds, or all fails, teaches nothing.
EqualRewardsTeachNothing ==
    [][pc = "update" /\ weights' # weights =>
         \E i, j \in 1..Group : rows[i].reward # rows[j].reward]_vars

\* A process comes to its end, or to a crash.
ProcessEnds == pc # "off" ~> pc = "off"

\* rl_train.py:474: names are unique per run so parallel or sequential runs
\* never collide.
NamesNeverCollide == pc = "load" => NameOf(step) \notin DOMAIN served

\* rl_train.py:238: the reference is a frozen copy of the warm start.
ReferenceIsWarmStart == pc = "rollout" /\ KL => reference = Warm
=============================================================================
