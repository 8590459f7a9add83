----------------------------- MODULE ProposerRL -----------------------------
(***************************************************************************)
(* The training of the library proposer (proposer_rl.py): sample groups of *)
(* libraries from the served adapter, score them in a worker, take one     *)
(* policy-gradient update, save the adapter and swap it in the server.     *)
(*                                                                         *)
(* A process begins with step 1 and the given adapter, whatever an earlier *)
(* one left in the directory, in the log and in the server, which outlives *)
(* the processes and refuses a name it already serves.  Weights are the    *)
(* processes that updated them, in order; the given adapter has none.      *)
(***************************************************************************)
EXTENDS Integers, Sequences, FiniteSets, Functions

CONSTANTS
    Steps,          \* --steps
    Families,       \* --families-per-step
    Group,          \* --group
    Rewards,        \* what a library may earn, as integers
    KeepEvery,      \* steps whose directory is kept: 10 in the code
    MaxStarts       \* bound on how often the program is started

VARIABLES
    stage,          \* "off", or where main is
    start,          \* which process this is
    step,           \* the step of its loop
    policy,         \* the weights in memory
    current,        \* the adapter it samples from
    rewards,        \* family -> sample -> reward, of this step
    directories,    \* step -> what out/step-N holds, Absent or Cut
    served,         \* the server: adapter name -> weights
    steplog,        \* steps.jsonl: [start, step, adapter, weights]
    final           \* what FINAL names, Absent before it is written

vars == <<stage, start, step, policy, current, rewards, directories, served, steplog, final>>

Given == 0                  \* --start-name; proposer-rl-<seed>-<s> is named s
Absent == <<0>>            \* no process is 0
Cut == <<0, 0>>
NoRewards == << >>

\* The given adapter, with a fresh optimiser.
FreshPolicy == << >>

Init ==
    /\ stage = "off" /\ start = 0 /\ step = 1
    /\ policy = FreshPolicy /\ current = Given /\ rewards = NoRewards
    /\ directories = [s \in 1..Steps |-> Absent]
    /\ served = [name \in {Given} |-> FreshPolicy]
    /\ steplog = << >> /\ final = Absent

Start ==
    /\ stage = "off" /\ start < MaxStarts
    /\ start' = start + 1 /\ step' = 1
    /\ policy' = FreshPolicy /\ current' = Given
    /\ stage' = "sample"
    /\ UNCHANGED <<rewards, directories, served, steplog, final>>

\* Prompts of the picked families, samples of the current adapter, and their
\* scores on tasks that the prompt did not show.
Sample ==
    /\ stage = "sample"
    /\ rewards' \in [1..Families -> [1..Group -> Rewards]]
    /\ stage' = "update"
    /\ UNCHANGED <<start, step, policy, current, directories, served, steplog, final>>

\* A group whose samples earn the same teaches nothing.
Teaches(f) == \E k, l \in 1..Group : rewards[f][k] # rewards[f][l]

\* The step of the optimiser changes the weights unless every sequence was too
\* long or empty, and was left out.
Update ==
    /\ stage = "update"
    /\ \/ UNCHANGED policy
       \/ (\E f \in 1..Families : Teaches(f)) /\ policy' = Append(policy, start)
    /\ rewards' = NoRewards
    /\ stage' = "save"
    /\ UNCHANGED <<start, step, current, directories, served, steplog, final>>

\* The directory of an earlier process is written over.
Save ==
    /\ stage = "save"
    /\ directories' = [directories EXCEPT ![step] = policy]
    /\ stage' = "swap"
    /\ UNCHANGED <<start, step, policy, current, rewards, served, steplog, final>>

\* A refused name ends the process.
SwapIn ==
    /\ stage = "swap"
    /\ IF step \in DOMAIN served
       THEN stage' = "off" /\ UNCHANGED served
       ELSE /\ served' = [name \in DOMAIN served \cup {step} |->
                            IF name = step THEN directories[step] ELSE served[name]]
            /\ stage' = "unload"
    /\ UNCHANGED <<start, step, policy, current, rewards, directories, steplog, final>>

\* The given adapter stays loaded; nobody looks at the answer to the request.
Unload ==
    /\ stage = "unload"
    /\ \/ current # Given /\ served' = Restrict(served, DOMAIN served \ {current})
       \/ UNCHANGED served
    /\ current' = step
    /\ stage' = "log"
    /\ UNCHANGED <<start, step, policy, rewards, directories, steplog, final>>

LogStep ==
    /\ stage = "log"
    /\ steplog' = Append(steplog, [start |-> start, step |-> step, weights |-> policy])
    /\ stage' = "tidy"
    /\ UNCHANGED <<start, step, policy, current, rewards, directories, served, final>>

\* The directory of the step before the last one goes, unless it is a tenth.
Tidy ==
    /\ stage = "tidy"
    /\ directories' =
          IF step > 2 /\ (step - 2) % KeepEvery # 0
          THEN [directories EXCEPT ![step - 2] = Absent] ELSE directories
    /\ IF step = Steps THEN stage' = "final" /\ UNCHANGED step
       ELSE stage' = "sample" /\ step' = step + 1
    /\ UNCHANGED <<start, policy, current, rewards, served, steplog, final>>

WriteFinal ==
    /\ stage = "final"
    /\ final' = current /\ stage' = "off"
    /\ UNCHANGED <<start, step, policy, current, rewards, directories, served, steplog>>

\* A kill, or an exception of a request, the worker, the trainer or a write.
Crash ==
    /\ stage # "off"
    /\ stage' = "off" /\ rewards' = NoRewards
    /\ \/ UNCHANGED directories
       \/ stage = "save" /\ directories' = [directories EXCEPT ![step] = Cut]
    /\ UNCHANGED <<start, step, policy, current, served, steplog, final>>

Next ==
    \/ Start \/ Sample \/ Update \/ Save \/ SwapIn \/ Unload \/ LogStep \/ Tidy
    \/ WriteFinal \/ Crash

Spec == Init /\ [][Next]_vars

-----------------------------------------------------------------------------
(* Properties *)

\* Libraries are sampled from the weights that their rewards will change, even
\* when an earlier process left adapters of the same names in the server.
SamplesOnPolicy == stage = "sample" => served[current] = policy

\* At the start of a step and at the end, the adapter that is served and the one
\* before it can be loaded again: their directories hold the weights of the log.
LastTwoOnDisk ==
    stage \in {"sample", "final"} =>
        LET n == Len(steplog)
        IN  \A i \in (n - 1)..n :
                i \in DOMAIN steplog /\ steplog[i].start = start /\ step > 1 =>
                    directories[steplog[i].step] = steplog[i].weights

\* Of one process, the log has every step once and in order, each with the weights
\* of the one before or one update more.
LogIsOneTraining ==
    \A i \in 2..Len(steplog) :
        steplog[i].start = steplog[i - 1].start =>
            /\ steplog[i].step = steplog[i - 1].step + 1
            /\ \/ steplog[i].weights = steplog[i - 1].weights
               \/ steplog[i].weights = Append(steplog[i - 1].weights, steplog[i].start)
=============================================================================
