----------------------------- MODULE OneUpdate -----------------------------
(***************************************************************************)
(* The teaching fit of one update (train.py of recovery_teaching_20261014):*)
(* one plan, one attempt, one step of Adam, a checkpoint before the checks *)
(* after the fit, a summary, and the read-out that takes the endpoint when *)
(* everything agrees.  The attempt is refused when an OWNER file is there, *)
(* which is looked at before the lock is taken: several processes may pass.*)
(*                                                                         *)
(* The library's p.c.save and save_boundary are not in the repository;     *)
(* they are taken to create a file once, as dose_common.save does.         *)
(***************************************************************************)
EXTENDS Integers, Sequences, FiniteSets

CONSTANTS
    Updaters,       \* the processes started on one output directory
    Arms            \* what they may be told to teach: each gives another plan

VARIABLES
    teachingPlan,   \* what PLAN.json holds, NoPlan before it is written
    ownerFiles,     \* the processes with an OWNER file
    loadFile,       \* who wrote LOAD.json, Nobody
    updateFile,     \* who wrote UPDATE.json, Nobody
    boundary,       \* the checkpoint: [by, steps, plan], or Nothing
    summaryFile,    \* SUMMARY.json: [by, complete, endpoint, steps], or Nothing
    terminalFiles,  \* the processes with a TERMINAL file
    lockHolder,     \* who holds COORDINATOR.lock, Nobody
    updaters        \* process -> where it is, and what it has in memory

files == <<teachingPlan, ownerFiles, loadFile, updateFile, boundary, summaryFile, terminalFiles>>
vars == <<files, lockHolder, updaters>>

NoPlan == "no plan"
Nobody == "nobody"
Nothing == << >>

Idle == [pc |-> "idle", steps |-> 0, endpoint |-> FALSE, checked |-> FALSE, failed |-> FALSE]

Init ==
    /\ teachingPlan = NoPlan /\ ownerFiles = {} /\ terminalFiles = {}
    /\ loadFile = Nobody /\ updateFile = Nobody
    /\ boundary = Nothing /\ summaryFile = Nothing
    /\ lockHolder = Nobody
    /\ updaters = [p \in Updaters |-> Idle]

At(p, pc) == updaters[p].pc = pc
Goes(p, pc) == updaters' = [updaters EXCEPT ![p].pc = pc]
Fails(p) == updaters' = [updaters EXCEPT ![p].pc = "summary", ![p].failed = TRUE]

\* The library's save and save_boundary make a file that is not there yet.
CanCreate(content, none) == content = none

\* Frozen inputs, rows and tokens, checked before anything is written; the plan
\* is written once and must be the same for ever.
Prepare(p, arm) ==
    /\ At(p, "idle")
    /\ \/ teachingPlan = NoPlan /\ teachingPlan' = arm /\ Goes(p, "look")
       \/ teachingPlan = arm /\ Goes(p, "look") /\ UNCHANGED teachingPlan
       \/ teachingPlan \notin {NoPlan, arm} /\ Goes(p, "ended") /\ UNCHANGED teachingPlan
    /\ UNCHANGED <<ownerFiles, loadFile, updateFile, boundary, summaryFile, terminalFiles,
                   lockHolder>>

\* There is no implicit retry.
Look(p) ==
    /\ At(p, "look")
    /\ Goes(p, IF ownerFiles = {} THEN "lock" ELSE "ended")
    /\ UNCHANGED <<files, lockHolder>>

\* Changed inputs, no GPU or no time, or only the plan was asked for.
Refuse(p) ==
    /\ updaters[p].pc \in {"idle", "look", "lock"}
    /\ Goes(p, "ended")
    /\ UNCHANGED <<files, lockHolder>>

Begin(p) ==
    /\ At(p, "lock")
    /\ IF lockHolder = Nobody
       THEN lockHolder' = p /\ ownerFiles' = ownerFiles \cup {p} /\ Goes(p, "load")
       ELSE UNCHANGED <<lockHolder, ownerFiles>> /\ Goes(p, "ended")
    /\ UNCHANGED <<teachingPlan, loadFile, updateFile, boundary, summaryFile, terminalFiles>>

\* The model, its adapter and a fresh optimiser, and LOAD.json.
Load(p) ==
    /\ At(p, "load")
    /\ IF CanCreate(loadFile, Nobody) THEN loadFile' = p /\ Goes(p, "update")
       ELSE UNCHANGED loadFile /\ Fails(p)
    /\ UNCHANGED <<teachingPlan, ownerFiles, updateFile, boundary, summaryFile, terminalFiles,
                   lockHolder>>

\* Losses before, the gradient of every row, one step of Adam.
Update(p) ==
    /\ At(p, "update")
    /\ updaters' = [updaters EXCEPT ![p].pc = "checkpoint", ![p].steps = @ + 1]
    /\ UNCHANGED <<files, lockHolder>>

Checkpoint(p) ==
    /\ At(p, "checkpoint")
    /\ IF CanCreate(boundary, Nothing)
       THEN /\ boundary' = [by |-> p, steps |-> updaters[p].steps, plan |-> teachingPlan]
            /\ updaters' = [updaters EXCEPT ![p].pc = "after", ![p].endpoint = TRUE]
       ELSE UNCHANGED boundary /\ Fails(p)
    /\ UNCHANGED <<teachingPlan, ownerFiles, loadFile, updateFile, summaryFile, terminalFiles,
                   lockHolder>>

\* The losses after the update are finite.
After(p) ==
    /\ At(p, "after")
    /\ updaters' = [updaters EXCEPT ![p].pc = "receipt", ![p].checked = TRUE]
    /\ UNCHANGED <<files, lockHolder>>

WriteUpdate(p) ==
    /\ At(p, "receipt")
    /\ IF CanCreate(updateFile, Nobody) THEN updateFile' = p /\ Goes(p, "summary")
       ELSE UNCHANGED updateFile /\ Fails(p)
    /\ UNCHANGED <<teachingPlan, ownerFiles, loadFile, boundary, summaryFile, terminalFiles,
                   lockHolder>>

\* The guard before a row, a signal, or an exception of the model, of a check
\* or of a write.
Stop(p) ==
    /\ updaters[p].pc \in {"load", "update", "checkpoint", "after", "receipt"}
    /\ Fails(p)
    /\ UNCHANGED <<files, lockHolder>>

\* Adam stepped, and the check of its counter or of the change failed.
StepRejected(p) ==
    /\ At(p, "update")
    /\ updaters' = [updaters EXCEPT ![p].pc = "summary", ![p].steps = @ + 1, ![p].failed = TRUE]
    /\ UNCHANGED <<files, lockHolder>>

\* A summary that cannot be written leaves no TERMINAL file; the process dies.
Summarise(p) ==
    LET u == updaters[p]
    IN  /\ At(p, "summary")
        /\ IF CanCreate(summaryFile, Nothing)
           THEN /\ summaryFile' = [by |-> p, steps |-> u.steps, endpoint |-> u.endpoint,
                                   complete |-> ~u.failed /\ u.endpoint]
                /\ Goes(p, "terminal") /\ UNCHANGED lockHolder
           ELSE lockHolder' = Nobody /\ Goes(p, "ended") /\ UNCHANGED summaryFile
        /\ UNCHANGED <<teachingPlan, ownerFiles, loadFile, updateFile, boundary, terminalFiles>>

WriteTerminal(p) ==
    /\ At(p, "terminal")
    /\ terminalFiles' = terminalFiles \cup {p}
    /\ lockHolder' = Nobody
    /\ Goes(p, "ended")
    /\ UNCHANGED <<teachingPlan, ownerFiles, loadFile, updateFile, boundary, summaryFile>>

\* A kill: the system lets go of the lock.
Killed(p) ==
    /\ updaters[p].pc \notin {"idle", "ended"}
    /\ lockHolder' = IF lockHolder = p THEN Nobody ELSE lockHolder
    /\ Goes(p, "ended")
    /\ UNCHANGED files

Next ==
    \E p \in Updaters :
        \/ \E arm \in Arms : Prepare(p, arm)
        \/ Look(p) \/ Refuse(p) \/ Begin(p) \/ Load(p)
        \/ Update(p) \/ StepRejected(p) \/ Checkpoint(p) \/ After(p) \/ WriteUpdate(p)
        \/ Stop(p) \/ Summarise(p) \/ WriteTerminal(p) \/ Killed(p)

Spec == Init /\ [][Next]_vars

-----------------------------------------------------------------------------
(* The read-out *)

\* endpoint: what the evaluation takes for the taught actor.
EndpointTaken ==
    /\ summaryFile # Nothing /\ summaryFile.complete /\ summaryFile.endpoint
    /\ summaryFile.steps = 1
    /\ boundary # Nothing /\ boundary.steps = 1 /\ boundary.plan = teachingPlan

-----------------------------------------------------------------------------
(* Properties *)

\* Whichever processes passed the look at the OWNER files, only one of them ever
\* took a step of Adam: there is no implicit retry.
NoImplicitRetry ==
    \A p, q \in Updaters : updaters[p].steps > 0 /\ updaters[q].steps > 0 => p = q

\* What the evaluation takes is the update of the process that summarised it,
\* which made all its checks after the fit and left its receipt.
TakenIsChecked ==
    EndpointTaken =>
        /\ boundary.by = summaryFile.by /\ updateFile = summaryFile.by
        /\ updaters[summaryFile.by].checked
=============================================================================
