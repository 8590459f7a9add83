----------------------------- MODULE SecondFit -----------------------------
(***************************************************************************)
(* The continuation of a teacher by two more epochs (train.py and          *)
(* dose_common.py of teaching_second_fit_20261015): a process restores the *)
(* last committed checkpoint, takes the campaign's lock, and for every     *)
(* batch of the schedule updates, writes the receipt of the step and       *)
(* commits a checkpoint.  Several processes may be started, at once or one *)
(* after another; one may stop at a guard, fail, or be killed.             *)
(*                                                                         *)
(* Weights are their history after the original fit: who updated them with *)
(* which batch.  Every file is written with open("x"), once.               *)
(***************************************************************************)
EXTENDS Integers, SequencesExt, FiniteSetsExt, Functions

CONSTANTS
    Fits,           \* the processes, each with an owner identity of its own
    Plans,          \* the plans their sources and inputs may give
    Rows,           \* rows of an epoch
    Batch,          \* rows of a full batch
    Epochs          \* epochs in all, the first of them done

VARIABLES
    plan,           \* what PLAN.json holds, NoPlan before it is written
    owners,         \* the processes with an OWNER file
    terminals,      \* process -> its TERMINAL file
    receipts,       \* step -> [by, rows], the files of steps/
    checkpoints,    \* step -> [state, lineage], the committed ones
    coordinator,    \* who holds COORDINATOR.lock, Nobody
    fits            \* process -> where it is, and what it has in memory

vars == <<plan, owners, terminals, receipts, checkpoints, coordinator, fits>>

NoPlan == "no plan"
Nobody == "nobody"

-----------------------------------------------------------------------------
(* Cumulative states *)

PerEpoch == (Rows + Batch - 1) \div Batch
Endpoint == Epochs * PerEpoch

ValidState(s) ==
    /\ s.epoch \in 1..Epochs
    /\ s.cursor \in 0..(Rows - 1) /\ s.cursor % Batch = 0
    /\ s.step = s.epoch * PerEpoch + s.cursor \div Batch
    /\ s.epoch = Epochs => s.cursor = 0
    /\ s.rows = s.epoch * Rows + s.cursor

Original == [step |-> PerEpoch, epoch |-> 1, cursor |-> 0, rows |-> Rows]

BatchSize(s) == Min({Batch, Rows - s.cursor})

Advance(s) ==
    LET cursor == s.cursor + BatchSize(s)
    IN  [step   |-> s.step + 1,
         epoch  |-> IF cursor = Rows THEN s.epoch + 1 ELSE s.epoch,
         cursor |-> IF cursor = Rows THEN 0 ELSE cursor,
         rows   |-> s.rows + BatchSize(s)]

\* The batches the endpoint is made of: an epoch and where it starts.
Schedule ==
    [i \in 1..(Endpoint - PerEpoch) |->
        <<1 + (i - 1) \div PerEpoch, Batch * ((i - 1) % PerEpoch)>>]

\* What the read-out of the endpoint demands of state and receipts.
ValidDose(s) ==
    /\ ValidState(s) /\ s.step = Endpoint /\ s.rows = Rows * Epochs
    /\ (PerEpoch + 1)..Endpoint \subseteq DOMAIN receipts
    /\ \A i \in DOMAIN Schedule :
          receipts[PerEpoch + i].rows = Min({Batch, Rows - Schedule[i][2]})

-----------------------------------------------------------------------------
Idle == [pc |-> "idle", state |-> Original, lineage |-> << >>, failed |-> FALSE]

Init ==
    /\ plan = NoPlan /\ owners = {} /\ terminals = << >>
    /\ receipts = << >> /\ checkpoints = << >>
    /\ coordinator = Nobody
    /\ fits = [p \in Fits |-> Idle]

At(p, pc) == fits[p].pc = pc
Goes(p, pc) == fits' = [fits EXCEPT ![p].pc = pc]
Fails(p) == fits' = [fits EXCEPT ![p].pc = "finally", ![p].failed = TRUE]

\* An unchanged plan may be resumed; the first process writes it.
Prepare(p, own, resume) ==
    /\ At(p, "idle")
    /\ \/ plan = NoPlan /\ plan' = own /\ Goes(p, "restore")
       \/ plan # NoPlan /\ resume /\ plan = own /\ Goes(p, "restore") /\ UNCHANGED plan
       \/ plan # NoPlan /\ ~(resume /\ plan = own) /\ Goes(p, "ended") /\ UNCHANGED plan
    /\ UNCHANGED <<owners, terminals, receipts, checkpoints, coordinator>>

\* The last checkpoint, or the original fit; committed ones ask for --resume.
Restore(p, resume) ==
    /\ At(p, "restore")
    /\ LET last == IF checkpoints = << >>
                   THEN [state |-> Original, lineage |-> << >>]
                   ELSE checkpoints[Max(DOMAIN checkpoints)]
       IN  IF (checkpoints # << >> /\ ~resume) \/ last.state.step = Endpoint
           THEN Goes(p, "ended")
           ELSE fits' = [fits EXCEPT ![p].pc = "owners", ![p].state = last.state,
                                     ![p].lineage = last.lineage]
    /\ UNCHANGED <<plan, owners, terminals, receipts, checkpoints, coordinator>>

\* A process that died without its TERMINAL file blocks every later one.
CheckOwners(p) ==
    /\ At(p, "owners")
    /\ Goes(p, IF owners = DOMAIN terminals THEN "lock" ELSE "ended")
    /\ UNCHANGED <<plan, owners, terminals, receipts, checkpoints, coordinator>>

\* No time, budget, GPU or unchanged input left: nothing was written.
Refuse(p) ==
    /\ fits[p].pc \in {"idle", "restore", "owners", "lock"}
    /\ Goes(p, "ended")
    /\ UNCHANGED <<plan, owners, terminals, receipts, checkpoints, coordinator>>

\* The lock is not waited for.
Begin(p) ==
    /\ At(p, "lock")
    /\ IF coordinator = Nobody
       THEN coordinator' = p /\ owners' = owners \cup {p} /\ Goes(p, "train")
       ELSE UNCHANGED <<coordinator, owners>> /\ Goes(p, "ended")
    /\ UNCHANGED <<plan, terminals, receipts, checkpoints>>

\* One batch: the gradient of its rows, one step of Adam, the state advanced.
Update(p) ==
    LET s == fits[p].state
    IN  /\ At(p, "train") /\ s.step # Endpoint
        /\ fits' = [fits EXCEPT ![p].pc = "receipt", ![p].state = Advance(s),
                       ![p].lineage = Append(@, [by |-> p, batch |-> <<s.epoch, s.cursor>>])]
        /\ UNCHANGED <<plan, owners, terminals, receipts, checkpoints, coordinator>>

WriteReceipt(p) ==
    LET step == fits[p].state.step
        batch == Last(fits[p].lineage).batch
    IN  /\ At(p, "receipt")
        /\ IF step \in DOMAIN receipts
           THEN Fails(p) /\ UNCHANGED receipts
           ELSE /\ receipts' = [i \in DOMAIN receipts \cup {step} |->
                     IF i = step THEN [by |-> p, rows |-> Min({Batch, Rows - batch[2]})]
                     ELSE receipts[i]]
                /\ Goes(p, "commit")
        /\ UNCHANGED <<plan, owners, terminals, checkpoints, coordinator>>

\* save_checkpoint: the directory counts once its COMMIT.json is there.
SaveCheckpoint(p) ==
    LET s == fits[p].state
    IN  /\ At(p, "commit")
        /\ checkpoints' = [i \in DOMAIN checkpoints \cup {s.step} |->
               IF i = s.step THEN [state |-> s, lineage |-> fits[p].lineage]
               ELSE checkpoints[i]]
        /\ Goes(p, "train")
        /\ UNCHANGED <<plan, owners, terminals, receipts, coordinator>>

\* The guard before a batch, or an exception of the model, the optimiser or a
\* write.  What is committed stays.
Stop(p) ==
    /\ fits[p].pc \in {"train", "receipt", "commit"}
    /\ Fails(p)
    /\ UNCHANGED <<plan, owners, terminals, receipts, checkpoints, coordinator>>

\* The end of the schedule.
Finish(p) ==
    /\ At(p, "train") /\ fits[p].state.step = Endpoint
    /\ Goes(p, "finally")
    /\ UNCHANGED <<plan, owners, terminals, receipts, checkpoints, coordinator>>

\* The TERMINAL file, then the lock.
Finally(p) ==
    LET s == fits[p].state
    IN  /\ At(p, "finally")
        /\ terminals' = [q \in DOMAIN terminals \cup {p} |->
               IF q = p THEN [step |-> s.step, failed |-> fits[p].failed,
                              complete |-> s.step = Endpoint /\ ~fits[p].failed]
               ELSE terminals[q]]
        /\ coordinator' = Nobody
        /\ Goes(p, "ended")
        /\ UNCHANGED <<plan, owners, receipts, checkpoints>>

\* A kill: the system lets go of the lock.
Killed(p) ==
    /\ fits[p].pc \notin {"idle", "ended"}
    /\ coordinator' = IF coordinator = p THEN Nobody ELSE coordinator
    /\ Goes(p, "ended")
    /\ UNCHANGED <<plan, owners, terminals, receipts, checkpoints>>

Next ==
    \E p \in Fits :
        \/ \E resume \in BOOLEAN :
              Restore(p, resume) \/ \E own \in Plans : Prepare(p, own, resume)
        \/ CheckOwners(p) \/ Refuse(p) \/ Begin(p)
        \/ Update(p) \/ WriteReceipt(p) \/ SaveCheckpoint(p) \/ Stop(p) \/ Finish(p)
        \/ Finally(p) \/ Killed(p)

Spec == Init /\ [][Next]_vars

-----------------------------------------------------------------------------
(* Properties *)

Batches(lineage) == [i \in DOMAIN lineage |-> lineage[i].batch]

\* However many processes were started, and whichever of them read the files
\* before another one wrote them, the checkpoints are those of one training: each
\* extends the one before by the next batch of the schedule, and the receipt of
\* its step is by the process that took that step.
OneContinuation ==
    \A s \in DOMAIN checkpoints :
        LET lineage == checkpoints[s].lineage
        IN  /\ ValidState(checkpoints[s].state) /\ checkpoints[s].state.step = s
            /\ Batches(lineage) = SubSeq(Schedule, 1, s - PerEpoch)
            /\ receipts[s].by = Last(lineage).by
            /\ s > PerEpoch + 1 =>
                  s - 1 \in DOMAIN checkpoints /\ checkpoints[s - 1].lineage = Front(lineage)

\* A fit that one TERMINAL file calls complete has its endpoint, and every receipt
\* that the read-out adds up.
CompleteIsWhole ==
    (\E p \in DOMAIN terminals : terminals[p].complete) =>
        Endpoint \in DOMAIN checkpoints /\ ValidDose(checkpoints[Endpoint].state)
=============================================================================
