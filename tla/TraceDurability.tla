--------------------------- MODULE TraceDurability ---------------------------
(***************************************************************************)
(* How RLM.run and RLM.run_direct end against a trace that is written to   *)
(* real files: TraceRecorder of src/src/rlm/trace.py with its buffer, the  *)
(* system's page cache and the disk.  A write, a flush or an fsync may     *)
(* fail, a KeyboardInterrupt may arrive between any two steps of the main  *)
(* thread, the process may be killed and the machine may lose power.       *)
(*                                                                         *)
(* TraceLog relates events to one another; here an event is its number and *)
(* whether it is the first, an ordinary or a final one.                    *)
(***************************************************************************)
EXTENDS Integers, SequencesExt, FiniteSetsExt

CONSTANTS
    MaxEvents,      \* bound on the ordinary events of a run
    MaxFaults,      \* bound on failing file operations
    MaxInterrupts   \* bound on KeyboardInterrupts

ASSUME TraceDurabilityAssumption ==
    {MaxEvents, MaxFaults, MaxInterrupts} \subseteq Nat

VARIABLES
    pc,             \* where the main thread is in run
    event,          \* NoEvent, or how far it is: "written", "flushed"
    error,          \* the local variable error of run: the exception, or "none"
    raised,         \* the exception on its way out, or "none"
    doomed,         \* history: an exception left the body
    nextId,         \* _next_id
    known,          \* _event_ids
    buffer,         \* lines of the file object's buffer
    file,           \* lines of trace.jsonl as processes see them
    stable,         \* how many of them a power loss leaves at least
    manifest,       \* manifest.json as processes see it, or "none"
    entry,          \* its directory entry is on disk
    faults, interrupts

vars == <<pc, event, error, raised, doomed, nextId, known, buffer, file, stable,
          manifest, entry, faults, interrupts>>

NoEvent == "none"
Final == {"run.completed", "run.failed"}
Line(type) == [id |-> nextId, type |-> type, cut |-> FALSE]

Init ==
    /\ pc = "start" /\ event = NoEvent
    /\ error = "none" /\ raised = "none" /\ doomed = FALSE
    /\ nextId = 0 /\ known = {}
    /\ buffer = <<>> /\ file = <<>> /\ stable = 0
    /\ manifest = "none" /\ entry = FALSE
    /\ faults = 0 /\ interrupts = 0

recorder == <<nextId, known, buffer, file, stable, manifest, entry>>

-----------------------------------------------------------------------------
(* The control of run.  An exception of the first event leaves at once; one *)
(* of the body is recorded; in either case close is called on the way out.  *)

\* Where an exception goes from here.
Handler ==
    CASE pc = "start" -> "gone"
      [] pc \in {"body", "complete", "return"} -> "failed"
      [] pc = "failed" -> "close"
      [] OTHER -> "gone"

\* The seeded mistake keeps the error of the handler's trace.event.
RaiseFault(e) ==
    /\ pc' = Handler /\ event' = NoEvent
    /\ raised' = e /\ doomed' = (doomed \/ Handler = "failed")
    /\ error' = IF Handler = "close" THEN "none" ELSE e

\* except BaseException as exc: error = exc.  What the handler itself raises
\* replaces the exception on its way out, not the variable.
Raise(e) ==
    /\ pc' = Handler /\ event' = NoEvent
    /\ raised' = e /\ doomed' = (doomed \/ Handler = "failed")
    /\ error' = IF Handler = "failed" THEN e ELSE error

Stages == {"start", "body", "complete", "return", "failed", "close", "flush",
           "fsync", "replace", "directory", "gone"}

Interruptible == {"start", "body", "complete", "return", "failed", "close",
                  "flush", "fsync", "replace", "directory"}

Interrupt ==
    /\ pc \in Interruptible /\ interrupts < MaxInterrupts
    /\ interrupts' = interrupts + 1
    /\ Raise("interrupt")
    /\ UNCHANGED <<recorder, faults>>

\* A model, limit or protocol failure of the body.
BodyFails ==
    /\ pc = "body" /\ event = NoEvent
    /\ Raise("failure")
    /\ UNCHANGED <<recorder, faults, interrupts>>

BodyEnds ==
    /\ pc = "body" /\ event = NoEvent
    /\ pc' = "complete"
    /\ UNCHANGED <<event, error, raised, doomed, recorder, faults, interrupts>>

\* RunResult is built; the value is on its way through the finally clause.
Return ==
    /\ pc = "return"
    /\ pc' = "close"
    /\ UNCHANGED <<event, error, raised, doomed, recorder, faults, interrupts>>

-----------------------------------------------------------------------------
(* TraceRecorder.event, called with run.started, by the body, with          *)
(* run.completed and by the handler.                                        *)

TypeHere ==
    CASE pc = "start" -> "run.started" [] pc = "body" -> "other"
      [] pc = "complete" -> "run.completed" [] pc = "failed" -> "run.failed"

Write ==
    /\ pc \in {"start", "body", "complete", "failed"} /\ event = NoEvent
    /\ pc = "body" => nextId <= MaxEvents
    /\ event' = "written"
    /\ buffer' = Append(buffer, Line(TypeHere))
    /\ UNCHANGED <<pc, error, raised, doomed, nextId, known, file, stable, manifest,
                   entry, faults, interrupts>>

Flush ==
    /\ event = "written"
    /\ event' = "flushed"
    /\ file' = file \o buffer /\ buffer' = <<>>
    /\ UNCHANGED <<pc, error, raised, doomed, nextId, known, stable, manifest, entry,
                   faults, interrupts>>

\* Some lines may be out, one in part; the others stay in the buffer, for a
\* later flush, or are dropped with the part.
FlushPartly ==
    \E n \in 0..Len(buffer) :
        \/ /\ file' = file \o SubSeq(buffer, 1, n)
           /\ buffer' = SubSeq(buffer, n + 1, Len(buffer))
        \/ /\ n < Len(buffer)
           /\ \/ file' = file \o SubSeq(buffer, 1, n)
              \/ file' = file \o SubSeq(buffer, 1, n) \o <<[buffer[n + 1] EXCEPT !.cut = TRUE]>>
           /\ buffer' = <<>>

FlushFails ==
    /\ event = "written" /\ faults < MaxFaults
    /\ faults' = faults + 1
    /\ FlushPartly
    /\ Raise("trace")
    /\ UNCHANGED <<nextId, known, stable, manifest, entry, interrupts>>

\* The event has its number only now.
\* The seeded mistake forgets the event to be a parent.
CountFault ==
    /\ event = "flushed"
    /\ nextId' = nextId + 1 /\ known' = known
    /\ event' = NoEvent
    /\ pc' = CASE pc = "start" -> "body" [] pc = "body" -> "body"
               [] pc = "complete" -> "return" [] pc = "failed" -> "close"
    /\ UNCHANGED <<error, raised, doomed, buffer, file, stable, manifest, entry, faults,
                   interrupts>>

Count ==
    /\ event = "flushed"
    /\ nextId' = nextId + 1 /\ known' = known \cup {nextId}
    /\ event' = NoEvent
    /\ pc' = CASE pc = "start" -> "body" [] pc = "body" -> "body"
               [] pc = "complete" -> "return" [] pc = "failed" -> "close"
    /\ UNCHANGED <<error, raised, doomed, buffer, file, stable, manifest, entry, faults,
                   interrupts>>

-----------------------------------------------------------------------------
(* TraceRecorder.close                                                      *)

\* The seeded mistake closes the trace of a run that returns only.
CloseBeginsFault ==
    /\ pc = "close" /\ raised = "none"
    /\ pc' = "flush"
    /\ UNCHANGED <<event, error, raised, doomed, recorder, faults, interrupts>>

\* _closed is set and the manifest is made, from run's variable error.
CloseBegins ==
    /\ pc = "close"
    /\ pc' = "flush"
    /\ UNCHANGED <<event, error, raised, doomed, recorder, faults, interrupts>>

CloseFlush ==
    /\ pc = "flush"
    /\ file' = file \o buffer /\ buffer' = <<>>
    /\ pc' = "fsync"
    /\ UNCHANGED <<event, error, raised, doomed, nextId, known, stable, manifest, entry,
                   faults, interrupts>>

\* The seeded mistake goes on to the manifest without it.
CloseFsyncFault ==
    /\ pc = "fsync"
    /\ pc' = "replace"
    /\ UNCHANGED <<event, error, raised, doomed, recorder, faults, interrupts>>

CloseFsync ==
    /\ pc = "fsync"
    /\ stable' = Len(file)
    /\ pc' = "replace"
    /\ UNCHANGED <<event, error, raised, doomed, nextId, known, buffer, file, manifest,
                   entry, faults, interrupts>>

\* write_json: the temporary file is written and synced, then renamed.
Replace ==
    /\ pc = "replace"
    /\ manifest' = IF error = "none" THEN "completed" ELSE "failed"
    /\ pc' = "directory"
    /\ UNCHANGED <<event, error, raised, doomed, nextId, known, buffer, file, stable,
                   entry, faults, interrupts>>

SyncDirectory ==
    /\ pc = "directory"
    /\ entry' = TRUE
    /\ pc' = "gone"
    /\ UNCHANGED <<event, error, raised, doomed, nextId, known, buffer, file, stable,
                   manifest, faults, interrupts>>

\* Every failure of close becomes a TraceError that the run's own one causes.
CloseFails ==
    /\ pc \in {"flush", "fsync", "replace", "directory"} /\ faults < MaxFaults
    /\ faults' = faults + 1
    /\ IF pc = "flush" THEN FlushPartly ELSE UNCHANGED <<file, buffer>>
    /\ Raise("trace")
    /\ UNCHANGED <<nextId, known, stable, manifest, entry, interrupts>>

\* A file that close did not reach is flushed when it is collected.
Collect ==
    /\ pc = "gone" /\ raised # "killed" /\ buffer # <<>>
    /\ file' = file \o buffer /\ buffer' = <<>>
    /\ UNCHANGED <<pc, event, error, raised, doomed, nextId, known, stable, manifest,
                   entry, faults, interrupts>>

-----------------------------------------------------------------------------
(* The environment                                                          *)

Kill ==
    /\ pc # "gone"
    /\ pc' = "gone" /\ event' = NoEvent /\ raised' = "killed"
    /\ buffer' = <<>>
    /\ UNCHANGED <<error, doomed, nextId, known, file, stable, manifest, entry, faults,
                   interrupts>>

\* Lines that were never synced may be gone, and so may the manifest's entry.
PowerLoss ==
    /\ raised # "power"
    /\ \E n \in stable..Len(file) : file' = SubSeq(file, 1, n)
    /\ manifest' \in IF entry THEN {manifest} ELSE {manifest, "none"}
    /\ pc' = "gone" /\ event' = NoEvent /\ buffer' = <<>>
    /\ raised' = IF pc = "gone" THEN raised ELSE "power"
    /\ UNCHANGED <<error, doomed, nextId, known, stable, entry, faults, interrupts>>

Recording ==
    \/ Write \/ Flush \/ FlushFails \/ Count
    \/ CloseBegins \/ CloseFlush \/ CloseFsync \/ Replace \/ SyncDirectory
    \/ CloseFails \/ Collect

Control == BodyFails \/ BodyEnds \/ Return \/ Interrupt

Done == pc = "gone" /\ buffer = <<>> /\ UNCHANGED vars

Next == Recording \/ Control \/ Kill \/ PowerLoss \/ Done

Spec == Init /\ [][Next]_vars

\* The main thread runs on: an operation that fails fails in the end, the body
\* ends by its limits.  Interrupts, kills and power losses need not come.
FairSpec == Spec /\ WF_vars(Recording \/ BodyFails \/ BodyEnds \/ Return)

-----------------------------------------------------------------------------
(* The reader: what load_trace accepts of all this                          *)

\* The seeded mistake does not compare the ids with the positions.
AcceptedFault ==
    /\ manifest # "none"
    /\ file # <<>>
    /\ \A i \in DOMAIN file :
          /\ ~file[i].cut
          /\ file[i].type = "run.started" <=> i = 1
          /\ file[i].type \in Final <=> i = Len(file)
    /\ manifest = "completed" <=> Last(file).type = "run.completed"

Accepted ==
    /\ manifest # "none"
    /\ file # <<>>
    /\ \A i \in DOMAIN file :
          /\ ~file[i].cut
          /\ file[i].id = i - 1
          /\ file[i].type = "run.started" <=> i = 1
          /\ file[i].type \in Final <=> i = Len(file)
    /\ manifest = "completed" <=> Last(file).type = "run.completed"

-----------------------------------------------------------------------------
(* Properties                                                               *)

TypeOK ==
    /\ pc \in Stages
    /\ event = NoEvent \/ pc \in {"start", "body", "complete", "failed"}
    /\ error \in {"none", "failure", "trace", "interrupt"}
    /\ raised \in {"none", "failure", "trace", "interrupt", "killed", "power"}
    /\ stable <= Len(file)
    /\ known = 0..(nextId - 1)

\* The caller has a result only with a trace that load_trace accepts, and that
\* tells of a completed run, on this machine and after a power loss (the run's
\* directory itself being there).
ResultHasTrace ==
    pc = "gone" /\ raised = "none" => Accepted /\ manifest = "completed"

\* An accepted trace is whole: it holds every event whose id was ever given out
\* to be a parent, once, although numbers are used again after a failure.
AcceptedIsWhole ==
    Accepted =>
        \A id \in known : Cardinality({i \in DOMAIN file : file[i].id = id}) = 1

\* A run that an exception has left never passes for a completed one, whatever
\* else fails afterwards: its trace is rejected, or ends in run.failed.
FailureNeverPasses ==
    doomed /\ Accepted => manifest = "failed" /\ Last(file).type = "run.failed"

\* What the caller was told and what the files tell are the same.
OutcomeMatchesTrace == ResultHasTrace /\ FailureNeverPasses

\* run ends, in a result or in an exception.
RunEnds == <>(pc = "gone")

=============================================================================
