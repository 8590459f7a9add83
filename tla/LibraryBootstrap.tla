---------------------------- MODULE LibraryBootstrap ----------------------------
(***************************************************************************)
(* The search for a routine library (bootstrap_library.py): rounds of      *)
(* candidate modules from a proposer, each verified on the teaching tasks  *)
(* by a worker process that can hang, every verified one a line of         *)
(* candidates.jsonl, and a search that can be killed and started again.    *)
(*                                                                         *)
(* A candidate module is abstracted to how it behaves: whether it loads,   *)
(* its length, and its output on every task, where task t's right answer   *)
(* is t and 0 is no output.  A line holds the candidate's behaviour beside *)
(* the outputs it was scored on, so the two can be compared.               *)
(***************************************************************************)
EXTENDS Integers, Sequences, FiniteSets, SequencesExt

CONSTANTS
    Tasks,       \* the teaching tasks, 1..n
    Shown,       \* those whose answers are worked examples in the prompt
    Kinds,       \* behaviours a proposed module can have
    Candidates,  \* candidates per round
    Rounds,      \* 1 + repair rounds
    MaxStarts,   \* bound: times the search is started
    Orphans      \* TRUE: a kill of the search may leave its worker running

VARIABLES shownOnly, threshold,   \* the command line, the same at every start
          pc, starts,
          file,                   \* candidates.jsonl; Torn is a half-written line
          done, best, rnd, k,     \* main's locals
          revealed,               \* tasks whose answer the current prompt gives
          worker, orphans,        \* the running worker; those a kill left behind
          out,                    \* the output file of every slot's tag
          rec,                    \* the record being written
          summary, accepted       \* summary.json and accepted.py

search == <<done, best, rnd, k, revealed>>
disk == <<file, out, summary, accepted>>
vars == <<shownOnly, threshold, pc, starts, search, worker, orphans, rec, disk>>

None == [none |-> TRUE]
Torn == [torn |-> TRUE]
Slots == (0..Rounds - 1) \X (0..Candidates - 1)
NoOutput == [t \in Tasks |-> 0]
\* a proposer call that raises gives the empty module, which has no entry function
Silent == [loads |-> FALSE, size |-> 0, outs |-> NoOutput]

-----------------------------------------------------------------------------
(* Scores and ranks. *)

Right(r) == {t \in Tasks : r.outs[t] = t}
Answered(r) == {t \in Tasks : r.outs[t] # 0}
Mean(r) == Cardinality(Right(r))
ShownFit(r) == Cardinality(Right(r) \cap Shown)
Clean(r) == Cardinality(Answered(r))
Varied(r) == Cardinality({r.outs[t] : t \in Answered(r)}) > 1
Bit(b) == IF b THEN 1 ELSE 0

Lexically(a, b) ==  \* a > b, tuples of one length
    \E i \in DOMAIN a : a[i] > b[i] /\ \A j \in 1..i - 1 : a[j] = b[j]

RankTeaching(r) == <<Mean(r), Bit(~r.loadError), -r.kind.size>>
RankShown(r) ==
    <<ShownFit(r), Clean(r), Bit(Varied(r)), Bit(~r.loadError), -r.kind.size>>
Rank(r) == IF shownOnly THEN RankShown(r) ELSE RankTeaching(r)

AcceptedShown(r) ==
    ShownFit(r) = Cardinality(Shown) /\ Clean(r) = Cardinality(Tasks) /\ Varied(r)
\* The seeded mistake asks the threshold of a search by shown labels too.
AcceptableFault(r) == Mean(r) >= threshold
Acceptable(r) == IF shownOnly THEN AcceptedShown(r) ELSE Mean(r) >= threshold
DoneOK(r) ==
    IF shownOnly THEN AcceptedShown(r)
    ELSE Mean(r) = Cardinality(Tasks) /\ threshold <= Cardinality(Tasks)
Finished == best # None /\ DoneOK(best)

\* The seeded mistake lets a later equal replace the best.
BetterFault(r, b) == IF b = None \/ ~Lexically(Rank(b), Rank(r)) THEN r ELSE b
Better(r, b) == IF b = None \/ Lexically(Rank(r), Rank(b)) THEN r ELSE b

\* The seeded mistake gives the worst cases whatever the protocol.
FeedbackFault(b) == Tasks \ Right(b)
\* the answers the repair prompt adds to those of the worked examples (three
\* of the worst cases there, which are all of them for so few tasks)
Feedback(b) == (Tasks \ Right(b)) \cap (IF shownOnly THEN Shown ELSE Tasks)

-----------------------------------------------------------------------------
Init ==
    /\ shownOnly \in BOOLEAN /\ threshold \in 1..Cardinality(Tasks) + 1
    /\ shownOnly => threshold = 1  \* bound: not read under shown labels
    /\ pc = "off" /\ starts = 0
    /\ file = <<>> /\ done = {} /\ best = None /\ rnd = 0 /\ k = 0
    /\ revealed = Shown
    /\ worker = None /\ orphans = {} /\ rec = None
    /\ out = [s \in Slots |-> None]
    /\ summary = None /\ accepted = None

\* The seeded mistake starts with no verified candidate.
ResumeFault == done' = {} /\ best' = FoldLeft(LAMBDA b, r : Better(r, b), None, file)
\* the verified candidates of the file; a half-written line does not parse
Resume ==
    /\ done' = {r.slot : r \in ToSet(file)}
    /\ best' = FoldLeft(LAMBDA b, r : Better(r, b), None, file)
Start ==
    /\ pc = "off" /\ starts < MaxStarts /\ starts' = starts + 1
    /\ IF Torn \in ToSet(file)
       THEN UNCHANGED <<pc, search>>
       ELSE /\ Resume
            /\ rnd' = 0 /\ k' = 0 /\ revealed' = Shown
            /\ pc' = "loop"
    /\ UNCHANGED <<shownOnly, threshold, worker, orphans, rec, disk>>

Skip ==
    /\ pc = "loop" /\ k < Candidates /\ <<rnd, k>> \in done
    /\ k' = k + 1
    /\ UNCHANGED <<shownOnly, threshold, pc, starts, done, best, rnd, revealed,
                   worker, orphans, rec, disk>>

\* a candidate is drawn and its worker started on a removed output
\* The seeded mistake leaves the output of an earlier run.
RemoveOutputFault == out' = out
RemoveOutput == out' = [out EXCEPT ![<<rnd, k>>] = None]
Draw ==
    /\ pc = "loop" /\ k < Candidates /\ <<rnd, k>> \notin done
    /\ \E kind \in Kinds \cup {Silent} :
          worker' = [slot |-> <<rnd, k>>, kind |-> kind, results |-> NoOutput,
                     next |-> 1, writing |-> FALSE]
    /\ RemoveOutput
    /\ pc' = "verify"
    /\ UNCHANGED <<shownOnly, threshold, starts, search, orphans, rec, file,
                   summary, accepted>>

\* The seeded mistake runs one round too many.
NoRoundLeftFault == rnd = Rounds
NoRoundLeft == rnd + 1 = Rounds
EndRound ==
    /\ pc = "loop" /\ k = Candidates
    /\ LET stop == \/ Finished \/ NoRoundLeft
                   \/ best = None \/ Acceptable(best)
       IN  IF stop THEN pc' = "summary" /\ UNCHANGED search
           ELSE /\ rnd' = rnd + 1 /\ k' = 0
                /\ revealed' = Shown \cup Feedback(best)
                /\ UNCHANGED <<pc, done, best>>
    /\ UNCHANGED <<shownOnly, threshold, starts, worker, orphans, rec, disk>>

-----------------------------------------------------------------------------
(* The worker: one result per task, the whole output rewritten after each.  *)
(* The write opens the file first, which empties it.                        *)

More(w) == ~w.writing /\ w.next <= Cardinality(Tasks)
Running(w) ==  \* runs the next task (or fails to load) and opens the output
    IF w.kind.loads
    THEN [w EXCEPT !.results[w.next] = w.kind.outs[w.next],
                   !.next = @ + 1, !.writing = TRUE]
    ELSE [w EXCEPT !.next = Cardinality(Tasks) + 1, !.writing = TRUE]
Output(w) == [loadError |-> ~w.kind.loads, outs |-> w.results]

WorkerRuns ==
    /\ pc = "verify" /\ More(worker)
    /\ worker' = Running(worker)
    /\ out' = [out EXCEPT ![worker.slot] = Torn]
    /\ UNCHANGED <<shownOnly, threshold, pc, starts, search, orphans, rec, file,
                   summary, accepted>>

WorkerDumps ==
    /\ pc = "verify" /\ worker.writing
    /\ out' = [out EXCEPT ![worker.slot] = Output(worker)]
    /\ worker' = [worker EXCEPT !.writing = FALSE]
    /\ UNCHANGED <<shownOnly, threshold, pc, starts, search, orphans, rec, file,
                   summary, accepted>>

OrphanRuns ==
    \E w \in orphans :
       /\ \/ More(w) /\ orphans' = (orphans \ {w}) \cup {Running(w)}
             /\ out' = [out EXCEPT ![w.slot] = Torn]
          \/ w.writing /\ orphans' = (orphans \ {w}) \cup {[w EXCEPT !.writing = FALSE]}
             /\ out' = [out EXCEPT ![w.slot] = Output(w)]
       /\ UNCHANGED <<shownOnly, threshold, pc, starts, search, worker, rec, file,
                      summary, accepted>>

WorkerEnds ==
    /\ pc = "verify" /\ ~worker.writing /\ ~More(worker)
    /\ pc' = "read"
    /\ UNCHANGED <<shownOnly, threshold, starts, search, worker, orphans, rec, disk>>

\* The seeded mistake waits for the worker to end.
TimeoutFault ==
    /\ pc = "verify" /\ ~worker.writing /\ ~More(worker)
    /\ pc' = "read"
    /\ UNCHANGED <<shownOnly, threshold, starts, search, worker, orphans, rec, disk>>
\* subprocess.run kills the worker at its time limit, wherever it is
Timeout ==
    /\ pc = "verify"
    /\ pc' = "read"
    /\ UNCHANGED <<shownOnly, threshold, starts, search, worker, orphans, rec, disk>>

-----------------------------------------------------------------------------
(* What the search does with an output. *)

\* an emptied output raises out of main; a missing one is a load error
Read ==
    /\ pc = "read" /\ worker' = None
    /\ LET o == out[worker.slot] IN
       IF o = Torn THEN pc' = "off" /\ UNCHANGED rec
       ELSE /\ rec' = [slot |-> worker.slot, kind |-> worker.kind,
                       loadError |-> IF o = None THEN TRUE ELSE o.loadError,
                       outs |-> IF o = None THEN NoOutput ELSE o.outs]
            /\ pc' = "log"
    /\ UNCHANGED <<shownOnly, threshold, starts, search, orphans, disk>>

Log ==
    /\ pc = "log"
    /\ file' = Append(file, rec)
    /\ pc' = "judge"
    /\ UNCHANGED <<shownOnly, threshold, starts, search, worker, orphans, rec, out,
                   summary, accepted>>

\* The seeded mistake draws on after a candidate that ends the search.
AfterJudgeFault(b) == pc' = "loop" /\ k' = k + 1
AfterJudge(b) ==
    IF DoneOK(b) THEN pc' = "summary" /\ k' = k ELSE pc' = "loop" /\ k' = k + 1
Judge ==
    /\ pc = "judge"
    /\ best' = Better(rec, best) /\ rec' = None
    /\ AfterJudge(best')
    /\ UNCHANGED <<shownOnly, threshold, starts, done, rnd, revealed, worker, orphans,
                   disk>>

Summarise ==
    /\ pc = "summary"
    /\ summary' = [best |-> best, ok |-> best # None /\ Acceptable(best)]
    /\ pc' = "accept"
    /\ UNCHANGED <<shownOnly, threshold, starts, search, worker, orphans, rec, file,
                   out, accepted>>

\* The seeded mistake keeps a library accepted before.
InstallFault == IF summary.ok /\ accepted = None THEN accepted' = best.kind
                ELSE UNCHANGED accepted
Install == IF summary.ok THEN accepted' = best.kind ELSE UNCHANGED accepted
Accept ==
    /\ pc = "accept" /\ Install
    /\ pc' = "done"
    /\ UNCHANGED <<shownOnly, threshold, starts, search, worker, orphans, rec, file,
                   out, summary>>

\* main has returned; the command may be given again
Again ==
    /\ pc = "done" /\ starts < MaxStarts
    /\ pc' = "off"
    /\ UNCHANGED <<shownOnly, threshold, starts, search, worker, orphans, rec, disk>>

\* the search is killed; a line being written may be half of it
Kill ==
    /\ pc \notin {"off", "done"}
    /\ pc' = "off" /\ rec' = None /\ worker' = None
    /\ \/ UNCHANGED file
       \/ pc = "log" /\ file' = Append(file, Torn)
    /\ orphans' = orphans \cup (IF Orphans /\ pc = "verify" THEN {worker} ELSE {})
    /\ UNCHANGED <<shownOnly, threshold, starts, search, out, summary, accepted>>

Step == Skip \/ Draw \/ EndRound \/ Timeout \/ WorkerEnds \/ Read \/ Log \/ Judge
        \/ Summarise \/ Accept
Next == Start \/ Step \/ WorkerRuns \/ WorkerDumps \/ OrphanRuns \/ Again \/ Kill

Spec == Init /\ [][Next]_vars
\* The search's own code runs on and its time limit fires; the module under test
\* may hang at any task, so nothing is assumed of the worker.
FairSpec == Spec /\ WF_vars(Step)

-----------------------------------------------------------------------------
(* Properties. *)

\* Every variable keeps its shape.
TypeOK ==
    /\ pc \in {"off", "loop", "verify", "read", "log", "judge", "summary", "accept", "done"}
    /\ starts \in 0..MaxStarts /\ rnd \in 0..Rounds - 1 /\ k \in 0..Candidates
    /\ done \subseteq Slots /\ revealed \subseteq Tasks
    /\ worker # None <=> pc \in {"verify", "read"}
    /\ rec # None <=> pc \in {"log", "judge"}
    /\ Torn \in ToSet(file) => \A i \in DOMAIN file : file[i] = Torn <=> i = Len(file)

\* "Never read a stale output from an earlier run with the same tag" (verify): a
\* line's outputs are what its own module gives, or nothing where a time limit
\* came first.
RecordOfItsCode ==
    \A r \in ToSet(file) \ {Torn} :
       /\ \A t \in Tasks : r.outs[t] \in {0, r.kind.outs[t]}
       /\ r.loadError => r.outs = NoOutput

\* Restarts draw no candidate twice: the lines are the slots in the order of the
\* loops, each at most once.
SlotsInOrder ==
    \A i, j \in DOMAIN file : 
       i < j /\ Torn \notin {file[i], file[j]} => Lexically(file[j].slot, file[i].slot)

\* Whatever restarts came between, the candidate reported is the first of the
\* file's best ones: the search across kills judges as one that never stopped.
BestOfFile ==
    pc = "accept" =>
       \E i \in DOMAIN file :
          /\ summary.best = file[i]
          /\ \A j \in DOMAIN file :
                IF j < i THEN Lexically(Rank(file[i]), Rank(file[j]))
                ELSE ~Lexically(Rank(file[j]), Rank(file[i]))

\* accepted.py and summary.json of a finished search agree, also after a search
\* resumed over an accepted one: a module is there exactly if the summary accepts,
\* and it is the summary's.
ArtifactsAgree ==
    pc = "done" =>
       /\ summary.ok <=> accepted # None
       /\ summary.ok => accepted = summary.best.kind

\* Under --shown-labels-only neither a prompt nor the choice uses another label:
\* no answer but the worked examples' is given, and what is accepted reproduces
\* them, answers everywhere and is no constant.
OnlyShownLabels ==
    shownOnly =>
       /\ revealed = Shown
       /\ pc = "done" => (summary.ok <=> AcceptedShown(summary.best))

\* A search stops at a candidate that ends it: with one in hand it draws only as
\* its first act after a resume, whose loops look at the best after a draw alone.
StopsWhenFinished ==
    [][pc = "loop" /\ pc' = "verify" /\ Finished => {r.slot : r \in ToSet(file)} = done]_vars

\* A started search comes to its summary, or raises, or is killed: a module that
\* hangs costs its time limit and no more.
Settles == (pc = "loop") ~> (pc \in {"done", "off"})
=============================================================================
