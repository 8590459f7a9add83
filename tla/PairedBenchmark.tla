-------------------------- MODULE PairedBenchmark --------------------------
(***************************************************************************)
(* The paired RLM/direct benchmark of src/benchmarks/oolong.py: every      *)
(* comparison is asked of two targets, each answer is judged, the record   *)
(* appended, and the checkpoint replaced atomically.  The process may be   *)
(* killed between any two steps, a write may fail, the machine may lose    *)
(* power, and the user runs the command again, perhaps with another        *)
(* selection.                                                              *)
(*                                                                         *)
(* A comparison is abstracted to its pair_id, the digest of all it holds.  *)
(***************************************************************************)
EXTENDS Integers, Sequences, FiniteSetsExt

CONSTANTS
    Requests,       \* selections of pair ids a user may ask for, as sequences
    MaxCalls,       \* budget.max_model_calls
    MaxTokens,      \* budget.max_total_tokens
    Transports,     \* how calls may end, of AllTransports
    Bodies, Proofs, \* what answers may hold, of AllBodies and AllProofs
    MaxFaults       \* bound on kills, power losses, failing writes and calls

\* complete: what the transport gives.  urlopen raises for 4xx and 5xx.
AllTransports == {"answered", "odd_status", "http", "transport", "timeout", "decode"}

\* A terminal response with text or not; the attestation headers, or the usage
\* of a direct response.
AllBodies == {"answer", "invalid"}
AllProofs == {"attested", "missing", "mismatch"}

ASSUME BenchmarkAssumption ==
    /\ MaxCalls \in Nat \ {0} /\ MaxTokens \in Nat \ {0} /\ MaxFaults \in Nat
    /\ Transports \subseteq AllTransports /\ Bodies \subseteq AllBodies
    /\ Proofs \subseteq AllProofs

VARIABLES
    pc,             \* the process, "off" when there is none
    request,        \* the comparisons of this process
    results,        \* checkpoint["results"], in memory
    tmp,            \* the temporary file: "none", "written" or "synced"
    file,           \* what the output path names, as processes see it
    stable,         \* what a power loss leaves there at least
    orphans,        \* a temporary file was left behind
    paid,           \* calls per pair and condition
    faults

processVars == <<pc, request, results>>
fileVars == <<tmp, file, stable, orphans>>
vars == <<processVars, fileVars, paid, faults>>

Conditions == {"rlm", "direct"}
Pairs == UNION {Range(r) : r \in Requests}
Keys == Pairs \X Conditions

None == -1
Absent == [spec |-> <<>>, results |-> <<>>, state |-> "absent"]
Torn == [spec |-> <<>>, results |-> <<>>, state |-> "torn"]

-----------------------------------------------------------------------------
(* One call and its judgement *)

\* What the judgement looks at in an answer, and what the scorer would say.
Facts == [body : Bodies, proof : Proofs, calls : 1..(MaxCalls + 1),
          tokens : {MaxTokens, MaxTokens + 1}, score : {None, 1}]

\* The seeded mistake judges the budget first and the provenance never.
FailureFault(condition, transport, f) ==
    IF transport \in {"http", "odd_status"} THEN "http"
    ELSE IF transport \in {"transport", "timeout", "decode"} THEN transport
    ELSE IF f.body = "invalid" THEN "protocol"
    ELSE IF condition = "rlm" /\ f.calls > MaxCalls THEN "budget"
    ELSE IF f.tokens > MaxTokens THEN "budget"
    ELSE "none"

Failure(condition, transport, f) ==
    IF transport \in {"http", "odd_status"} THEN "http"
    ELSE IF transport \in {"transport", "timeout", "decode"} THEN transport
    ELSE IF f.body = "invalid" THEN "protocol"
    ELSE IF condition = "rlm" /\ f.proof # "attested" THEN "provenance"
    ELSE IF condition = "direct" /\ f.proof = "missing" THEN "protocol"
    ELSE IF condition = "rlm" /\ f.calls > MaxCalls THEN "budget"
    ELSE IF f.tokens > MaxTokens THEN "budget"
    ELSE "none"

\* The record keeps the numbers it could read and, unless the call failed,
\* what the scorer says (which may be nothing).
Record(key, transport, f) ==
    LET failure == Failure(key[2], transport, f)
        read == /\ transport = "answered" /\ f.body = "answer"
                /\ f.proof # "missing"
    IN  [key |-> key, failure |-> failure,
         proof |-> IF read THEN f.proof ELSE "missing",
         calls |-> IF transport # "answered" \/ f.body # "answer" THEN None
                   ELSE IF key[2] = "direct" THEN 1
                   ELSE IF read THEN f.calls ELSE None,
         tokens |-> IF read THEN f.tokens ELSE None,
         score |-> IF failure = "none" THEN f.score ELSE None]

Failures == {"none", "http", "transport", "timeout", "decode", "protocol", "provenance", "budget"}
Records == [key : Keys, failure : Failures, proof : AllProofs,
            calls : {None} \cup Nat, tokens : {None} \cup Nat, score : {None, 1}]

Judgements(key) ==
    {Record(key, t, f) : t \in Transports,
        f \in {g \in Facts : key[2] = "direct" => g.proof # "mismatch"}}

-----------------------------------------------------------------------------
(* The checkpoint *)

Files == [spec : Requests \cup {<<>>}, results : Seq(Records),
          state : {"absent", "torn", "whole"}]
Checkpoint == [spec |-> request, results |-> results, state |-> "whole"]

KeysOf(records) == {records[i].key : i \in DOMAIN records}

NoDuplicates(records) ==
    \A i, j \in DOMAIN records : records[i].key = records[j].key => i = j

\* _load_checkpoint and the checks of run_comparisons after it.
Resumable(checkpoint, spec) ==
    /\ checkpoint.state = "whole"
    /\ checkpoint.spec = spec
    /\ NoDuplicates(checkpoint.results)
    /\ \A r \in Range(checkpoint.results) : r.key[1] \in Range(spec)

Init ==
    /\ pc = "off" /\ request = <<>> /\ results = <<>>
    /\ tmp = "none" /\ file = Absent /\ stable = Absent /\ orphans = FALSE
    /\ paid = [k \in Keys |-> 0]
    /\ faults = 0

\* The seeded mistake begins anew over a checkpoint of another selection.
StartFault(r) ==
    /\ pc = "off"
    /\ request' = r /\ pc' = "next"
    /\ results' = IF Resumable(file, r) THEN file.results ELSE <<>>
    /\ UNCHANGED <<fileVars, paid, faults>>

Start(r) ==
    /\ pc = "off"
    /\ request' = r
    /\ IF file = Absent THEN results' = <<>> /\ pc' = "next"
       ELSE IF Resumable(file, r) THEN results' = file.results /\ pc' = "next"
       ELSE results' = <<>> /\ pc' = "refused"
    /\ UNCHANGED <<fileVars, paid, faults>>

\* The seeded mistake takes a pair with one record for completed.
MissingFault ==
    {key \in Range(request) \X Conditions : key[1] \notin {k[1] : k \in KeysOf(results)}}

Missing == (Range(request) \X Conditions) \ KeysOf(results)

\* The comparisons are taken in the order of the request, the targets of each
\* in theirs; what has a record is passed over.
IsNext(i, c) ==
    /\ <<request[i], c>> \in Missing
    /\ \A j \in 1..(i - 1), d \in Conditions : <<request[j], d>> \notin Missing
    /\ c = "direct" => <<request[i], "rlm">> \notin Missing

Pay(key) == paid' = [paid EXCEPT ![key] = @ + 1]

\* The seeded mistake stores a pair when it is complete.
CallFault ==
    \E i \in DOMAIN request, c \in Conditions :
        /\ pc = "next" /\ IsNext(i, c)
        /\ Pay(<<request[i], c>>)
        /\ \E record \in Judgements(<<request[i], c>>) : results' = Append(results, record)
        /\ pc' = IF c = "rlm" THEN "next" ELSE "write"
        /\ UNCHANGED <<request, fileVars, faults>>

Call ==
    \E i \in DOMAIN request, c \in Conditions :
        /\ pc = "next" /\ IsNext(i, c)
        /\ Pay(<<request[i], c>>)
        /\ \E record \in Judgements(<<request[i], c>>) : results' = Append(results, record)
        /\ pc' = "write"
        /\ UNCHANGED <<request, fileVars, faults>>

\* Neither complete nor run_comparisons catches an error of http.client, an
\* OSError in reading the body of an HTTP error, or one of the scorer.
CallEscapes ==
    \E i \in DOMAIN request, c \in Conditions :
        /\ pc = "next" /\ IsNext(i, c)
        /\ faults < MaxFaults
        /\ Pay(<<request[i], c>>)
        /\ pc' = "raised" /\ faults' = faults + 1
        /\ UNCHANGED <<request, results, fileVars>>

Finish ==
    /\ pc = "next" /\ Missing = {}
    /\ pc' = "done"
    /\ UNCHANGED <<request, results, fileVars, paid, faults>>

(* atomic_checkpoint *)
Write ==
    /\ pc = "write"
    /\ tmp' = "written" /\ pc' = "sync"
    /\ UNCHANGED <<request, results, file, stable, orphans, paid, faults>>

\* The seeded mistake renames without having synced the data.
SyncFault ==
    /\ pc = "sync"
    /\ tmp' = tmp /\ pc' = "replace"
    /\ UNCHANGED <<request, results, file, stable, orphans, paid, faults>>

Sync ==
    /\ pc = "sync"
    /\ tmp' = "synced" /\ pc' = "replace"
    /\ UNCHANGED <<request, results, file, stable, orphans, paid, faults>>

\* A name whose data never reached the disk is torn by a power loss.
Replace ==
    /\ pc = "replace"
    /\ file' = Checkpoint
    /\ stable' = IF tmp = "synced" THEN stable ELSE Torn
    /\ tmp' = "none" /\ pc' = "syncdir"
    /\ UNCHANGED <<request, results, orphans, paid, faults>>

\* The seeded mistake saves the last record once more.
SyncDirectoryFault ==
    /\ pc = "syncdir"
    /\ stable' = IF stable = Torn THEN Torn ELSE file
    /\ pc' = IF Missing = {} THEN "write" ELSE "next"
    /\ UNCHANGED <<request, results, tmp, file, orphans, paid, faults>>

SyncDirectory ==
    /\ pc = "syncdir"
    /\ stable' = IF stable = Torn THEN Torn ELSE file
    /\ pc' = "next"
    /\ UNCHANGED <<request, results, tmp, file, orphans, paid, faults>>

\* An error, or an interrupt, removes the temporary file and is raised again.
CheckpointFails ==
    /\ pc \in {"write", "sync", "replace", "syncdir"} /\ faults < MaxFaults
    /\ tmp' = "none" /\ pc' = "raised" /\ faults' = faults + 1
    /\ UNCHANGED <<request, results, file, stable, orphans, paid>>

(* The environment *)
Exit ==
    /\ pc \in {"done", "raised", "refused"}
    /\ pc' = "off" /\ results' = <<>> /\ request' = <<>>
    /\ UNCHANGED <<fileVars, paid, faults>>

Dies ==
    /\ pc' = "off" /\ results' = <<>> /\ request' = <<>>
    /\ orphans' = (orphans \/ tmp # "none") /\ tmp' = "none"
    /\ faults < MaxFaults /\ faults' = faults + 1
    /\ UNCHANGED paid

Kill == pc # "off" /\ Dies /\ UNCHANGED <<file, stable>>

PowerLoss ==
    /\ Dies
    /\ \E left \in {stable, file} : file' = left /\ stable' = left

Next ==
    \/ \E r \in Requests : Start(r)
    \/ Call \/ CallEscapes \/ Finish
    \/ Write \/ Sync \/ Replace \/ SyncDirectory \/ CheckpointFails
    \/ Exit \/ Kill \/ PowerLoss

\* The socket has a timeout and file operations return; nobody promises to
\* run the command again.
Running == Call \/ CallEscapes \/ Finish \/ Write \/ Sync \/ Replace \/ SyncDirectory

Spec == Init /\ [][Next]_vars /\ WF_vars(Running)

-----------------------------------------------------------------------------
(* summarize *)

Scored(records) == {i \in DOMAIN records : records[i].score # None}
Failed(records) == {i \in DOMAIN records : records[i].failure # "none"}

\* The conditions of a pair among the records at indices I.
ConditionsIn(records, I, p) ==
    {c \in Conditions : \E i \in I : records[i].key = <<p, c>>}

Summary(records) ==
    LET pairs == {k[1] : k \in KeysOf(records)}
        whole == {p \in pairs : ConditionsIn(records, DOMAIN records, p) = Conditions}
        failing == {p \in whole : ConditionsIn(records, Failed(records), p) # {}}
        valid == {p \in whole \ failing :
                    ConditionsIn(records, Scored(records), p) = Conditions}
    IN  [examples |-> Len(records), scored |-> Cardinality(Scored(records)),
         failures |-> Cardinality(Failed(records)), total |-> Cardinality(pairs),
         valid |-> Cardinality(valid), failing |-> Cardinality(failing),
         unpaired |-> Cardinality(pairs \ (failing \cup valid))]

-----------------------------------------------------------------------------
(* Properties *)

TypeOK ==
    /\ pc \in {"off", "next", "write", "sync", "replace", "syncdir",
               "done", "raised", "refused"}
    /\ request \in Requests \cup {<<>>}
    /\ results \in Seq(Records)
    /\ tmp \in {"none", "written", "synced"}
    /\ {file, stable} \subseteq Files
    /\ orphans \in BOOLEAN
    /\ paid \in [Keys -> Nat]
    /\ faults \in 0..MaxFaults

\* atomic_checkpoint: whatever a kill or a power loss leaves at the output
\* path is nothing or a whole checkpoint that names each of its own pairs and
\* conditions once.
AlwaysResumable ==
    \A c \in {file, stable} :
        \/ c = Absent
        \/ /\ c.state = "whole" /\ NoDuplicates(c.results)
           /\ \A r \in Range(c.results) : r.key[1] \in Range(c.spec)

\* run_comparisons: a fault costs at most one call, the one whose record was
\* not yet in place; everything else that was paid for is in the file.
OneCallPerFault ==
    MapThenSumSet(LAMBDA k : paid[k], Keys) - Cardinality(KeysOf(file.results))
        <= faults + 1

\* _record: a record with a score had the declared provenance and kept the
\* budget, whatever else was wrong with the call.
ScoredIsAttested ==
    \A r \in Range(results) :
        r.score # None =>
            r.failure = "none" /\ r.proof = "attested"
            /\ r.calls <= MaxCalls /\ r.tokens <= MaxTokens

\* summarize after however many resumptions: every requested pair is counted
\* in both conditions, once, and is unpaired only if the scorer abstained.
SummaryFair ==
    pc = "done" =>
        LET s == Summary(results) IN
        /\ s.total = Cardinality(Range(request))
        /\ s.examples = 2 * s.total
        /\ s.valid + s.failing + s.unpaired = s.total
        /\ 2 * s.unpaired <= s.examples - s.failures /\ 2 * s.valid <= s.scored

\* Records survive every crash and stored work is not paid for again, nor
\* when the selection or a target changed: the abstract promise.
Durable == INSTANCE DurableWork WITH stored <- KeysOf(stable.results)
WorkSpec == Durable!Spec

\* A process that is left alone ends.
RunEnds == pc = "next" ~> pc \in {"off", "done", "raised"}

=============================================================================
