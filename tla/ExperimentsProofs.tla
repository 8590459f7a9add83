-------------------------- MODULE ExperimentsProofs --------------------------
(***************************************************************************)
(* Proofs about the programs of the experiments, as MCExperiments puts     *)
(* them side by side, for every value of their constants: any number of    *)
(* processes, starts, steps, epochs, kills and failing writes.             *)
(*                                                                         *)
(* A behaviour of ScenarioSpec follows one program while the others rest.  *)
(* So an invariant of one program that its own steps keep holds of all of  *)
(* ScenarioSpec.                                                           *)
(***************************************************************************)
EXTENDS MCExperiments, FiniteSetTheorems, SequenceTheorems, WellFoundedInduction, TLAPS

-----------------------------------------------------------------------------
(* The paired benchmark: three copies of the records exist, in memory, under  *)
(* the output path and on the disk.  Each is contained in the one before it   *)
(* while a process works, each names a pair and a condition at most once, and *)
(* whatever any of them names was paid for.                                   *)

\* A record with a score kept its provenance and its budget.
Attested(r) ==
    r.score # None => r.failure = "none" /\ r.proof = "attested"
                      /\ r.calls <= MaxCalls /\ r.tokens <= MaxTokens

\* Records that a selection may have: each key once.
SoundRecords(records, selection) ==
    /\ NoDuplicates(records)
    /\ \A i \in DOMAIN records :
          records[i].key[1] \in Range(selection) /\ Attested(records[i])

MemorySound ==
    /\ pc \in {"off", "refused"} => results = <<>>
    /\ pc # "off" => request \in Requests
    /\ SoundRecords(results, request)

\* Nothing, or a file that a process can resume from.
Sound(c) == c = Absent \/ (c.state = "whole" /\ SoundRecords(c.results, c.spec))

\* Only synced data is given the name.
FilesSound ==
    /\ pc = "replace" => tmp = "synced"
    /\ Sound(file) /\ Sound(stable)

\* Nothing that is stored is missing in memory while a process works, and a
\* power loss can only lose what memory still has.
Nested ==
    /\ pc \notin {"off", "refused"} => KeysOf(file.results) \subseteq KeysOf(results)
    /\ KeysOf(stable.results) \subseteq KeysOf(file.results)

\* A record was paid for.
PaidFor == \A kk \in KeysOf(results) \cup KeysOf(file.results) : paid[kk] > 0

BenchInv ==
    /\ TypeOK
    /\ MemorySound
    /\ FilesSound
    /\ Nested
    /\ PaidFor

-----------------------------------------------------------------------------
(* Records and their keys *)

\* No record has a key.
LEMMA EmptyRecords ==
    \A selection : SoundRecords(<<>>, selection) /\ KeysOf(<<>>) = {}
BY DEF SoundRecords, NoDuplicates, KeysOf

\* Appending a record adds its key.
LEMMA AppendedKeys ==
    ASSUME NEW records \in Seq(Records), NEW r \in Records
    PROVE  /\ Append(records, r) \in Seq(Records)
           /\ KeysOf(Append(records, r)) = KeysOf(records) \cup {r.key}
<1>1. /\ Append(records, r) \in Seq(Records)
      /\ DOMAIN Append(records, r) = 1..(Len(records) + 1)
      /\ \A i \in 1..Len(records) : Append(records, r)[i] = records[i]
      /\ Append(records, r)[Len(records) + 1] = r
    BY AppendProperties, LenProperties
<1>2. DOMAIN records = 1..Len(records) /\ Len(records) \in Nat
    BY LenProperties
<1> QED  BY <1>1, <1>2 DEF KeysOf

\* A record of a key that was missing may be added.
LEMMA AppendedSound ==
    ASSUME NEW records \in Seq(Records), NEW r \in Records, NEW selection,
           SoundRecords(records, selection), r.key \notin KeysOf(records),
           r.key[1] \in Range(selection), Attested(r)
    PROVE  SoundRecords(Append(records, r), selection)
<1>1. /\ DOMAIN Append(records, r) = 1..(Len(records) + 1)
      /\ \A i \in 1..Len(records) : Append(records, r)[i] = records[i]
      /\ Append(records, r)[Len(records) + 1] = r
    BY AppendProperties, LenProperties
<1>2. DOMAIN records = 1..Len(records) /\ Len(records) \in Nat
    BY LenProperties
<1>3. \A i \in 1..Len(records) : records[i].key # r.key
    BY <1>2 DEF KeysOf
<1>4. NoDuplicates(Append(records, r))
    BY <1>1, <1>2, <1>3 DEF NoDuplicates, SoundRecords
<1>5. ASSUME NEW i \in DOMAIN Append(records, r)
      PROVE  /\ Append(records, r)[i].key[1] \in Range(selection)
             /\ Attested(Append(records, r)[i])
    <2>1. CASE i = Len(records) + 1
        BY <1>1, <2>1
    <2>2. CASE i \in DOMAIN records
        BY <1>1, <1>2, <2>2 DEF SoundRecords
    <2> QED  BY <1>1, <1>2, <2>1, <2>2
<1> QED  BY <1>4, <1>5 DEF SoundRecords

\* _record gives a score only to a call that passed every check.
LEMMA JudgementsAttested ==
    ASSUME NEW key \in Keys, NEW r \in Judgements(key)
    PROVE  r \in Records /\ r.key = key /\ Attested(r)
<1> USE BenchmarkAssumption DEF AllTransports, AllBodies, AllProofs, None
<1>1. PICK t \in Transports, f \in Facts :
          r = Record(key, t, f) /\ (key[2] = "direct" => f.proof # "mismatch")
    BY DEF Judgements
<1>2. /\ f.body \in AllBodies /\ f.proof \in AllProofs /\ f.calls \in Nat
      /\ f.tokens \in Nat /\ f.score \in {None, 1} /\ t \in AllTransports
    <2>1. f.body \in Bodies /\ f.proof \in Proofs /\ f.calls \in 1..(MaxCalls + 1)
          /\ f.tokens \in {MaxTokens, MaxTokens + 1} /\ f.score \in {None, 1}
        BY DEF Facts
    <2>2. MaxCalls \in Nat /\ MaxTokens \in Nat
        OBVIOUS
    <2>3. f.calls \in Nat /\ f.tokens \in Nat
        BY <2>1, <2>2
    <2>4. f.body \in AllBodies /\ f.proof \in AllProofs /\ t \in AllTransports
        BY <2>1
    <2> QED  BY <2>1, <2>3, <2>4
<1>3. key[2] \in {"rlm", "direct"}
    BY DEF Keys, Conditions
<1>4. Failure(key[2], t, f) \in Failures
    BY <1>2, <1>3 DEF Failure, Failures
<1>5. r \in Records /\ r.key = key
    <2>1. /\ r.key = key /\ r.failure \in Failures
          /\ r.proof \in AllProofs /\ r.calls \in {None} \cup Nat
          /\ r.tokens \in {None} \cup Nat /\ r.score \in {None, 1}
        BY <1>1, <1>2, <1>4 DEF Record
    <2>2. r = [key |-> r.key, failure |-> r.failure, proof |-> r.proof,
               calls |-> r.calls, tokens |-> r.tokens, score |-> r.score]
        BY <1>1 DEF Record
    <2> QED  BY <2>1, <2>2 DEF Records
<1>6. Attested(r)
    BY <1>1, <1>2, <1>3 DEF Record, Attested, Failure
<1> QED  BY <1>5, <1>6

\* The keys of a log of tasks are tasks.
LEMMA KeysInKeys ==
    ASSUME NEW records \in Seq(Records) PROVE KeysOf(records) \subseteq Keys
<1>1. \A i \in DOMAIN records : records[i] \in Records
    BY LenProperties, ElementOfSeq
<1>2. \A r \in Records : r.key \in Keys
    BY DEF Records
<1> QED  BY <1>1, <1>2 DEF KeysOf

\* A model call is counted, for its condition of its task.
LEMMA PayProperties ==
    ASSUME NEW key \in Keys, paid \in [Keys -> Nat], Pay(key)
    PROVE  /\ paid' \in [Keys -> Nat]
           /\ \A kk \in Keys : paid'[kk] >= paid[kk]
           /\ paid'[key] > 0
BY DEF Pay

-----------------------------------------------------------------------------

\* The directory starts empty.
LEMMA InitEstablishes == Init => BenchInv
<1> SUFFICES ASSUME Init PROVE BenchInv
    OBVIOUS
<1>1. TypeOK
    <2>1. <<>> \in Seq(Records)
        BY EmptySeq
    <2>2. Absent \in Files
        BY <2>1 DEF Files, Absent
    <2>3. paid \in [Keys -> Nat]
        BY DEF Init
    <2>4. orphans \in BOOLEAN
        BY Zenon DEF Init
    <2>5. faults \in 0..MaxFaults
        BY BenchmarkAssumption DEF Init
    <2> QED  BY <2>1, <2>2, <2>3, <2>4, <2>5 DEF Init, TypeOK
<1>2. MemorySound /\ FilesSound /\ Nested /\ PaidFor
    BY EmptyRecords DEF Init, MemorySound, FilesSound, Sound, Nested, PaidFor, Absent
<1> QED  BY <1>1, <1>2 DEF BenchInv
\* A process begins with the records of the file, or with none.
LEMMA StartPreserves ==
    ASSUME BenchInv, NEW r \in Requests, Start(r) PROVE BenchInv'
<1> USE DEF BenchInv
<1>1. /\ pc = "off" /\ request' = r /\ UNCHANGED <<tmp, file, stable, orphans, paid, faults>>
      /\ pc' \in {"next", "refused"}
    BY DEF Start, fileVars
<1>2. CASE results' = <<>> /\ (pc' = "refused" \/ file = Absent)
    <2>1. TypeOK'
        BY <1>1, <1>2, EmptySeq DEF TypeOK, Files
    <2>2. MemorySound' /\ FilesSound'
        BY <1>1, <1>2, EmptyRecords DEF MemorySound, FilesSound, Sound
    <2>3. Nested' /\ PaidFor'
        <3>1. KeysOf(results') = {} /\ KeysOf(file.results)' = KeysOf(file.results)
              /\ KeysOf(stable.results)' = KeysOf(stable.results)
            BY <1>1, <1>2 DEF KeysOf
        <3>2. file = Absent => KeysOf(file.results) = {}
            BY EmptyRecords DEF Absent
        <3> QED  BY <1>1, <1>2, <3>1, <3>2 DEF Nested, PaidFor
    <2> QED  BY <2>1, <2>2, <2>3
<1>3. CASE results' = file.results /\ pc' = "next" /\ file # Absent /\ Resumable(file, r)
    <2>1. file \in Files /\ file.spec = r
        BY <1>3 DEF TypeOK, Resumable
    <2>2. TypeOK'
        BY <1>1, <1>3, <2>1 DEF TypeOK, Files
    <2>3. MemorySound' /\ FilesSound'
        BY <1>1, <1>3, <2>1 DEF MemorySound, FilesSound, Sound
    <2>4. Nested' /\ PaidFor'
        BY <1>1, <1>3 DEF Nested, PaidFor, KeysOf
    <2> QED  BY <2>2, <2>3, <2>4
<1> QED  BY <1>2, <1>3 DEF Start

\* A call is paid for, whether or not it gives a record.
LEMMA CallPreserves ==
    ASSUME BenchInv, Call \/ CallEscapes PROVE BenchInv'
<1> USE DEF BenchInv
<1>1. PICK i \in DOMAIN request, c \in Conditions :
          /\ pc = "next" /\ IsNext(i, c) /\ Pay(<<request[i], c>>)
          /\ UNCHANGED <<request, tmp, file, stable, orphans>>
          /\ \/ /\ \E record \in Judgements(<<request[i], c>>) :
                      results' = Append(results, record)
                /\ pc' = "write" /\ faults' = faults
             \/ /\ faults < MaxFaults /\ faults' = faults + 1
                /\ pc' = "raised" /\ results' = results
    BY DEF Call, CallEscapes, fileVars
<1> DEFINE key == <<request[i], c>>
<1>2. key \in Keys /\ key[1] \in Range(request) /\ key \notin KeysOf(results)
    <2>1. request \in Requests /\ request[i] \in Range(request)
        BY <1>1 DEF MemorySound, Range
    <2> QED  BY <1>1, <2>1 DEF IsNext, Missing, Keys, Pairs
<1>3. paid' \in [Keys -> Nat] /\ \A kk \in Keys : paid'[kk] >= paid[kk]
    BY <1>1, <1>2, PayProperties DEF TypeOK
<1>4. paid'[key] > 0
    BY <1>1, <1>2, PayProperties DEF TypeOK
<1>5. KeysOf(results) \subseteq Keys /\ KeysOf(file.results) \subseteq Keys
    BY KeysInKeys DEF TypeOK, Files
<1>6. CASE pc' = "write" /\ faults' = faults
    <2>1. PICK record \in Judgements(key) : results' = Append(results, record)
        BY <1>1, <1>6
    <2>2. record \in Records /\ record.key = key /\ Attested(record)
        BY <1>2, <2>1, JudgementsAttested
    <2>3. results' \in Seq(Records) /\ KeysOf(results') = KeysOf(results) \cup {key}
        BY <2>1, <2>2, AppendedKeys DEF TypeOK
    <2>4. SoundRecords(results', request')
        BY <1>1, <1>2, <2>1, <2>2, AppendedSound DEF TypeOK, MemorySound
    <2>5. TypeOK'
        BY <1>1, <1>3, <1>6, <2>3 DEF TypeOK
    <2>6. MemorySound' /\ FilesSound'
        BY <1>1, <1>6, <2>4 DEF MemorySound, FilesSound, Sound
    <2>7. Nested' /\ PaidFor'
        <3>1. KeysOf(file.results)' = KeysOf(file.results)
              /\ KeysOf(stable.results)' = KeysOf(stable.results)
            BY <1>1
        <3>2. Nested'
            BY <1>1, <2>3, <3>1 DEF Nested
        <3>3. PaidFor'
            <4> SUFFICES ASSUME NEW kk \in KeysOf(results) \cup KeysOf(file.results) \cup {key}
                         PROVE paid'[kk] > 0
                BY <2>3, <3>1 DEF PaidFor
            <4>1. kk # key => kk \in Keys /\ paid[kk] > 0 /\ paid'[kk] >= paid[kk]
                BY <1>3, <1>5 DEF PaidFor
            <4>2. paid \in [Keys -> Nat]
                BY DEF TypeOK
            <4> QED  BY <1>3, <1>4, <4>1, <4>2
        <3> QED  BY <3>2, <3>3
    <2> QED  BY <2>5, <2>6, <2>7
<1>7. CASE pc' = "raised" /\ results' = results /\ faults < MaxFaults /\ faults' = faults + 1
    <2>1. TypeOK'
        BY <1>1, <1>3, <1>7, BenchmarkAssumption DEF TypeOK
    <2>2. MemorySound' /\ FilesSound'
        BY <1>1, <1>7 DEF MemorySound, FilesSound, Sound
    <2>3. Nested' /\ PaidFor'
        <3>1. /\ KeysOf(file.results)' = KeysOf(file.results)
              /\ KeysOf(stable.results)' = KeysOf(stable.results)
              /\ KeysOf(results)' = KeysOf(results)
            BY <1>1, <1>7
        <3>2. Nested'
            BY <1>1, <1>7, <3>1 DEF Nested
        <3>3. PaidFor'
            <4> SUFFICES ASSUME NEW kk \in KeysOf(results) \cup KeysOf(file.results)
                         PROVE paid'[kk] > 0
                BY <3>1 DEF PaidFor
            <4>1. kk \in Keys /\ paid[kk] > 0 /\ paid'[kk] >= paid[kk]
                BY <1>3, <1>5 DEF PaidFor
            <4> QED  BY <1>3, <4>1 DEF TypeOK
        <3> QED  BY <3>2, <3>3
    <2> QED  BY <2>1, <2>2, <2>3
<1> QED  BY <1>1, <1>6, <1>7

\* Steps that leave every copy of the records as it is, and the process at work.
LEMMA SameRecordsPreserve ==
    ASSUME BenchInv, UNCHANGED <<request, results, file, stable, paid>>,
           pc \notin {"off", "refused"}, pc' \notin {"off", "refused"}, TypeOK',
           pc' = "replace" => tmp' = "synced"
    PROVE  BenchInv'
<1> USE DEF BenchInv
<1>1. /\ KeysOf(file.results)' = KeysOf(file.results)
      /\ KeysOf(stable.results)' = KeysOf(stable.results)
      /\ KeysOf(results)' = KeysOf(results)
    OBVIOUS
<1>2. MemorySound' /\ FilesSound'
    BY DEF MemorySound, FilesSound, Sound
<1>3. Nested' /\ PaidFor'
    BY <1>1 DEF Nested, PaidFor
<1> QED  BY <1>2, <1>3

\* The checkpoint of a sound memory is a sound file.
LEMMA CheckpointSound ==
    ASSUME BenchInv, pc # "off"
    PROVE  /\ Checkpoint \in Files /\ Sound(Checkpoint)
           /\ KeysOf(Checkpoint.results) = KeysOf(results)
<1>1. results \in Seq(Records) /\ request \in Requests /\ SoundRecords(results, request)
    BY DEF BenchInv, TypeOK, MemorySound
<1> QED  BY <1>1 DEF Checkpoint, Files, Sound

\* Every step of a save keeps the invariant, and so does its failure.
LEMMA SavingPreserves ==
    ASSUME BenchInv, Write \/ Sync \/ Replace \/ SyncDirectory \/ CheckpointFails \/ Finish
    PROVE  BenchInv'
<1> USE DEF BenchInv
<1>1. CASE Write
    <2>1. TypeOK'
        BY <1>1 DEF Write, TypeOK
    <2> QED  BY <1>1, <2>1, SameRecordsPreserve DEF Write
<1>2. CASE Sync
    <2>1. TypeOK'
        BY <1>2 DEF Sync, TypeOK
    <2> QED  BY <1>2, <2>1, SameRecordsPreserve DEF Sync
<1>3. CASE Replace
    <2>1. /\ Checkpoint \in Files /\ Sound(Checkpoint)
          /\ KeysOf(Checkpoint.results) = KeysOf(results)
        BY <1>3, CheckpointSound DEF Replace
    <2>2. /\ pc = "replace" /\ pc' = "syncdir" /\ tmp' = "none"
          /\ file' = Checkpoint /\ stable' = stable
          /\ UNCHANGED <<request, results, orphans, paid, faults>>
        BY <1>3 DEF Replace, FilesSound
    <2>3. TypeOK'
        BY <2>1, <2>2 DEF TypeOK
    <2>4. MemorySound' /\ FilesSound'
        BY <2>1, <2>2 DEF MemorySound, FilesSound, Sound
    <2>5. /\ KeysOf(file.results)' = KeysOf(results)
          /\ KeysOf(stable.results)' = KeysOf(stable.results)
          /\ KeysOf(results)' = KeysOf(results)
        BY <2>1, <2>2
    <2>6. Nested' /\ PaidFor'
        BY <2>2, <2>5 DEF Nested, PaidFor
    <2> QED  BY <2>3, <2>4, <2>6
<1>4. CASE SyncDirectory
    <2>1. stable.state # "torn"
        BY DEF FilesSound, Sound, Absent
    <2>2. /\ pc = "syncdir" /\ pc' = "next" /\ stable' = file
          /\ UNCHANGED <<request, results, file, tmp, orphans, paid, faults>>
        BY <1>4, <2>1 DEF SyncDirectory, Torn
    <2>3. TypeOK'
        BY <2>2 DEF TypeOK
    <2>4. MemorySound' /\ FilesSound'
        BY <2>2 DEF MemorySound, FilesSound, Sound
    <2>5. /\ KeysOf(file.results)' = KeysOf(file.results)
          /\ KeysOf(stable.results)' = KeysOf(file.results)
          /\ KeysOf(results)' = KeysOf(results)
        BY <2>2
    <2>6. Nested' /\ PaidFor'
        BY <2>2, <2>5 DEF Nested, PaidFor
    <2> QED  BY <2>3, <2>4, <2>6
<1>5. CASE CheckpointFails
    <2>1. TypeOK'
        BY <1>5, BenchmarkAssumption DEF CheckpointFails, TypeOK
    <2> QED  BY <1>5, <2>1, SameRecordsPreserve DEF CheckpointFails
<1>6. CASE Finish
    <2>1. TypeOK'
        BY <1>6 DEF Finish, TypeOK, fileVars
    <2> QED  BY <1>6, <2>1, SameRecordsPreserve DEF Finish, fileVars
<1> QED  BY <1>1, <1>2, <1>3, <1>4, <1>5, <1>6

\* The process is gone; a power loss may leave the older of the two files.
LEMMA EndPreserves ==
    ASSUME BenchInv, Exit \/ Kill \/ PowerLoss PROVE BenchInv'
<1> USE DEF BenchInv
<1>1. /\ pc' = "off" /\ results' = <<>> /\ request' = <<>> /\ paid' = paid
      /\ \/ UNCHANGED <<file, stable>>
         \/ file' = file /\ stable' = file
         \/ file' = stable /\ stable' = stable
    BY DEF Exit, Kill, PowerLoss, Dies, fileVars
<1>2. TypeOK'
    <2>1. results' \in Seq(Records)
        BY <1>1, EmptySeq
    <2>2. tmp' \in {"none", "written", "synced"}
        BY DEF Exit, Kill, PowerLoss, Dies, fileVars, TypeOK
    <2>3. orphans' \in BOOLEAN
        BY Zenon DEF Exit, Kill, PowerLoss, Dies, fileVars, TypeOK
    <2>4. faults' \in 0..MaxFaults
        BY BenchmarkAssumption DEF Exit, Kill, PowerLoss, Dies, fileVars, TypeOK
    <2>5. {file, stable}' \subseteq Files
        BY <1>1 DEF TypeOK
    <2> QED  BY <1>1, <2>1, <2>2, <2>3, <2>4, <2>5 DEF TypeOK
<1>3. MemorySound' /\ FilesSound'
    BY <1>1, EmptyRecords DEF MemorySound, FilesSound, Sound
<1>4. /\ KeysOf(file.results)' \in {KeysOf(file.results), KeysOf(stable.results)}
      /\ KeysOf(stable.results)' \subseteq KeysOf(file.results)'
      /\ KeysOf(results)' = {}
    <2>1. KeysOf(stable.results) \subseteq KeysOf(file.results)
        BY DEF Nested
    <2> QED  BY <1>1, <2>1, EmptyRecords
<1>5. Nested' /\ PaidFor'
    BY <1>1, <1>4 DEF Nested, PaidFor
<1> QED  BY <1>2, <1>3, <1>5

\* So does every step.
LEMMA StepPreserves ==
    ASSUME BenchInv, [Next]_vars PROVE BenchInv'
<1>1. CASE \E r \in Requests : Start(r)
    BY <1>1, StartPreserves
<1>2. CASE Call \/ CallEscapes
    BY <1>2, CallPreserves
<1>3. CASE Write \/ Sync \/ Replace \/ SyncDirectory \/ CheckpointFails \/ Finish
    BY <1>3, SavingPreserves
<1>4. CASE Exit \/ Kill \/ PowerLoss
    BY <1>4, EndPreserves
<1>5. CASE UNCHANGED vars
    BY <1>5, ZenonT(60)
       DEF vars, processVars, fileVars, BenchInv, TypeOK, MemorySound, FilesSound,
                Sound, Nested, PaidFor, KeysOf
<1> QED  BY <1>1, <1>2, <1>3, <1>4, <1>5 DEF Next

-----------------------------------------------------------------------------
\* oolong.py:933-994.  The invariant that the theorems below are read from.
THEOREM InvariantHolds == Spec => []BenchInv
BY InitEstablishes, StepPreserves, PTL DEF Spec

\* Memory, files and payments are of their types, whatever interrupts a process.
THEOREM TypeCorrect == Spec => []TypeOK
<1>1. BenchInv => TypeOK
    BY DEF BenchInv
<1> QED  BY <1>1, InvariantHolds, PTL

\* oolong.py:879-900.  Whatever a kill or a power loss leaves at the output path
\* is nothing, or a whole checkpoint that names each of its own pairs and
\* conditions once.
THEOREM CheckpointAlwaysResumable == Spec => []AlwaysResumable
<1>1. BenchInv => AlwaysResumable
    <2> SUFFICES ASSUME BenchInv, NEW c \in {file, stable}
                 PROVE  \/ c = Absent
                        \/ /\ c.state = "whole" /\ NoDuplicates(c.results)
                           /\ \A r \in Range(c.results) : r.key[1] \in Range(c.spec)
        BY DEF AlwaysResumable
    <2>1. Sound(c)
        BY DEF BenchInv, FilesSound
    <2> QED  BY <2>1 DEF Sound, SoundRecords, Range
<1> QED  BY <1>1, InvariantHolds, PTL

\* oolong.py:684-797.  No record in memory, resumed or new, has a score unless its
\* call was attested and kept the budget.
THEOREM ScoresAlwaysAttested == Spec => []ScoredIsAttested
<1>1. BenchInv => ScoredIsAttested
    BY DEF BenchInv, MemorySound, SoundRecords, Attested, ScoredIsAttested, Range
<1> QED  BY <1>1, InvariantHolds, PTL

-----------------------------------------------------------------------------
(* The benchmark implements DurableWork *)

\* A model call of a condition with no saved record is a call of the durable work.
LEMMA PayImplements ==
    ASSUME BenchInv, Call \/ CallEscapes PROVE Durable!Next
<1> USE DEF BenchInv
<1>1. PICK i \in DOMAIN request, c \in Conditions :
          /\ pc = "next" /\ IsNext(i, c) /\ Pay(<<request[i], c>>)
          /\ UNCHANGED <<file, stable>>
    BY DEF Call, CallEscapes, fileVars
<1> DEFINE key == <<request[i], c>>
<1>2. key \in Keys /\ key \notin KeysOf(results)
    <2>1. request \in Requests /\ request[i] \in Range(request)
        BY <1>1 DEF MemorySound, Range
    <2> QED  BY <1>1, <2>1 DEF IsNext, Missing, Keys, Pairs
<1>3. key \notin KeysOf(stable.results)
    BY <1>1, <1>2 DEF Nested
<1>4. KeysOf(stable.results)' = KeysOf(stable.results)
    BY <1>1
<1>5. Durable!Pay(key)
    BY <1>1, <1>3, <1>4 DEF Pay, Durable!Pay
<1> QED  BY <1>2, <1>5 DEF Durable!Next

\* Whatever becomes durable was paid for; nothing that was durable goes.
LEMMA StoreImplements ==
    ASSUME BenchInv, paid' = paid, stable' \in {stable, file}
    PROVE  Durable!Next \/ UNCHANGED <<KeysOf(stable.results), paid>>
<1> USE DEF BenchInv
<1> DEFINE old == KeysOf(stable.results)
           new == KeysOf(file.results)
           S == new \ old
<1>1. CASE stable' = stable
    BY <1>1
<1>2. CASE stable' = file
    <2>1. old' = new
        BY <1>2
    <2>2. old \subseteq new
        BY DEF Nested
    <2>3. new \subseteq Keys
        BY KeysInKeys DEF TypeOK, Files
    <2>4. \A kk \in S : kk \notin old /\ paid[kk] > 0
        BY DEF PaidFor
    <2>5. Durable!Store(S)
        BY <2>1, <2>2, <2>4 DEF Durable!Store
    <2> QED  BY <2>3, <2>5 DEF Durable!Next
<1> QED  BY <1>1, <1>2

\* Every step is a step of the durable work, or leaves it alone.
LEMMA StepImplements ==
    ASSUME BenchInv, [Next]_vars
    PROVE  [Durable!Next]_<<KeysOf(stable.results), paid>>
<1>1. CASE Call \/ CallEscapes
    BY <1>1, PayImplements
<1>2. CASE \/ \E r \in Requests : Start(r)
           \/ Finish \/ Write \/ Sync \/ CheckpointFails \/ Exit \/ Kill
           \/ UNCHANGED vars
    <2>1. stable' = stable /\ paid' = paid
        BY <1>2 DEF Start, Finish, Write, Sync, CheckpointFails, Exit, Kill, Dies, fileVars,
                    vars, processVars
    <2> QED  BY <2>1, StoreImplements
<1>3. CASE Replace
    <2>1. stable' = stable /\ paid' = paid
        BY <1>3 DEF Replace, BenchInv, FilesSound
    <2> QED  BY <2>1, StoreImplements
<1>4. CASE SyncDirectory
    <2>1. stable' = file /\ paid' = paid
        BY <1>4 DEF SyncDirectory, BenchInv, FilesSound, Sound, Absent, Torn
    <2> QED  BY <2>1, StoreImplements
<1>5. CASE PowerLoss
    <2>1. stable' \in {stable, file} /\ paid' = paid
        BY <1>5 DEF PowerLoss, Dies
    <2> QED  BY <2>1, StoreImplements
<1> QED  BY <1>1, <1>2, <1>3, <1>4, <1>5 DEF Next

\* oolong.py:933-994.  No record that was stored is ever lost, and no work whose
\* record is stored is paid for again, whatever selections the restarts ask for
\* and wherever the kills and power losses fall.
THEOREM ImplementsDurableWork == Spec => WorkSpec
<1>1. Init => Durable!Init
    BY EmptyRecords DEF Init, Durable!Init, Absent
<1>2. BenchInv /\ [Next]_vars => [Durable!Next]_<<KeysOf(stable.results), paid>>
    BY StepImplements
<1> QED  BY <1>1, <1>2, InvariantHolds, PTL DEF Spec, WorkSpec, Durable!Spec

-----------------------------------------------------------------------------
(* The fit of one update: everything hangs on LOAD.json, which is created once. *)

UpdateStages ==
    {"idle", "look", "lock", "load", "update", "checkpoint", "after", "receipt", "summary",
     "terminal", "ended"}

UpdaterRecords == [pc : UpdateStages, steps : Nat, endpoint : BOOLEAN, checked : BOOLEAN, failed : BOOLEAN]

UpdateTyped ==
    /\ loadFile \in UpdateProcesses \cup {"nobody"}
    /\ updateFile \in {"nobody", loadFile}
    /\ updaters \in [UpdateProcesses -> UpdaterRecords]

\* Only the process that loaded has come further.
LoaderWorks ==
    \A p \in UpdateProcesses :
        (updaters[p].pc \in {"update", "checkpoint", "after", "receipt"}
            \/ updaters[p].steps > 0 \/ updaters[p].endpoint) => loadFile = p

CheckpointIsItsOwn ==
    \A p \in UpdateProcesses : updaters[p].endpoint => boundary.by = p

ReceiptIsEarned ==
    \A p \in UpdateProcesses :
        /\ updaters[p].pc = "receipt" => updaters[p].checked
        /\ updaters[p].pc = "summary" /\ ~updaters[p].failed =>
              updaters[p].checked /\ updateFile = p

SummaryIsEarned ==
    \/ summaryFile = << >>
    \/ /\ summaryFile.by \in UpdateProcesses
       /\ summaryFile.complete =>
            /\ updaters[summaryFile.by].checked /\ updateFile = summaryFile.by
            /\ boundary.by = summaryFile.by

UpdateInv ==
    UpdateTyped /\ LoaderWorks /\ CheckpointIsItsOwn /\ ReceiptIsEarned /\ SummaryIsEarned

\* Nothing is written yet.
LEMMA UpdateBegins == Updating!Init => UpdateInv
<1> SUFFICES ASSUME Updating!Init PROVE UpdateInv
  OBVIOUS
<1> USE DEF Updating!Init, Updating!Idle, Updating!Nobody, Updating!Nothing
<1>1. UpdateTyped
  <2>1. Updating!Idle \in UpdaterRecords
    BY DEF UpdaterRecords, UpdateStages
  <2> QED
    BY <2>1 DEF UpdateTyped
<1>2. LoaderWorks
  BY DEF LoaderWorks
<1>3. CheckpointIsItsOwn
  BY DEF CheckpointIsItsOwn
<1>4. ReceiptIsEarned
  BY DEF ReceiptIsEarned
<1>5. SummaryIsEarned
  BY DEF SummaryIsEarned
<1> QED BY <1>1, <1>2, <1>3, <1>4, <1>5 DEF UpdateInv

\* What a process keeps of itself, and of the others, when it goes on or fails.
Keeps(p) ==
    /\ updaters' \in [UpdateProcesses -> UpdaterRecords]
    /\ updaters'[p].steps = updaters[p].steps
    /\ updaters'[p].endpoint = updaters[p].endpoint
    /\ updaters'[p].checked = updaters[p].checked
    /\ \A q \in UpdateProcesses : q # p => updaters'[q] = updaters[q]

UpdateFilesKept == UNCHANGED <<loadFile, updateFile, boundary, summaryFile>>

\* What going on to another stage leaves of the process, and of the others.
LEMMA UpdaterGoes ==
    ASSUME UpdateTyped, NEW p \in UpdateProcesses, NEW to \in UpdateStages,
           Updating!Goes(p, to)
    PROVE  Keeps(p) /\ updaters'[p].pc = to /\ updaters'[p].failed = updaters[p].failed
BY DEF UpdateTyped, Updating!Goes, UpdaterRecords, Keeps

\* A failing process goes to its summary, and keeps what it has.
LEMMA UpdaterFails ==
    ASSUME UpdateTyped, NEW p \in UpdateProcesses, Updating!Fails(p)
    PROVE  Keeps(p) /\ updaters'[p].pc = "summary" /\ updaters'[p].failed
<1>1. "summary" \in UpdateStages
  BY DEF UpdateStages
<1> QED
  BY <1>1 DEF UpdateTyped, Updating!Fails, UpdaterRecords, Keeps

\* A process that only goes on, or fails, outside of the stages of the loader.
LEMMA UpdaterLeaves ==
    ASSUME UpdateInv, NEW p \in UpdateProcesses, Keeps(p), UpdateFilesKept,
           \/ updaters'[p].pc \in {"look", "lock", "load", "terminal", "ended"}
           \/ updaters'[p].pc = "summary" /\ updaters'[p].failed
    PROVE  UpdateInv'
<1> USE DEF UpdateInv, Keeps, UpdateFilesKept
<1>1. UpdateTyped'
  BY DEF UpdateTyped
<1>2. LoaderWorks'
  BY DEF LoaderWorks
<1>3. CheckpointIsItsOwn'
  BY DEF CheckpointIsItsOwn
<1>4. ReceiptIsEarned'
  BY DEF ReceiptIsEarned
<1>5. SummaryIsEarned'
  BY DEF SummaryIsEarned
<1> QED
  BY <1>1, <1>2, <1>3, <1>4, <1>5

\* Every step of a process keeps the invariant: the files are created once, and
\* who created them is the one process that went on.
LEMMA UpdateContinues == UpdateInv /\ [Updating!Next]_updateVars => UpdateInv'
<1> SUFFICES ASSUME UpdateInv, [Updating!Next]_updateVars PROVE UpdateInv'
  OBVIOUS
<1> USE ProcessAssumption DEF Updating!At, Updating!CanCreate, Updating!files,
          Updating!Nobody, Updating!Nothing
<1>0. UpdateTyped
  BY DEF UpdateInv
<1>1. CASE UNCHANGED updateVars
  BY <1>1 DEF updateVars, UpdateInv, UpdateTyped, LoaderWorks, CheckpointIsItsOwn,
              ReceiptIsEarned, SummaryIsEarned
<1>2. ASSUME NEW p \in UpdateProcesses, NEW to \in {"look", "lock", "load", "terminal", "ended"},
             Updating!Goes(p, to), UpdateFilesKept
      PROVE  UpdateInv'
  <2>1. to \in UpdateStages
    BY DEF UpdateStages
  <2> QED
    BY <1>0, <1>2, <2>1, UpdaterGoes, UpdaterLeaves
<1>3. ASSUME NEW p \in UpdateProcesses, Updating!Fails(p), UpdateFilesKept
      PROVE  UpdateInv'
  BY <1>0, <1>3, UpdaterFails, UpdaterLeaves
<1>12. ASSUME NEW p \in UpdateProcesses, NEW arm, Updating!Prepare(p, arm)
      PROVE  UpdateInv'
  <2>1. UpdateFilesKept /\ (Updating!Goes(p, "look") \/ Updating!Goes(p, "ended"))
    BY <1>12 DEF UpdateFilesKept, Updating!Prepare
  <2> QED
    BY <1>2, <2>1
<1>4. ASSUME NEW p \in UpdateProcesses,
             Updating!Look(p) \/ Updating!Refuse(p)
                \/ Updating!Begin(p) \/ Updating!WriteTerminal(p) \/ Updating!Killed(p)
      PROVE  UpdateInv'
  <2>1. UpdateFilesKept
    BY <1>4 DEF UpdateFilesKept, Updating!Look, Updating!Refuse, Updating!Begin,
                Updating!WriteTerminal, Updating!Killed
  <2>2. \E to \in {"look", "lock", "load", "terminal", "ended"} : Updating!Goes(p, to)
    BY <1>4 DEF Updating!Look, Updating!Refuse, Updating!Begin,
                Updating!WriteTerminal, Updating!Killed
  <2> QED
    BY <1>2, <2>1, <2>2
<1>5. ASSUME NEW p \in UpdateProcesses, Updating!Stop(p)
      PROVE  UpdateInv'
  BY <1>3, <1>5 DEF Updating!Stop, UpdateFilesKept
<1>6. ASSUME NEW p \in UpdateProcesses, Updating!Load(p)
      PROVE  UpdateInv'
  <2>1. CASE loadFile = "nobody"
    <3>1. loadFile' = p /\ UNCHANGED <<updateFile, boundary, summaryFile>>
          /\ Updating!Goes(p, "update")
      BY <1>6, <2>1 DEF Updating!Load
    <3>2. Keeps(p) /\ updaters'[p].pc = "update"
      BY <1>0, <3>1, UpdaterGoes DEF UpdateStages
    <3> QED
      BY <2>1, <3>1, <3>2
         DEF UpdateInv, Keeps, UpdateTyped, LoaderWorks, CheckpointIsItsOwn,
                              ReceiptIsEarned, SummaryIsEarned
  <2>2. CASE loadFile # "nobody"
    BY <1>3, <1>6, <2>2 DEF Updating!Load, UpdateFilesKept
  <2> QED
    BY <2>1, <2>2
<1>7. ASSUME NEW p \in UpdateProcesses, Updating!Update(p) \/ Updating!StepRejected(p)
      PROVE  UpdateInv'
  <2>1. loadFile = p /\ UpdateFilesKept
    BY <1>7
       DEF UpdateInv, LoaderWorks, Updating!Update, Updating!StepRejected, UpdateFilesKept
  <2>2. \/ updaters' = [updaters EXCEPT ![p].pc = "checkpoint", ![p].steps = @ + 1]
        \/ updaters' = [updaters EXCEPT ![p].pc = "summary", ![p].steps = @ + 1,
                                        ![p].failed = TRUE]
    BY <1>7 DEF Updating!Update, Updating!StepRejected
  <2>3. /\ updaters' \in [UpdateProcesses -> UpdaterRecords]
        /\ \/ updaters'[p].pc = "checkpoint"
           \/ updaters'[p].pc = "summary" /\ updaters'[p].failed
        /\ updaters'[p].endpoint = updaters[p].endpoint
        /\ updaters'[p].checked = updaters[p].checked
        /\ \A q \in UpdateProcesses : q # p => updaters'[q] = updaters[q]
    BY <1>0, <2>2 DEF UpdateTyped, UpdaterRecords, UpdateStages
  <2> QED
    BY <2>1, <2>3 DEF UpdateInv, UpdateTyped, LoaderWorks, CheckpointIsItsOwn,
                      ReceiptIsEarned, SummaryIsEarned, UpdateFilesKept
<1>8. ASSUME NEW p \in UpdateProcesses, Updating!Checkpoint(p)
      PROVE  UpdateInv'
  <2>1. CASE boundary = << >>
    <3>1. loadFile = p /\ boundary'.by = p /\ UNCHANGED <<loadFile, updateFile, summaryFile>>
      BY <1>8, <2>1 DEF UpdateInv, LoaderWorks, Updating!Checkpoint
    <3>2. updaters' = [updaters EXCEPT ![p].pc = "after", ![p].endpoint = TRUE]
      BY <1>8, <2>1 DEF Updating!Checkpoint
    <3>3. /\ updaters' \in [UpdateProcesses -> UpdaterRecords]
          /\ updaters'[p].pc = "after" /\ updaters'[p].checked = updaters[p].checked
          /\ \A q \in UpdateProcesses : q # p => updaters'[q] = updaters[q]
      BY <1>0, <3>2 DEF UpdateTyped, UpdaterRecords, UpdateStages
    <3> QED
      BY <3>1, <3>3 DEF UpdateInv, UpdateTyped, LoaderWorks, CheckpointIsItsOwn,
                        ReceiptIsEarned, SummaryIsEarned
  <2>2. CASE boundary # << >>
    BY <1>3, <1>8, <2>2 DEF Updating!Checkpoint, UpdateFilesKept
  <2> QED
    BY <2>1, <2>2
<1>9. ASSUME NEW p \in UpdateProcesses, Updating!After(p)
      PROVE  UpdateInv'
  <2>1. loadFile = p /\ UpdateFilesKept
    BY <1>9 DEF UpdateInv, LoaderWorks, Updating!After, UpdateFilesKept
  <2>2. updaters' = [updaters EXCEPT ![p].pc = "receipt", ![p].checked = TRUE]
    BY <1>9 DEF Updating!After
  <2>3. /\ updaters' \in [UpdateProcesses -> UpdaterRecords]
        /\ updaters'[p].pc = "receipt" /\ updaters'[p].checked
        /\ updaters'[p].endpoint = updaters[p].endpoint
        /\ \A q \in UpdateProcesses : q # p => updaters'[q] = updaters[q]
    BY <1>0, <2>2 DEF UpdateTyped, UpdaterRecords, UpdateStages
  <2> QED
    BY <2>1, <2>3 DEF UpdateInv, UpdateTyped, LoaderWorks, CheckpointIsItsOwn,
                      ReceiptIsEarned, SummaryIsEarned, UpdateFilesKept
<1>10. ASSUME NEW p \in UpdateProcesses, Updating!WriteUpdate(p)
      PROVE  UpdateInv'
  <2>1. CASE updateFile = "nobody"
    <3>1. updateFile' = p /\ loadFile = p /\ updaters[p].checked
          /\ UNCHANGED <<loadFile, boundary, summaryFile>> /\ Updating!Goes(p, "summary")
      BY <1>10, <2>1 DEF UpdateInv, LoaderWorks, ReceiptIsEarned, Updating!WriteUpdate
    <3>2. Keeps(p) /\ updaters'[p].pc = "summary"
      BY <1>0, <3>1, UpdaterGoes DEF UpdateStages
    <3> QED
      <4>1. UpdateTyped' /\ LoaderWorks' /\ CheckpointIsItsOwn'
        BY <2>1, <3>1, <3>2
           DEF UpdateInv, Keeps, UpdateTyped, LoaderWorks, CheckpointIsItsOwn
      <4>2. ReceiptIsEarned'
        BY <2>1, <3>1, <3>2 DEF UpdateInv, Keeps, ReceiptIsEarned
      <4>3. SummaryIsEarned'
        <5>1. summaryFile = << >> \/ (summaryFile.by \in UpdateProcesses /\ ~summaryFile.complete)
          BY <2>1 DEF UpdateInv, SummaryIsEarned
        <5> QED
          BY <3>1, <5>1, Zenon DEF SummaryIsEarned
      <4> QED
        BY <4>1, <4>2, <4>3 DEF UpdateInv
  <2>2. CASE updateFile # "nobody"
    BY <1>3, <1>10, <2>2 DEF Updating!WriteUpdate, UpdateFilesKept
  <2> QED
    BY <2>1, <2>2
<1>11. ASSUME NEW p \in UpdateProcesses, Updating!Summarise(p)
      PROVE  UpdateInv'
  <2>1. CASE summaryFile = << >>
    <3>1. /\ UNCHANGED <<loadFile, updateFile, boundary>> /\ Updating!Goes(p, "terminal")
          /\ updaters[p].pc = "summary"
          /\ summaryFile' = [by |-> p, steps |-> updaters[p].steps,
                             endpoint |-> updaters[p].endpoint,
                             complete |-> ~updaters[p].failed /\ updaters[p].endpoint]
      BY <1>11, <2>1 DEF Updating!Summarise
    <3>2. Keeps(p) /\ updaters'[p].pc = "terminal"
      BY <1>0, <3>1, UpdaterGoes DEF UpdateStages
    <3>3. summaryFile'.by = p
      BY <3>1
    <3>4. summaryFile'.complete => ~updaters[p].failed /\ updaters[p].endpoint
      BY <3>1, Zenon
    <3>5. SummaryIsEarned'
      BY <3>1, <3>2, <3>3, <3>4, Zenon
         DEF UpdateInv, Keeps, CheckpointIsItsOwn, ReceiptIsEarned, SummaryIsEarned
    <3> QED
      BY <3>1, <3>2, <3>5
         DEF UpdateInv, Keeps, UpdateTyped, LoaderWorks, CheckpointIsItsOwn,
                              ReceiptIsEarned
  <2>2. CASE summaryFile # << >>
    BY <1>2, <1>11, <2>2 DEF Updating!Summarise, UpdateFilesKept
  <2> QED
    BY <2>1, <2>2
<1> QED
  BY <1>1, <1>4, <1>5, <1>6, <1>7, <1>8, <1>9, <1>10, <1>11, <1>12
     DEF Updating!Next, updateVars

\* A complete summary is by the process that loaded, updated and checked.
LEMMA UpdateIsOneFollows == UpdateInv => UpdateIsOne
BY ProcessAssumption
   DEF UpdateInv, UpdateTyped, LoaderWorks, CheckpointIsItsOwn, ReceiptIsEarned,
       SummaryIsEarned,
   UpdateIsOne, Updating!NoImplicitRetry, Updating!TakenIsChecked, Updating!EndpointTaken, Updating!Nothing

-----------------------------------------------------------------------------
(* The proposer: what is served under the name of a step are the weights that *)
(* were saved for it, and the log of one process has one line for each step.   *)

ProposerStages ==
    {"off", "sample", "update", "save", "swap", "unload", "log", "tidy", "final"}

LogEntries == [start : Nat, step : 1..ProposerSteps, weights : Seq(Nat)]

ProposerTyped ==
    /\ proposerStage \in ProposerStages
    /\ start \in Nat /\ proposerStep \in Nat
    /\ policy \in Seq(Nat)
    /\ directories \in [1..ProposerSteps -> Seq(Nat)]
    /\ steplog \in Seq(LogEntries)
    /\ proposerStage # "off" => proposerStep \in 1..ProposerSteps

\* The given adapter is served for ever.
GivenServed == 0 \in DOMAIN proposers /\ proposers[0] = << >>

\* What is sampled from, saved and served in a step.
StepsAdapter ==
    /\ proposerStage \in {"sample", "update", "save", "swap", "unload"} =>
          proposer = proposerStep - 1
    /\ proposerStage \in {"swap", "unload", "log", "tidy"} =>
          directories[proposerStep] = policy
    /\ proposerStage = "unload" =>
          proposerStep \in DOMAIN proposers /\ proposers[proposerStep] = policy
    /\ proposerStage \in {"log", "tidy", "final"} => proposer = proposerStep
    /\ proposerStage \in {"sample", "log", "tidy", "final"} =>
          proposer \in DOMAIN proposers /\ proposers[proposer] = policy

\* The last step that this process has logged.
Logged == IF proposerStage \in {"tidy", "final"} THEN proposerStep ELSE proposerStep - 1

\* The lines of this process are the last ones, one for each step.
OwnLines ==
    \A i \in DOMAIN steplog :
        /\ steplog[i].start <= start
        /\ proposerStage # "off" /\ steplog[i].start = start =>
              steplog[i].step = Logged - (Len(steplog) - i)

\* The last two of them can be loaded again.
OwnOnDisk ==
    \A i \in DOMAIN steplog :
        proposerStage # "off" /\ steplog[i].start = start /\ i >= Len(steplog) - 1 =>
            directories[steplog[i].step] = steplog[i].weights

\* The weights in memory are those of the last line, or one update more.
LastLine ==
    Len(steplog) > 0 /\ steplog[Len(steplog)].start = start =>
        /\ proposerStage \in {"sample", "update", "tidy"} =>
              policy = steplog[Len(steplog)].weights
        /\ proposerStage \in {"save", "swap", "unload", "log"} =>
              \/ policy = steplog[Len(steplog)].weights
              \/ policy = Append(steplog[Len(steplog)].weights, start)

ProposerInv ==
    /\ ProposerTyped /\ GivenServed /\ StepsAdapter /\ OwnLines /\ OwnOnDisk /\ LastLine
    /\ Proposing!LogIsOneTraining

\* The given adapter is what the server and the process have.
LEMMA ProposerBegins == Proposing!Init => ProposerInv
<1> SUFFICES ASSUME Proposing!Init PROVE ProposerInv
  OBVIOUS
<1> USE DEF Proposing!Init, Proposing!FreshPolicy, Proposing!Given, Proposing!Absent
<1>1. steplog = << >> /\ DOMAIN steplog = {} /\ Len(steplog) = 0
  OBVIOUS
<1>2. << >> \in Seq(Nat) /\ <<0>> \in Seq(Nat) /\ << >> \in Seq(LogEntries)
  OBVIOUS
<1>3. ProposerTyped
  BY <1>2 DEF ProposerTyped, ProposerStages
<1>4. GivenServed /\ StepsAdapter
  BY DEF GivenServed, StepsAdapter
<1>5. OwnLines /\ OwnOnDisk /\ LastLine /\ Proposing!LogIsOneTraining
  BY <1>1 DEF OwnLines, OwnOnDisk, LastLine, Proposing!LogIsOneTraining
<1> QED
  BY <1>3, <1>4, <1>5 DEF ProposerInv

\* Every step of a process, and its death, keeps the invariant.
LEMMA ProposerContinues == ProposerInv /\ [Proposing!Next]_proposerVars => ProposerInv'
<1> SUFFICES ASSUME ProposerInv, [Proposing!Next]_proposerVars PROVE ProposerInv'
  OBVIOUS
<1> USE DEF ProposerInv, Proposing!FreshPolicy, Proposing!Given, Proposing!Absent
<1>0. /\ DOMAIN steplog = 1..Len(steplog) /\ Len(steplog) \in Nat
      /\ \A i \in DOMAIN steplog :
            steplog[i].start \in Nat /\ steplog[i].step \in 1..ProposerSteps
  <2>1. steplog \in Seq(LogEntries)
    BY DEF ProposerTyped
  <2>2. \A i \in DOMAIN steplog : steplog[i] \in LogEntries
    BY <2>1
  <2> QED
    BY <2>1, <2>2 DEF LogEntries
<1>1. CASE UNCHANGED proposerVars
  BY <1>1
     DEF proposerVars, ProposerTyped, GivenServed, StepsAdapter, OwnLines, OwnOnDisk,
         LastLine, Logged, Proposing!LogIsOneTraining
<1>2. CASE Proposing!Start
  <2> USE <1>2 DEF Proposing!Start
  <2>1. ProposerTyped'
    BY StepsAssumption DEF ProposerTyped, ProposerStages
  <2>2. GivenServed' /\ StepsAdapter'
    BY DEF GivenServed, StepsAdapter
  <2>3. \A i \in DOMAIN steplog : steplog[i].start < start' /\ steplog[i].start # start'
    BY <1>0 DEF OwnLines, ProposerTyped
  <2>4. OwnLines' /\ OwnOnDisk'
    <3>1. \A i \in DOMAIN steplog : steplog[i].start <= start'
      BY <1>0 DEF OwnLines, ProposerTyped
    <3> QED
      BY <2>3, <3>1 DEF OwnLines, OwnOnDisk
  <2>5. LastLine'
    BY <2>3 DEF LastLine, ProposerTyped
  <2>6. Proposing!LogIsOneTraining'
    BY DEF Proposing!LogIsOneTraining
  <2> QED
    BY <2>1, <2>2, <2>4, <2>5, <2>6
<1>3. CASE Proposing!Sample
  <2> USE <1>3 DEF Proposing!Sample
  <2>1. ProposerTyped'
    BY DEF ProposerTyped, ProposerStages
  <2>2. GivenServed' /\ StepsAdapter'
    BY DEF GivenServed, StepsAdapter
  <2>4. OwnLines' /\ OwnOnDisk'
    BY DEF OwnLines, OwnOnDisk, Logged
  <2>5. LastLine'
    BY DEF LastLine
  <2>6. Proposing!LogIsOneTraining'
    BY DEF Proposing!LogIsOneTraining
  <2> QED
    BY <2>1, <2>2, <2>4, <2>5, <2>6
<1>4. CASE Proposing!Update
  <2> USE <1>4 DEF Proposing!Update
  <2>1. ProposerTyped'
    <3>1. policy' \in Seq(Nat)
      <4>1. Append(policy, start) \in Seq(Nat)
        BY DEF ProposerTyped
      <4> QED
        BY <4>1 DEF ProposerTyped
    <3> QED
      BY <3>1 DEF ProposerTyped, ProposerStages
  <2>2. GivenServed' /\ StepsAdapter'
    BY DEF GivenServed, StepsAdapter
  <2>4. OwnLines' /\ OwnOnDisk'
    BY DEF OwnLines, OwnOnDisk, Logged
  <2>5. LastLine'
    BY DEF LastLine
  <2>6. Proposing!LogIsOneTraining'
    BY DEF Proposing!LogIsOneTraining
  <2> QED
    BY <2>1, <2>2, <2>4, <2>5, <2>6
<1>5. CASE Proposing!Save
  <2> USE <1>5 DEF Proposing!Save
  <2>0. /\ proposerStep \in 1..ProposerSteps
        /\ directories'[proposerStep] = policy
        /\ \A s \in 1..ProposerSteps : s # proposerStep => directories'[s] = directories[s]
    BY DEF ProposerTyped
  <2>1. ProposerTyped'
    BY DEF ProposerTyped, ProposerStages
  <2>2. GivenServed' /\ StepsAdapter'
    BY <2>0 DEF GivenServed, StepsAdapter
  <2>3. OwnLines'
    BY DEF OwnLines, Logged
  <2>4. OwnOnDisk'
    <3>1. \A i \in DOMAIN steplog : steplog[i].start = start =>
              steplog[i].step \in 1..ProposerSteps /\ steplog[i].step < proposerStep
      BY <1>0 DEF OwnLines, Logged, ProposerTyped
    <3> QED
      BY <2>0, <3>1 DEF OwnOnDisk
  <2>5. LastLine'
    BY DEF LastLine
  <2>6. Proposing!LogIsOneTraining'
    BY DEF Proposing!LogIsOneTraining
  <2> QED
    BY <2>1, <2>2, <2>3, <2>4, <2>5, <2>6
<1>6. CASE Proposing!SwapIn
  <2> USE <1>6 DEF Proposing!SwapIn
  <2>1. ProposerTyped'
    BY DEF ProposerTyped, ProposerStages
  <2>2. GivenServed' /\ StepsAdapter'
    BY DEF GivenServed, StepsAdapter, ProposerTyped
  <2>4. OwnLines' /\ OwnOnDisk'
    BY DEF OwnLines, OwnOnDisk, Logged
  <2>5. LastLine'
    BY DEF LastLine
  <2>6. Proposing!LogIsOneTraining'
    BY DEF Proposing!LogIsOneTraining
  <2> QED
    BY <2>1, <2>2, <2>4, <2>5, <2>6
<1>7. CASE Proposing!Unload
  <2> USE <1>7 DEF Proposing!Unload
  <2>1. ProposerTyped'
    BY DEF ProposerTyped, ProposerStages
  <2>2. GivenServed' /\ StepsAdapter'
    BY DEF GivenServed, StepsAdapter, ProposerTyped, Proposing!Restrict
  <2>4. OwnLines' /\ OwnOnDisk'
    BY DEF OwnLines, OwnOnDisk, Logged
  <2>5. LastLine'
    BY DEF LastLine
  <2>6. Proposing!LogIsOneTraining'
    BY DEF Proposing!LogIsOneTraining
  <2> QED
    BY <2>1, <2>2, <2>4, <2>5, <2>6
<1>8. CASE Proposing!LogStep
  <2> USE <1>8 DEF Proposing!LogStep
  <2> DEFINE line == [start |-> start, step |-> proposerStep, weights |-> policy]
  <2>0. line \in LogEntries /\ steplog \in Seq(LogEntries) /\ steplog' = Append(steplog, line)
    BY DEF ProposerTyped, LogEntries
  <2>1. ProposerTyped'
    BY <2>0 DEF ProposerTyped, ProposerStages
  <2>2. GivenServed' /\ StepsAdapter'
    BY DEF GivenServed, StepsAdapter, ProposerTyped
  <2>3. /\ Len(steplog') = Len(steplog) + 1 /\ DOMAIN steplog' = 1..(Len(steplog) + 1)
        /\ steplog'[Len(steplog) + 1].start = start
        /\ steplog'[Len(steplog) + 1].step = proposerStep
        /\ steplog'[Len(steplog) + 1].weights = policy
        /\ \A i \in 1..Len(steplog) : steplog'[i] = steplog[i]
        /\ DOMAIN steplog = 1..Len(steplog) /\ Len(steplog) \in Nat
    BY <2>0
  <2>4. OwnLines'
    BY <2>3 DEF OwnLines, Logged, ProposerTyped
  <2>5. OwnOnDisk'
    BY <2>3 DEF OwnOnDisk, StepsAdapter, ProposerTyped
  <2>6. LastLine'
    BY <2>3 DEF LastLine
  <2>7. Proposing!LogIsOneTraining'
    <3> SUFFICES ASSUME NEW i \in 2..(Len(steplog) + 1),
                        steplog'[i].start = steplog'[i - 1].start
                 PROVE  /\ steplog'[i].step = steplog'[i - 1].step + 1
                        /\ \/ steplog'[i].weights = steplog'[i - 1].weights
                           \/ steplog'[i].weights =
                                 Append(steplog'[i - 1].weights, steplog'[i].start)
      BY <2>3 DEF Proposing!LogIsOneTraining
    <3>1. CASE i \in 2..Len(steplog)
      BY <2>3, <3>1 DEF Proposing!LogIsOneTraining
    <3>2. CASE i = Len(steplog) + 1
      <4>3. i - 1 = Len(steplog) /\ Len(steplog) \in 1..Len(steplog)
        <5>1. \A n \in Nat : \A m \in 2..(n + 1) : m = n + 1 => m - 1 = n /\ n \in 1..n
          OBVIOUS
        <5> QED
          BY <2>3, <3>2, <5>1
      <4>1. Len(steplog) \in DOMAIN steplog /\ steplog'[i - 1] = steplog[Len(steplog)]
        BY <2>3, <4>3
      <4>2. steplog[Len(steplog)].step = proposerStep - 1
        <5>1. steplog[Len(steplog)].start = start
          BY <2>3, <3>2, <4>1
        <5>2. steplog[Len(steplog)].step = (proposerStep - 1) - (Len(steplog) - Len(steplog))
          BY <4>1, <5>1 DEF OwnLines, Logged
        <5> QED
          BY <2>3, <5>2 DEF ProposerTyped
      <4> QED
        BY <2>3, <3>2, <4>1, <4>2 DEF LastLine, ProposerTyped
    <3> QED
      BY <2>3, <3>1, <3>2
  <2> QED
    BY <2>1, <2>2, <2>4, <2>5, <2>6, <2>7
<1>9. CASE Proposing!Tidy
  <2> USE <1>9 DEF Proposing!Tidy
  <2>0. /\ proposerStep \in 1..ProposerSteps
        /\ \A s \in 1..ProposerSteps : s # proposerStep - 2 => directories'[s] = directories[s]
    BY DEF ProposerTyped
  <2>1. ProposerTyped'
    <3>1. <<0>> \in Seq(Nat)
      OBVIOUS
    <3>2. directories' \in [1..ProposerSteps -> Seq(Nat)]
      BY <3>1 DEF ProposerTyped
    <3>3. proposerStage' \in {"final", "sample"} /\ proposerStep' \in 1..ProposerSteps
      BY <2>0, StepsAssumption
    <3> QED
      BY <3>2, <3>3 DEF ProposerTyped, ProposerStages
  <2>2. GivenServed' /\ StepsAdapter'
    BY DEF GivenServed, StepsAdapter, ProposerTyped
  <2>3. OwnLines'
    <3>1. Logged' = Logged
      BY <2>0 DEF Logged
    <3> QED
      BY <3>1 DEF OwnLines
  <2>4. OwnOnDisk'
    <3>1. \A i \in DOMAIN steplog : steplog[i].start = start /\ i >= Len(steplog) - 1 =>
              steplog[i].step \in 1..ProposerSteps /\ steplog[i].step # proposerStep - 2
      BY <1>0 DEF OwnLines, Logged, ProposerTyped
    <3> QED
      BY <2>0, <3>1 DEF OwnOnDisk
  <2>5. LastLine'
    BY DEF LastLine
  <2>6. Proposing!LogIsOneTraining'
    BY DEF Proposing!LogIsOneTraining
  <2> QED
    BY <2>1, <2>2, <2>3, <2>4, <2>5, <2>6
<1>10. CASE Proposing!WriteFinal \/ Proposing!Crash
  <2> USE <1>10 DEF Proposing!WriteFinal, Proposing!Crash, Proposing!Cut
  <2>1. ProposerTyped'
    <3>1. <<0, 0>> \in Seq(Nat)
      OBVIOUS
    <3> QED BY <3>1 DEF ProposerTyped, ProposerStages
  <2>2. GivenServed' /\ StepsAdapter'
    BY DEF GivenServed, StepsAdapter
  <2>4. OwnLines' /\ OwnOnDisk'
    BY DEF OwnLines, OwnOnDisk, Logged
  <2>5. LastLine'
    BY DEF LastLine
  <2>6. Proposing!LogIsOneTraining'
    BY DEF Proposing!LogIsOneTraining
  <2> QED
    BY <2>1, <2>2, <2>4, <2>5, <2>6
<1> QED
  BY <1>1, <1>2, <1>3, <1>4, <1>5, <1>6, <1>7, <1>8, <1>9, <1>10
     DEF Proposing!Next, proposerVars

\* What the runs check of the proposer follows.
LEMMA ProposerIsOneFollows == ProposerInv => ProposerIsOne
<1> SUFFICES ASSUME ProposerInv PROVE ProposerIsOne
  OBVIOUS
<1>1. Proposing!SamplesOnPolicy
  BY DEF ProposerInv, StepsAdapter, Proposing!SamplesOnPolicy
<1>2. Proposing!LastTwoOnDisk
  BY DEF ProposerInv, OwnOnDisk, ProposerTyped, Proposing!LastTwoOnDisk
<1> QED
  BY <1>1, <1>2 DEF ProposerInv, ProposerIsOne

-----------------------------------------------------------------------------
(* The training loop: what is served under the controller's name are the      *)
(* weights of the last whole line of the log, or of the step after it.         *)

Histories == Seq({"warm", "base"} \cup Nat)

TrainingLines ==
    [step : 0..TrainingSteps, weights : Histories, attempt : Nat,
     text : LogTears \cup {"whole"}, newline : BOOLEAN]

InStep == {"rollout", "update", "save", "load", "unload", "log"}

TrainingTyped ==
    /\ trainingPc \in {"off", "build", "serve", "first"} \cup InStep
    /\ attempt \in Nat /\ resumed \in BOOLEAN /\ weights \in Histories
    /\ adapters \in [0..TrainingSteps -> Histories] /\ adapters[0] = << >>
    /\ log \in Seq(TrainingLines)
    /\ trainingPc # "off" => attempt > 0 /\ step \in 1..(TrainingSteps + 1)
    /\ trainingPc \in InStep => step <= TrainingSteps

\* What the server answers with under the controller's name.
AsksForWeights ==
    /\ trainingPc = "build" => controller = <<"public", 0>>
    /\ trainingPc = "serve" => weights = Training!FirstAdapter
    /\ trainingPc \in {"first", "rollout", "update", "save", "load", "log"} =>
          controller = <<"public", 0>> \/ controller \in DOMAIN served
    /\ trainingPc \in {"first", "rollout", "log"} => Training!Serving(controller) = weights
    /\ trainingPc \in {"load", "unload", "log"} => adapters[step] = weights
    /\ trainingPc = "unload" =>
          /\ controller # <<"step", step>>
          /\ <<"step", step>> \in DOMAIN served /\ served[<<"step", step>>] = weights

\* The line before the one that a step will write.
LineBefore ==
    /\ trainingPc \in {"build", "serve"} /\ resumed =>
          Len(log) > 0 /\ log[Len(log)].text = "whole" /\ step = log[Len(log)].step + 1
    /\ trainingPc = "serve" /\ resumed => step > 1 /\ weights = log[Len(log)].weights
    /\ trainingPc \in {"build", "serve"} /\ ~resumed => step = 1
    /\ trainingPc = "first" => step = 1
    /\ trainingPc \in InStep =>
          /\ Len(log) > 0 /\ log[Len(log)].text = "whole"
          /\ step = log[Len(log)].step + 1
          /\ \/ weights = log[Len(log)].weights
             \/ /\ trainingPc \notin {"rollout", "update"}
                /\ weights = Append(log[Len(log)].weights, attempt)

TrainingInv ==
    /\ TrainingTyped /\ AsksForWeights /\ LineBefore
    /\ Training!LogBacked /\ Training!OneTraining

\* The given weights are histories, and no empty one.
LEMMA GivenWeights ==
    /\ << >> \in Histories /\ <<"warm">> \in Histories /\ <<"base">> \in Histories
    /\ Training!Warm \in Histories /\ Training!Warm # << >>
<1>1. << >> \in Histories /\ <<"warm">> \in Histories /\ <<"base">> \in Histories
  <2>1. ASSUME NEW S, NEW x \in S PROVE <<x>> \in Seq(S)
    OBVIOUS
  <2>2. "warm" \in {"warm", "base"} \cup Nat /\ "base" \in {"warm", "base"} \cup Nat
    OBVIOUS
  <2> QED
    BY <2>1, <2>2 DEF Histories
<1>2. <<"warm">> # << >> /\ <<"base">> # << >>
  OBVIOUS
<1> QED
  BY <1>1, <1>2 DEF Training!Warm, Training!Base

\* Before the first attempt there is no line and no adapter.
LEMMA TrainingBegins == Training!Init => TrainingInv
<1> SUFFICES ASSUME Training!Init PROVE TrainingInv
  OBVIOUS
<1> USE DEF Training!Init, Training!Nothing
<1>1. log = << >> /\ DOMAIN log = {} /\ Len(log) = 0 /\ log \in Seq(TrainingLines)
  OBVIOUS
<1>2. TrainingTyped
  <2>1. adapters \in [0..TrainingSteps -> Histories] /\ adapters[0] = << >>
    BY GivenWeights, StepsAssumption
  <2> QED
    BY <1>1, <2>1, GivenWeights DEF TrainingTyped, InStep
<1>3. AsksForWeights /\ LineBefore
  BY DEF AsksForWeights, LineBefore, InStep
<1>4. Training!LogBacked /\ Training!OneTraining
  BY <1>1 DEF Training!LogBacked, Training!OneTraining
<1> QED
  BY <1>2, <1>3, <1>4 DEF TrainingInv

\* The lines of the log.
LEMMA LogShape ==
    ASSUME TrainingTyped
    PROVE  /\ Len(log) \in Nat /\ DOMAIN log = 1..Len(log)
           /\ log # << >> <=> Len(log) > 0
           /\ \A i \in DOMAIN log : log[i].step \in 0..TrainingSteps /\ log[i].weights \in Histories
<1>1. log \in Seq(TrainingLines)
  BY DEF TrainingTyped
<1>2. \A i \in DOMAIN log : log[i] \in TrainingLines
  BY <1>1
<1> QED
  BY <1>1, <1>2 DEF TrainingLines

\* A step that writes no line keeps what is said of the lines.
LEMMA LogKept ==
    ASSUME TrainingInv, UNCHANGED <<log, adapters>>, attempt' \in Nat, attempt <= attempt'
    PROVE  Training!LogBacked' /\ Training!OneTraining'
<1> USE DEF TrainingInv, TrainingTyped
<1>1. Training!LogBacked'
  BY DEF Training!LogBacked
<1>2. 1..attempt \subseteq 1..attempt'
  OBVIOUS
<1>3. Training!OneTraining'
  <2> SUFFICES ASSUME NEW i \in DOMAIN log, NEW j \in DOMAIN log, j = i + 1,
                      log[j].step # 0, log[i].text = "whole"
               PROVE  /\ log[j].step = log[i].step + 1
                      /\ \/ log[j].weights = log[i].weights
                         \/ \E a \in 1..attempt' : log[j].weights = Append(log[i].weights, a)
    BY DEF Training!OneTraining
  <2>1. /\ log[j].step = log[i].step + 1
        /\ \/ log[j].weights = log[i].weights
           \/ \E a \in 1..attempt : log[j].weights = Append(log[i].weights, a)
    BY DEF Training!OneTraining
  <2> QED
    BY <1>2, <2>1, Zenon
<1> QED
  BY <1>1, <1>3

\* A line is written: whole or cut, of the step or of the evaluation before.
LEMMA LogGrows ==
    ASSUME TrainingInv, NEW line \in TrainingLines, log' = Append(log, line),
           UNCHANGED <<attempt, adapters>>,
           line.weights = weights,
           \/ trainingPc = "first" /\ line.step = 0
           \/ trainingPc = "log" /\ line.step = step
    PROVE  /\ log' \in Seq(TrainingLines) /\ Len(log') = Len(log) + 1
           /\ log'[Len(log')] = line /\ Len(log') > 0
           /\ Training!LogBacked' /\ Training!OneTraining'
<1> USE DEF TrainingInv
<1>0. Len(log) \in Nat /\ DOMAIN log = 1..Len(log)
      /\ \A i \in DOMAIN log : log[i].step \in 0..TrainingSteps
  BY LogShape
<1>1. /\ log' \in Seq(TrainingLines) /\ Len(log') = Len(log) + 1
      /\ log'[Len(log) + 1] = line /\ DOMAIN log' = 1..(Len(log) + 1)
      /\ \A i \in 1..Len(log) : log'[i] = log[i]
  BY DEF TrainingTyped
<1>2. Training!LogBacked'
  <2> SUFFICES ASSUME NEW i \in 1..(Len(log) + 1), i = Len(log) + 1, line.step > 0
               PROVE  adapters[line.step] = line.weights
    BY <1>0, <1>1 DEF Training!LogBacked
  <2> QED
    BY DEF AsksForWeights
<1>3. Training!OneTraining'
  <2> SUFFICES ASSUME NEW i \in DOMAIN log', NEW j \in DOMAIN log', j = i + 1,
                      log'[j].step # 0, log'[i].text = "whole"
               PROVE  /\ log'[j].step = log'[i].step + 1
                      /\ \/ log'[j].weights = log'[i].weights
                         \/ \E a \in 1..attempt : log'[j].weights = Append(log'[i].weights, a)
    BY DEF Training!OneTraining
  <2>0. i \in 1..(Len(log) + 1) /\ j \in 1..(Len(log) + 1)
    BY <1>1
  <2>1. CASE j <= Len(log)
    <3>1. i \in 1..Len(log) /\ j \in 1..Len(log)
      BY <1>0, <2>0, <2>1
    <3>2. log'[i] = log[i] /\ log'[j] = log[j] /\ i \in DOMAIN log /\ j \in DOMAIN log
      BY <1>0, <1>1, <3>1
    <3>3. /\ log[j].step = log[i].step + 1
          /\ \/ log[j].weights = log[i].weights
             \/ \E a \in 1..attempt : log[j].weights = Append(log[i].weights, a)
      BY <3>2 DEF Training!OneTraining
    <3> QED
      BY <3>2, <3>3
  <2>2. CASE j = Len(log) + 1
    <3>1. i = Len(log) /\ i \in 1..Len(log)
      <4>1. \A n \in Nat : \A m \in 1..(n + 1) : m + 1 = n + 1 => m = n /\ m \in 1..n
        OBVIOUS
      <4> QED
        BY <1>0, <2>0, <2>2, <4>1
    <3>2. log'[i] = log[Len(log)] /\ log'[j] = line
      BY <1>1, <2>2, <3>1
    <3>3. trainingPc = "log" /\ line.step = step
      BY <3>2
    <3>4. attempt \in 1..attempt
      BY <3>3 DEF TrainingTyped, InStep
    <3> QED
      BY <3>2, <3>3, <3>4 DEF LineBefore, InStep
  <2> QED
    BY <1>0, <2>0, <2>1, <2>2
<1> QED
  BY <1>0, <1>1, <1>2, <1>3

\* What write_step writes is a line, of the weights in memory.
LEMMA LineWritten ==
    ASSUME TrainingInv, NEW s \in 0..TrainingSteps, NEW text \in LogTears \cup {"whole"},
           NEW newline \in BOOLEAN
    PROVE  /\ Training!Line(s, text, newline) \in TrainingLines
           /\ Training!Line(s, text, newline).step = s
           /\ Training!Line(s, text, newline).text = text
           /\ Training!Line(s, text, newline).weights = weights
BY DEF TrainingInv, TrainingTyped, TrainingLines, Training!Line

\* Every step of an attempt, and its death, keeps the invariant.
LEMMA TrainingContinues == TrainingInv /\ [Training!Next]_trainingVars => TrainingInv'
<1> SUFFICES ASSUME TrainingInv, [Training!Next]_trainingVars PROVE TrainingInv'
  OBVIOUS
<1> USE DEF TrainingInv, Training!Nothing, Training!disk, InStep
<1>0. /\ Len(log) \in Nat /\ DOMAIN log = 1..Len(log)
      /\ log # << >> <=> Len(log) > 0
      /\ \A i \in DOMAIN log : log[i].step \in 0..TrainingSteps /\ log[i].weights \in Histories
  BY LogShape
<1>1. CASE UNCHANGED trainingVars
  BY <1>1
     DEF trainingVars, TrainingTyped, AsksForWeights, LineBefore, Training!LogBacked,
         Training!OneTraining, Training!FirstAdapter, Training!Serving
<1>2. ASSUME NEW resume \in BOOLEAN, Training!Start(resume)
      PROVE  TrainingInv'
  <2>1. UNCHANGED <<log, adapters, weights, served>> /\ attempt' = attempt + 1 /\ attempt \in Nat
        /\ controller' = <<"public", 0>>
    BY <1>2 DEF Training!Start, Training!Public, TrainingTyped
  <2>2. Training!LogBacked' /\ Training!OneTraining'
    BY <2>1, LogKept
  <2>3. resumed' \in BOOLEAN
    BY <1>2 DEF Training!Start
  <2>4. CASE resumed'
    <3>1. log # << >> /\ Len(log) > 0 /\ Len(log) \in DOMAIN log
      <4>1. log # << >>
        BY <1>2, <2>4, Zenon DEF Training!Start
      <4> QED
        BY <1>0, <4>1
    <3>2. CASE trainingPc' = "build"
      <4>1. log[Len(log)].text = "whole" /\ step' = log[Len(log)].step + 1
        BY <1>2, <2>4, <3>2 DEF Training!Start, Training!LastReadable, Training!Last
      <4>2. TrainingTyped'
        BY <1>0, <2>1, <2>3, <3>1, <3>2, <4>1, StepsAssumption DEF TrainingTyped
      <4>3. AsksForWeights' /\ LineBefore'
        BY <2>1, <2>4, <3>1, <3>2, <4>1 DEF AsksForWeights, LineBefore
      <4> QED
        BY <2>2, <4>2, <4>3
    <3>3. CASE trainingPc' = "off"
      BY <2>1, <2>2, <2>3, <3>3 DEF TrainingTyped, AsksForWeights, LineBefore
    <3> QED
      BY <1>2, <2>4, <3>2, <3>3 DEF Training!Start
  <2>5. CASE ~resumed'
    <3>1. trainingPc' = "build" /\ step' = 1
      BY <1>2, <2>5 DEF Training!Start
    <3> QED
      BY <2>1, <2>2, <2>3, <2>5, <3>1, StepsAssumption
         DEF TrainingTyped, AsksForWeights, LineBefore
  <2> QED
    BY <2>4, <2>5
<1>3. CASE Training!Build
  <2>1. UNCHANGED <<log, adapters, served, attempt, resumed, step, controller>>
        /\ trainingPc = "build" /\ weights' = Training!FirstAdapter
        /\ controller = <<"public", 0>> /\ attempt \in Nat
    BY <1>3 DEF Training!Build, TrainingTyped, AsksForWeights
  <2>2. Training!LogBacked' /\ Training!OneTraining'
    BY <2>1, LogKept
  <2>3. /\ Training!FirstAdapter' = Training!FirstAdapter
        /\ Training!FirstAdapter \in Histories
    <3>1. CASE resumed
      <4>1. step - 1 \in 0..TrainingSteps
        BY <2>1, <3>1, StepsAssumption DEF TrainingTyped
      <4> QED
        BY <2>1, <3>1, <4>1 DEF Training!FirstAdapter, TrainingTyped
    <3>2. CASE ~resumed
      BY <2>1, <3>2, GivenWeights DEF Training!FirstAdapter, Training!Warm, Training!Base
    <3> QED BY <3>1, <3>2
  <2>4. CASE Training!FirstAdapter = << >>
    <3>1. trainingPc' = "off"
      BY <1>3, <2>4 DEF Training!Build
    <3> QED
      BY <2>1, <2>2, <2>3, <3>1 DEF TrainingTyped, AsksForWeights, LineBefore
  <2>5. CASE Training!FirstAdapter # << >> /\ (Warmed \/ resumed)
    <3>1. trainingPc' = "serve"
      BY <1>3, <2>5 DEF Training!Build
    <3>2. TrainingTyped' /\ AsksForWeights'
      BY <2>1, <2>3, <3>1 DEF TrainingTyped, AsksForWeights
    <3>3. ASSUME resumed PROVE step > 1 /\ weights' = log[Len(log)].weights
      <4>1. weights' = adapters[step - 1] /\ weights' # << >> /\ Len(log) > 0
            /\ log[Len(log)].text = "whole" /\ step - 1 = log[Len(log)].step
            /\ Len(log) \in DOMAIN log
        BY <1>0, <2>1, <2>5, <3>3 DEF Training!FirstAdapter, LineBefore
      <4>2. step - 1 # 0
        BY <4>1 DEF TrainingTyped
      <4>3. log[Len(log)].step > 0
        <5>1. log[Len(log)].step \in 0..TrainingSteps
          BY <1>0, <4>1
        <5> QED
          <6>1. log[Len(log)].step # 0
            BY <4>1, <4>2
          <6>2. \A n \in 0..TrainingSteps : n # 0 => n > 0
            BY StepsAssumption
          <6> QED
            BY <5>1, <6>1, <6>2, Zenon
      <4> QED
        BY <2>1, <4>1, <4>3 DEF Training!LogBacked, TrainingTyped
    <3>4. LineBefore'
      BY <2>1, <3>1, <3>3 DEF LineBefore
    <3> QED
      BY <2>2, <3>2, <3>4
  <2>6. CASE Training!FirstAdapter # << >> /\ ~(Warmed \/ resumed)
    <3>1. trainingPc' = "first" /\ weights' = <<"base">> /\ step = 1
      BY <1>3, <2>1, <2>6
         DEF Training!Build, Training!FirstAdapter, Training!Warm, Training!Base, LineBefore
    <3> QED
      BY <2>1, <2>2, <2>3, <3>1
         DEF TrainingTyped, AsksForWeights, LineBefore, Training!Serving, Training!Public,
             Training!Base
  <2> QED
    BY <2>4, <2>5, <2>6
<1>4. CASE Training!Serve
  <2>1. UNCHANGED <<log, adapters, attempt, resumed, step, weights>>
        /\ trainingPc = "serve" /\ controller' = <<"init", attempt>>
        /\ controller' \in DOMAIN served' /\ served'[controller'] = weights /\ attempt \in Nat
        /\ trainingPc' = IF step = 1 THEN "first" ELSE Training!After(step)
    BY <1>4
       DEF Training!Serve, TrainingTyped, AsksForWeights, Training!Load, Training!FirstName
  <2>2. Training!LogBacked' /\ Training!OneTraining'
    BY <2>1, LogKept
  <2>3. controller' # <<"public", 0>>
    BY <2>1
  <2>4. Training!Serving(controller)' = weights'
    BY <2>1, <2>3 DEF Training!Serving, Training!Public
  <2>5. trainingPc' \in {"first", "off", "rollout"} /\ (trainingPc' = "first" => step = 1)
        /\ (trainingPc' = "rollout" => step # 1 /\ step <= TrainingSteps)
    BY <2>1, StepsAssumption DEF Training!After, TrainingTyped
  <2>6. TrainingTyped'
    BY <2>1, <2>5 DEF TrainingTyped
  <2>7. AsksForWeights'
    BY <2>1, <2>4, <2>5 DEF AsksForWeights
  <2>8. LineBefore'
    BY <2>1, <2>5 DEF LineBefore, TrainingTyped
  <2> QED
    BY <2>2, <2>6, <2>7, <2>8
<1>5. CASE Training!First
  <2>1. UNCHANGED <<adapters, attempt, resumed, step, weights, controller, served>>
        /\ trainingPc = "first" /\ log' = Append(log, Training!Line(0, "whole", TRUE))
        /\ step = 1 /\ trainingPc' = "rollout"
    BY <1>5, StepsAssumption DEF Training!First, LineBefore, Training!After
  <2>2. LET line == Training!Line(0, "whole", TRUE)
        IN  line \in TrainingLines /\ line.step = 0 /\ line.text = "whole" /\ line.weights = weights
    <3>1. 0 \in 0..TrainingSteps /\ "whole" \in LogTears \cup {"whole"} /\ TRUE \in BOOLEAN
      BY StepsAssumption
    <3> QED
      BY <3>1, LineWritten
  <2>3. /\ log' \in Seq(TrainingLines) /\ Len(log') > 0
        /\ log'[Len(log')] = Training!Line(0, "whole", TRUE)
        /\ Training!LogBacked' /\ Training!OneTraining'
    BY <2>1, <2>2, LogGrows
  <2>4. TrainingTyped'
    BY <2>1, <2>3, StepsAssumption DEF TrainingTyped
  <2>5. AsksForWeights'
    BY <2>1 DEF AsksForWeights, Training!Serving
  <2>6. LineBefore'
    <3>1. /\ log'[Len(log')].text = "whole" /\ log'[Len(log')].step = 0
          /\ log'[Len(log')].weights = weights'
      BY <2>1, <2>2, <2>3
    <3>2. step' = log'[Len(log')].step + 1
      <4>1. 0 + 1 = 1 /\ step' = 1
        BY <2>1
      <4> QED
        BY <3>1, <4>1
    <3> QED
      BY <2>1, <2>3, <3>1, <3>2 DEF LineBefore
  <2> QED
    BY <2>3, <2>4, <2>5, <2>6
<1>6. CASE Training!Rollout
  <2>1. UNCHANGED <<log, adapters, attempt, resumed, step, weights, controller, served>>
        /\ trainingPc = "rollout" /\ trainingPc' = "update" /\ attempt \in Nat
    BY <1>6 DEF Training!Rollout, TrainingTyped
  <2>2. Training!LogBacked' /\ Training!OneTraining'
    BY <2>1, LogKept
  <2> QED
    BY <2>1, <2>2 DEF TrainingTyped, AsksForWeights, LineBefore
<1>7. CASE Training!Update
  <2>1. UNCHANGED <<log, adapters, attempt, resumed, step, controller, served>>
        /\ trainingPc = "update" /\ trainingPc' = "save" /\ attempt \in Nat
        /\ (weights' = weights \/ weights' = Append(weights, attempt))
    BY <1>7 DEF Training!Update, TrainingTyped
  <2>2. Training!LogBacked' /\ Training!OneTraining'
    BY <2>1, LogKept
  <2>3. weights' \in Histories
    <3>1. ASSUME NEW S, NEW s \in Seq(S), NEW a \in S PROVE Append(s, a) \in Seq(S)
      OBVIOUS
    <3>2. weights \in Seq({"warm", "base"} \cup Nat) /\ attempt \in {"warm", "base"} \cup Nat
      BY <2>1 DEF TrainingTyped, Histories
    <3> QED
      BY <2>1, <3>1, <3>2 DEF Histories
  <2> QED
    BY <2>1, <2>2, <2>3 DEF TrainingTyped, AsksForWeights, LineBefore
<1>8. CASE Training!Save
  <2>1. UNCHANGED <<log, attempt, resumed, step, weights, controller, served>>
        /\ trainingPc = "save" /\ trainingPc' = "load" /\ attempt \in Nat
        /\ adapters' = [adapters EXCEPT ![step] = weights]
        /\ step \in 1..TrainingSteps
    BY <1>8 DEF Training!Save, TrainingTyped
  <2>2. Training!LogBacked' /\ Training!OneTraining'
    <3>1. Training!OneTraining'
      BY <2>1 DEF Training!OneTraining
    <3>2. \A i \in DOMAIN log : i = Len(log) => log[i].step # step
      BY <1>0, <2>1 DEF LineBefore
    <3>3. Training!LogBacked'
      BY <1>0, <2>1, <3>2 DEF Training!LogBacked, TrainingTyped
    <3> QED BY <3>1, <3>3
  <2>3. TrainingTyped'
    BY <2>1 DEF TrainingTyped
  <2> QED
    BY <2>1, <2>2, <2>3 DEF TrainingTyped, AsksForWeights, LineBefore
<1>9. CASE Training!LoadStep
  <2>1. UNCHANGED <<log, adapters, attempt, resumed, step, weights, controller>>
        /\ trainingPc = "load" /\ attempt \in Nat /\ adapters[step] = weights
    BY <1>9 DEF Training!LoadStep, TrainingTyped, AsksForWeights
  <2>2. Training!LogBacked' /\ Training!OneTraining'
    BY <2>1, LogKept
  <2>3. CASE trainingPc' = "unload" /\ Training!Load(<<"step", step>>, adapters[step])
    <3>1. <<"step", step>> # <<"public", 0>>
      OBVIOUS
    <3> QED
      BY <2>1, <2>2, <2>3, <3>1 DEF TrainingTyped, AsksForWeights, LineBefore, Training!Load
  <2>4. CASE trainingPc' = "off"
    BY <2>1, <2>2, <2>4 DEF TrainingTyped, AsksForWeights, LineBefore
  <2> QED
    BY <1>9, <2>3, <2>4 DEF Training!LoadStep, Training!NameOf
<1>10. CASE Training!Unload
  <2>1. UNCHANGED <<log, adapters, attempt, resumed, step, weights>>
        /\ trainingPc = "unload" /\ trainingPc' = "log" /\ attempt \in Nat
        /\ controller' = <<"step", step>>
    BY <1>10 DEF Training!Unload, TrainingTyped, Training!NameOf
  <2>2. Training!LogBacked' /\ Training!OneTraining'
    BY <2>1, LogKept
  <2>3. <<"step", step>> # <<"public", 0>>
    OBVIOUS
  <2>4. <<"step", step>> \in DOMAIN served' /\ served'[<<"step", step>>] = weights
    BY <1>10 DEF Training!Unload, AsksForWeights, Training!Restrict
  <2>5. AsksForWeights'
    BY <2>1, <2>3, <2>4 DEF AsksForWeights, Training!Serving, Training!Public
  <2> QED
    BY <2>1, <2>2, <2>5 DEF TrainingTyped, LineBefore
<1>11. CASE Training!LogStep
  <2>1. UNCHANGED <<adapters, attempt, resumed, weights, controller, served>>
        /\ trainingPc = "log" /\ log' = Append(log, Training!Line(step, "whole", TRUE))
        /\ step' = step + 1 /\ step \in 1..TrainingSteps
        /\ trainingPc' \in {"off", "rollout"}
        /\ (trainingPc' = "rollout" => step + 1 <= TrainingSteps)
    BY <1>11, StepsAssumption DEF Training!LogStep, TrainingTyped, Training!After
  <2>2. LET line == Training!Line(step, "whole", TRUE)
        IN  line \in TrainingLines /\ line.step = step /\ line.text = "whole" /\ line.weights = weights
    <3>1. step \in 0..TrainingSteps /\ "whole" \in LogTears \cup {"whole"} /\ TRUE \in BOOLEAN
      BY <2>1, StepsAssumption
    <3> QED
      BY <3>1, LineWritten
  <2>3. /\ log' \in Seq(TrainingLines) /\ Len(log') > 0
        /\ log'[Len(log')] = Training!Line(step, "whole", TRUE)
        /\ Training!LogBacked' /\ Training!OneTraining'
    BY <2>1, <2>2, LogGrows
  <2>4. TrainingTyped'
    BY <2>1, <2>3, StepsAssumption DEF TrainingTyped
  <2>5. AsksForWeights'
    BY <2>1 DEF AsksForWeights, Training!Serving
  <2>6. LineBefore'
    BY <2>1, <2>2, <2>3 DEF LineBefore
  <2> QED
    BY <2>3, <2>4, <2>5, <2>6
<1>12. CASE Training!Crash
  <2>1. UNCHANGED <<attempt, resumed, step, weights, controller, served>>
        /\ trainingPc # "off" /\ trainingPc' = "off" /\ attempt \in Nat
    BY <1>12 DEF Training!Crash, TrainingTyped
  <2>2. AsksForWeights' /\ LineBefore'
    BY <2>1 DEF AsksForWeights, LineBefore
  <2>3. CASE UNCHANGED <<adapters, log>>
    <3>1. Training!LogBacked' /\ Training!OneTraining'
      BY <2>1, <2>3, LogKept
    <3> QED
      BY <2>1, <2>2, <2>3, <3>1 DEF TrainingTyped
  <2>4. CASE trainingPc = "save" /\ adapters' = [adapters EXCEPT ![step] = << >>] /\ UNCHANGED log
    <3>1. Training!OneTraining'
      BY <2>1, <2>4 DEF Training!OneTraining
    <3>2. \A i \in DOMAIN log : i = Len(log) => log[i].step # step
      BY <1>0, <2>4 DEF LineBefore, TrainingTyped
    <3>3. Training!LogBacked'
      BY <1>0, <2>4, <3>2 DEF Training!LogBacked, TrainingTyped
    <3>4. TrainingTyped'
      BY <2>1, <2>4, GivenWeights DEF TrainingTyped
    <3> QED
      BY <2>2, <3>1, <3>3, <3>4
  <2>5. ASSUME trainingPc \in {"first", "log"}, UNCHANGED adapters, NEW text \in LogTears,
               log' = Append(log, Training!Line(IF trainingPc = "first" THEN 0 ELSE step, text, FALSE))
        PROVE  TrainingInv'
    <3> DEFINE s == IF trainingPc = "first" THEN 0 ELSE step
    <3>1. s \in 0..TrainingSteps
      BY <2>5, StepsAssumption DEF TrainingTyped
    <3>2. LET line == Training!Line(s, text, FALSE)
          IN  line \in TrainingLines /\ line.step = s /\ line.text = text /\ line.weights = weights
      BY <2>5, <3>1, LineWritten
    <3>3. /\ log' \in Seq(TrainingLines) /\ Training!LogBacked' /\ Training!OneTraining'
      BY <2>1, <2>5, <3>2, LogGrows
    <3> QED
      BY <2>1, <2>2, <2>5, <3>3 DEF TrainingTyped
  <2> QED
    BY <1>12, <2>3, <2>4, <2>5 DEF Training!Crash
<1> QED
  BY <1>1, <1>2, <1>3, <1>4, <1>5, <1>6, <1>7, <1>8, <1>9, <1>10, <1>11, <1>12
     DEF Training!Next, Training!Loop, trainingVars

\* What the runs check of the training loop follows.
LEMMA OnPolicyFollows == TrainingInv => OnPolicy /\ OneTraining
BY DEF TrainingInv, AsksForWeights, OnPolicy, OneTraining, Training!OnPolicy

-----------------------------------------------------------------------------
(* The continued fit: the arithmetic of its schedule, and that what a process *)
(* has in memory is on disk, but for the update it is at.                      *)

\* Quotient and remainder.
LEMMA DivMod ==
    ASSUME NEW b \in Nat \ {0}, NEW n \in Int
    PROVE  /\ n \div b \in Int /\ (n % b) \in 0..(b - 1)
           /\ n = b * (n \div b) + (n % b)
OBVIOUS

\* They are the only ones.
LEMMA DivUnique ==
    ASSUME NEW b \in Nat \ {0}, NEW q \in Int, NEW r \in 0..(b - 1)
    PROVE  (b * q + r) \div b = q /\ ((b * q + r) % b) = r
OBVIOUS

\* A larger factor is larger by one at least.
LEMMA MulMono == ASSUME NEW b \in Nat \ {0}, NEW c \in Int, NEW d \in Int, c < d PROVE b * c + b <= b * d
OBVIOUS

\* The batches of an epoch: all of them full, but the last.
LEMMA Epoch ==
    /\ Continuing!PerEpoch \in Nat \ {0}
    /\ FitBatch * (Continuing!PerEpoch - 1) < FitRows
    /\ FitRows <= FitBatch * Continuing!PerEpoch
<1> USE FitAssumption
<1> DEFINE n == FitRows + FitBatch - 1
           q == n \div FitBatch
<1>1. n \in Int /\ n >= FitBatch
  OBVIOUS
<1>2. q \in Int /\ (n % FitBatch) \in 0..(FitBatch - 1) /\ n = FitBatch * q + (n % FitBatch)
  BY <1>1, DivMod
<1> HIDE DEF q
<1>3. q > 0
  <2>1. q <= 0 => FitBatch * q <= 0
    BY <1>2
  <2> QED
    BY <1>1, <1>2, <2>1
<1>4. FitBatch * (q - 1) = FitBatch * q - FitBatch
  BY <1>2
<1> QED
  BY <1>2, <1>3, <1>4 DEF Continuing!PerEpoch, q

FitStates == [step : Nat, epoch : Nat, cursor : Nat, rows : Nat]

\* The fit ends after its epochs, with a step to add to the original one.
LEMMA EndOfFit ==
    /\ Continuing!Endpoint \in Nat /\ Continuing!PerEpoch < Continuing!Endpoint
    /\ Continuing!Endpoint = Continuing!PerEpoch * FitEpochs
<1>1. Continuing!PerEpoch * 1 + Continuing!PerEpoch <= Continuing!PerEpoch * FitEpochs
  BY Epoch, FitAssumption, MulMono
<1> QED
  BY <1>1, Epoch, FitAssumption DEF Continuing!Endpoint

\* The smaller of two numbers.
LEMMA SmallerOf ==
    ASSUME NEW a \in Int, NEW b \in Int
    PROVE  Continuing!Min({a, b}) = IF a <= b THEN a ELSE b
<1> DEFINE m == IF a <= b THEN a ELSE b
<1>1. m \in {a, b} /\ \A y \in {a, b} : m <= y
  OBVIOUS
<1>2. \A x \in {a, b} : (\A y \in {a, b} : x <= y) => x = m
  OBVIOUS
<1> HIDE DEF m
<1>3. Continuing!Min({a, b}) = m
  BY <1>1, <1>2 DEF Continuing!Min
<1> QED
  BY <1>3 DEF m

\* Where a state stands in its epoch: after c full batches.
LEMMA StandsInEpoch ==
    ASSUME NEW s \in FitStates, Continuing!ValidState(s)
    PROVE  \E c \in 0..(Continuing!PerEpoch - 1) :
              /\ s.cursor = FitBatch * c /\ s.step = Continuing!PerEpoch * s.epoch + c
              /\ s.epoch = FitEpochs => c = 0
<1> USE Epoch, FitAssumption
<1> DEFINE c == s.cursor \div FitBatch
<1>1. s.cursor \in 0..(FitRows - 1) /\ s.cursor % FitBatch = 0 /\ s.epoch \in 1..FitEpochs
      /\ s.step = s.epoch * Continuing!PerEpoch + c /\ (s.epoch = FitEpochs => s.cursor = 0)
  BY DEF Continuing!ValidState
<1>2. c \in Int /\ s.cursor = FitBatch * c + (s.cursor % FitBatch)
  <2>1. s.cursor \in Int
    BY <1>1
  <2> HIDE DEF c
  <2>2. c = s.cursor \div FitBatch
    BY DEF c
  <2> QED
    BY <2>1, <2>2, DivMod
<1> HIDE DEF c
<1>3. s.cursor = FitBatch * c
  BY <1>1, <1>2
<1>4. c >= 0
  <2>1. c < 0 => FitBatch * c + FitBatch <= FitBatch * 0
    BY <1>2, MulMono
  <2> QED
    BY <1>1, <1>2, <1>3, <2>1
<1>5. c < Continuing!PerEpoch
  <2>1. Continuing!PerEpoch - 1 < c =>
           FitBatch * (Continuing!PerEpoch - 1) + FitBatch <= FitBatch * c
    BY <1>2, MulMono
  <2>2. FitBatch * (Continuing!PerEpoch - 1) + FitBatch = FitBatch * Continuing!PerEpoch
    OBVIOUS
  <2> QED
    BY <1>1, <1>2, <1>3, <2>1, <2>2
<1>6. s.epoch = FitEpochs => c = 0
  <2>1. c > 0 => FitBatch * 0 + FitBatch <= FitBatch * c
    BY <1>2, MulMono
  <2> QED
    BY <1>1, <1>2, <1>3, <1>4, <2>1
<1>7. s.step = Continuing!PerEpoch * s.epoch + c
  BY <1>1, <1>2 DEF FitStates
<1> QED
  BY <1>2, <1>3, <1>4, <1>5, <1>6, <1>7

\* A valid state is between the original fit and the endpoint.
LEMMA BeforeTheEnd ==
    ASSUME NEW s \in FitStates, Continuing!ValidState(s)
    PROVE  /\ s.step >= Continuing!PerEpoch /\ s.step <= Continuing!Endpoint
           /\ s.step # Continuing!Endpoint => s.epoch < FitEpochs
           /\ s.step = Continuing!Endpoint => s.epoch = FitEpochs
<1> USE Epoch, EndOfFit, FitAssumption
<1>1. PICK c \in 0..(Continuing!PerEpoch - 1) :
         /\ s.step = Continuing!PerEpoch * s.epoch + c
         /\ s.epoch = FitEpochs => c = 0
  BY StandsInEpoch
<1>2. s.epoch \in 1..FitEpochs
  BY DEF Continuing!ValidState
<1>3. s.epoch < FitEpochs =>
         Continuing!PerEpoch * s.epoch + Continuing!PerEpoch <= Continuing!PerEpoch * FitEpochs
  BY <1>2, MulMono
<1>4. 1 < s.epoch =>
         Continuing!PerEpoch * 1 + Continuing!PerEpoch <= Continuing!PerEpoch * s.epoch
  BY <1>2, MulMono
<1>5. Continuing!PerEpoch * s.epoch \in Nat
  BY <1>2
<1> QED
  BY <1>1, <1>2, <1>3, <1>4, <1>5

\* The batch that the schedule has for a state is the one the state is before.
LEMMA ScheduledBatch ==
    ASSUME NEW s \in FitStates, Continuing!ValidState(s), s.step # Continuing!Endpoint
    PROVE  LET i == s.step - Continuing!PerEpoch + 1
           IN  i \in DOMAIN Continuing!Schedule /\ Continuing!Schedule[i] = <<s.epoch, s.cursor>>
<1> USE Epoch, EndOfFit, FitAssumption
<1>1. PICK c \in 0..(Continuing!PerEpoch - 1) :
         s.cursor = FitBatch * c /\ s.step = Continuing!PerEpoch * s.epoch + c
  BY StandsInEpoch
<1> DEFINE i == s.step - Continuing!PerEpoch + 1
<1>2. s.epoch \in Int /\ s.step \in Int
  BY DEF FitStates
<1>3. i \in 1..(Continuing!Endpoint - Continuing!PerEpoch)
  BY <1>2, BeforeTheEnd
<1>4. i - 1 = Continuing!PerEpoch * (s.epoch - 1) + c
  <2>1. Continuing!PerEpoch * (s.epoch - 1) = Continuing!PerEpoch * s.epoch - Continuing!PerEpoch
    BY <1>2
  <2> QED
    BY <1>1, <1>2, <2>1
<1>5. (i - 1) \div Continuing!PerEpoch = s.epoch - 1 /\ ((i - 1) % Continuing!PerEpoch) = c
  <2>1. s.epoch - 1 \in Int
    BY <1>2
  <2>2. (Continuing!PerEpoch * (s.epoch - 1) + c) \div Continuing!PerEpoch = s.epoch - 1
        /\ ((Continuing!PerEpoch * (s.epoch - 1) + c) % Continuing!PerEpoch) = c
    BY <2>1, DivUnique
  <2> QED
    BY <1>4, <2>2
<1>6. Continuing!Schedule[i] =
         <<1 + ((i - 1) \div Continuing!PerEpoch), FitBatch * ((i - 1) % Continuing!PerEpoch)>>
  BY <1>3 DEF Continuing!Schedule
<1>7. 1 + (s.epoch - 1) = s.epoch
  BY <1>2
<1>8. i \in DOMAIN Continuing!Schedule
  BY <1>3 DEF Continuing!Schedule
<1> QED
  BY <1>1, <1>5, <1>6, <1>7, <1>8

\* Advancing by a batch leads to a valid state, one step on.
LEMMA AdvanceIsValid ==
    ASSUME NEW s \in FitStates, Continuing!ValidState(s), s.step # Continuing!Endpoint
    PROVE  /\ Continuing!Advance(s) \in FitStates /\ Continuing!ValidState(Continuing!Advance(s))
           /\ Continuing!Advance(s).step = s.step + 1
<1> USE Epoch, EndOfFit, FitAssumption
<1>1. PICK c \in 0..(Continuing!PerEpoch - 1) :
         s.cursor = FitBatch * c /\ s.step = Continuing!PerEpoch * s.epoch + c
  BY StandsInEpoch
<1>2. /\ s.epoch \in 1..FitEpochs /\ s.epoch < FitEpochs /\ s.step \in Nat
      /\ s.cursor \in 0..(FitRows - 1) /\ s.rows = s.epoch * FitRows + s.cursor /\ s.rows \in Nat
  BY BeforeTheEnd DEF Continuing!ValidState, FitStates
<1> DEFINE size == Continuing!BatchSize(s)
           a == Continuing!Advance(s)
<1>3. size = IF FitBatch <= FitRows - s.cursor THEN FitBatch ELSE FitRows - s.cursor
  BY <1>2, SmallerOf DEF Continuing!BatchSize
<1>4. a = [step |-> s.step + 1,
           epoch |-> IF s.cursor + size = FitRows THEN s.epoch + 1 ELSE s.epoch,
           cursor |-> IF s.cursor + size = FitRows THEN 0 ELSE s.cursor + size,
           rows |-> s.rows + size]
  BY DEF Continuing!Advance
<1> HIDE DEF size, a
<1>5. size \in 1..FitRows /\ s.cursor + size <= FitRows
  BY <1>2, <1>3
<1>6. a.step = s.step + 1 /\ a \in FitStates
  BY <1>2, <1>4, <1>5 DEF FitStates
<1>7. CASE s.cursor + size = FitRows
  <2>1. a.epoch = s.epoch + 1 /\ a.cursor = 0 /\ a.rows = s.rows + size
    BY <1>4, <1>7
  <2>2. c = Continuing!PerEpoch - 1
    <3>1. FitBatch * c + FitBatch >= FitRows
      BY <1>1, <1>2, <1>3, <1>7
    <3>2. c < Continuing!PerEpoch - 1 =>
             FitBatch * c + FitBatch <= FitBatch * (Continuing!PerEpoch - 1)
      BY MulMono
    <3> QED
      BY <3>1, <3>2
  <2>3. 0 % FitBatch = 0 /\ 0 \div FitBatch = 0
    <3>1. FitBatch * 0 + 0 = 0 /\ 0 \in 0..(FitBatch - 1)
      OBVIOUS
    <3> QED
      BY <3>1, DivUnique
  <2>4. a.step = a.epoch * Continuing!PerEpoch + (a.cursor \div FitBatch)
    BY <1>1, <1>2, <1>6, <2>1, <2>2, <2>3
  <2>5. a.rows = a.epoch * FitRows + a.cursor
    BY <1>2, <1>5, <1>7, <2>1
  <2> QED
    <3>1. a.epoch \in 1..FitEpochs /\ a.cursor \in 0..(FitRows - 1)
      BY <1>2, <2>1
    <3>2. (a.cursor % FitBatch) = 0
      BY <2>1, <2>3
    <3>3. Continuing!ValidState(a)
      BY <2>1, <2>4, <2>5, <3>1, <3>2, Zenon DEF Continuing!ValidState
    <3> QED
      BY <1>6, <3>3 DEF a
<1>8. CASE s.cursor + size # FitRows
  <2>1. size = FitBatch /\ s.cursor + FitBatch < FitRows
    BY <1>2, <1>3, <1>5, <1>8
  <2>2. a.epoch = s.epoch /\ a.cursor = FitBatch * (c + 1) /\ a.rows = s.rows + FitBatch
    BY <1>1, <1>4, <1>8, <2>1
  <2>3. a.cursor % FitBatch = 0 /\ a.cursor \div FitBatch = c + 1
    <3>1. FitBatch * (c + 1) + 0 = a.cursor /\ 0 \in 0..(FitBatch - 1) /\ c + 1 \in Int
      BY <2>2
    <3> QED
      BY <3>1, DivUnique
  <2>4. a.cursor \in 0..(FitRows - 1)
    BY <1>1, <1>2, <2>1, <2>2
  <2>5. a.step = a.epoch * Continuing!PerEpoch + (a.cursor \div FitBatch)
    BY <1>1, <1>2, <1>6, <2>2, <2>3
  <2>6. a.rows = a.epoch * FitRows + a.cursor
    BY <1>1, <1>2, <2>1, <2>2
  <2> QED
    <3>1. a.epoch \in 1..FitEpochs /\ a.epoch # FitEpochs
      BY <1>2, <2>2
    <3>2. Continuing!ValidState(a)
      BY <2>3, <2>4, <2>5, <2>6, <3>1, Zenon DEF Continuing!ValidState
    <3> QED
      BY <1>6, <3>2 DEF a
<1> QED
  BY <1>7, <1>8

Moves == [by : FitProcesses, batch : Nat \X Nat]

FitStages ==
    {"idle", "restore", "owners", "lock", "train", "receipt", "commit", "finally", "ended"}

FitMemory == [pc : FitStages, state : FitStates, lineage : Seq(Moves), failed : BOOLEAN]

\* A state, and the updates that made it: the batches of the schedule, in order.
FollowsSchedule(state, lineage) ==
    /\ state \in FitStates /\ Continuing!ValidState(state)
    /\ lineage \in Seq(Moves) /\ Len(lineage) = state.step - Continuing!PerEpoch
    /\ \A i \in DOMAIN lineage : lineage[i].batch = Continuing!Schedule[i]

\* The checkpoint of the step before has the updates before the last one.
Extends(s, lineage) ==
    s > Continuing!PerEpoch + 1 =>
        s - 1 \in DOMAIN checkpoints /\ checkpoints[s - 1].lineage = SubSeq(lineage, 1, Len(lineage) - 1)

FitTyped ==
    /\ fits \in [FitProcesses -> FitMemory]
    /\ \E m \in Nat : /\ m >= Continuing!PerEpoch
                      /\ DOMAIN checkpoints = (Continuing!PerEpoch + 1)..m
    /\ checkpoints = [s \in DOMAIN checkpoints |-> checkpoints[s]]
    /\ DOMAIN checkpoints \subseteq DOMAIN receipts

MemoryFollows == \A p \in FitProcesses : FollowsSchedule(fits[p].state, fits[p].lineage)

CheckpointsFollow ==
    \A s \in DOMAIN checkpoints :
        /\ FollowsSchedule(checkpoints[s].state, checkpoints[s].lineage)
        /\ checkpoints[s].state.step = s /\ Extends(s, checkpoints[s].lineage)
        /\ receipts[s].by = checkpoints[s].lineage[Len(checkpoints[s].lineage)].by

\* What a process has in memory is on disk, but for the update it is at.
Backed(p) ==
    LET f == fits[p]
        s == fits[p].state.step
    IN  /\ f.pc \in {"owners", "lock", "train"} /\ s # Continuing!PerEpoch =>
              s \in DOMAIN checkpoints /\ checkpoints[s].lineage = f.lineage
        /\ f.pc \in {"receipt", "commit"} =>
              /\ s > Continuing!PerEpoch /\ f.lineage[Len(f.lineage)].by = p
              /\ Extends(s, f.lineage)
        /\ f.pc = "commit" =>
              s \in DOMAIN receipts \ DOMAIN checkpoints /\ receipts[s].by = p
        /\ f.pc = "finally" /\ ~f.failed => Continuing!Endpoint \in DOMAIN checkpoints

MemoryBacked == \A p \in FitProcesses : Backed(p)

ReceiptsFollow ==
    \A s \in DOMAIN receipts :
        receipts[s].rows =
            Continuing!Min({FitBatch, FitRows - Continuing!Schedule[s - Continuing!PerEpoch][2]})

CompleteBacked ==
    \A p \in DOMAIN terminals :
        terminals[p].complete => Continuing!Endpoint \in DOMAIN checkpoints

FitInv ==
    FitTyped /\ MemoryFollows /\ CheckpointsFollow /\ MemoryBacked /\ ReceiptsFollow /\ CompleteBacked

\* The original fit, from which the first process continues.
LEMMA OriginalIsValid ==
    /\ Continuing!Original \in FitStates /\ Continuing!ValidState(Continuing!Original)
    /\ Continuing!Original.step = Continuing!PerEpoch
    /\ FollowsSchedule(Continuing!Original, << >>)
<1> USE Epoch, FitAssumption
<1> DEFINE o == Continuing!Original
<1>1. o.step = Continuing!PerEpoch /\ o.epoch = 1 /\ o.cursor = 0 /\ o.rows = FitRows
      /\ o \in FitStates
  BY DEF Continuing!Original, FitStates
<1> HIDE DEF o
<1>2. 0 \div FitBatch = 0 /\ (0 % FitBatch) = 0
  <2>1. FitBatch * 0 + 0 = 0 /\ 0 \in 0..(FitBatch - 1)
    OBVIOUS
  <2> QED
    BY <2>1, DivUnique
<1>3. Continuing!ValidState(o)
  BY <1>1, <1>2 DEF Continuing!ValidState
<1>4. << >> \in Seq(Moves) /\ Len(<< >>) = 0 /\ DOMAIN << >> = {}
  OBVIOUS
<1>5. FollowsSchedule(o, << >>)
  BY <1>1, <1>3, <1>4 DEF FollowsSchedule
<1> QED
  BY <1>1, <1>3, <1>5 DEF o

\* Nothing is written yet.
LEMMA FitBegins == Continuing!Init => FitInv
<1> SUFFICES ASSUME Continuing!Init PROVE FitInv
  OBVIOUS
<1> USE DEF Continuing!Init, Continuing!Idle
<1>1. DOMAIN checkpoints = {} /\ DOMAIN receipts = {} /\ DOMAIN terminals = {}
  OBVIOUS
<1>2. \A p \in FitProcesses : fits[p] \in FitMemory /\ fits[p].state = Continuing!Original
        /\ fits[p].lineage = << >> /\ fits[p].pc = "idle"
  <2>1. << >> \in Seq(Moves)
    OBVIOUS
  <2> QED
    BY <2>1, OriginalIsValid DEF FitMemory, FitStages
<1>3. FitTyped
  <2>1. (Continuing!PerEpoch + 1)..Continuing!PerEpoch = {}
    BY Epoch
  <2>2. fits \in [FitProcesses -> FitMemory]
    BY <1>2
  <2>3. checkpoints = [s \in DOMAIN checkpoints |-> checkpoints[s]]
    BY <1>1
  <2>4. Continuing!PerEpoch \in Nat /\ Continuing!PerEpoch >= Continuing!PerEpoch
        /\ DOMAIN checkpoints = (Continuing!PerEpoch + 1)..Continuing!PerEpoch
    BY <1>1, <2>1, Epoch
  <2>5. \E m \in Nat : /\ m >= Continuing!PerEpoch
                       /\ DOMAIN checkpoints = (Continuing!PerEpoch + 1)..m
    BY <2>4, Zenon
  <2>6. DOMAIN checkpoints \subseteq DOMAIN receipts
    BY <1>1
  <2> QED
    BY <2>2, <2>3, <2>5, <2>6, Zenon DEF FitTyped
<1>4. MemoryFollows
  BY <1>2, OriginalIsValid DEF MemoryFollows
<1>5. CheckpointsFollow /\ ReceiptsFollow /\ CompleteBacked
  BY <1>1 DEF CheckpointsFollow, ReceiptsFollow, CompleteBacked
<1>6. MemoryBacked
  BY <1>2 DEF MemoryBacked, Backed
<1> QED
  BY <1>3, <1>4, <1>5, <1>6 DEF FitInv

\* A process that moves on keeps what it has in memory, and so do the others.
OnlyStage(p) ==
    /\ fits' \in [FitProcesses -> FitMemory]
    /\ fits'[p].state = fits[p].state /\ fits'[p].lineage = fits[p].lineage
    /\ \A q \in FitProcesses : q # p => fits'[q] = fits[q]

\* What going on to another stage leaves of the process, and of the others.
LEMMA FitGoes ==
    ASSUME FitTyped, NEW p \in FitProcesses, NEW to \in FitStages, Continuing!Goes(p, to)
    PROVE  OnlyStage(p) /\ fits'[p].pc = to /\ fits'[p].failed = fits[p].failed
BY DEF FitTyped, Continuing!Goes, FitMemory, OnlyStage

\* A failing process goes to its TERMINAL file, and keeps what it has.
LEMMA FitFails ==
    ASSUME FitTyped, NEW p \in FitProcesses, Continuing!Fails(p)
    PROVE  OnlyStage(p) /\ fits'[p].pc = "finally" /\ fits'[p].failed
<1>1. "finally" \in FitStages
  BY DEF FitStages
<1> QED
  BY <1>1 DEF FitTyped, Continuing!Fails, FitMemory, OnlyStage

FitFilesKept == UNCHANGED <<receipts, checkpoints>>

\* The invariants of a step that only moves on: what the new stage asks for.
LEMMA FitMovesOn ==
    ASSUME FitInv, NEW p \in FitProcesses, OnlyStage(p), FitFilesKept,
           \/ fits'[p].pc \in {"idle", "restore", "ended"}
           \/ fits'[p].pc = "finally" /\ fits'[p].failed
           \/ fits[p].pc \in {"owners", "lock", "train"} /\ fits'[p].pc \in {"owners", "lock", "train"}
           \/ fits'[p].pc = "finally" /\ Continuing!Endpoint \in DOMAIN checkpoints
    PROVE  FitTyped' /\ MemoryFollows' /\ CheckpointsFollow' /\ MemoryBacked' /\ ReceiptsFollow'
<1> USE DEF FitInv, OnlyStage, FitFilesKept
<1>1. FitTyped'
  BY DEF FitTyped
<1>2. MemoryFollows'
  BY DEF MemoryFollows, FollowsSchedule
<1>3. CheckpointsFollow'
  BY DEF CheckpointsFollow, FollowsSchedule, Extends
<1>4. MemoryBacked'
  BY DEF MemoryBacked, Backed, Extends
<1>5. ReceiptsFollow'
  BY DEF ReceiptsFollow
<1> QED
  BY <1>1, <1>2, <1>3, <1>4, <1>5

\* The last of the committed checkpoints.
LEMMA LastCheckpoint ==
    ASSUME NEW m \in Nat, NEW low \in Nat, low <= m
    PROVE  Continuing!Max(low..m) = m
<1>1. m \in low..m /\ \A y \in low..m : m >= y
  OBVIOUS
<1>2. \A x \in low..m : (\A y \in low..m : x >= y) => x = m
  OBVIOUS
<1> QED
  BY <1>1, <1>2 DEF Continuing!Max

\* A process restores the last checkpoint, or the original fit.
LEMMA FitRestores ==
    ASSUME FitInv, NEW p \in FitProcesses, NEW resume \in BOOLEAN, Continuing!Restore(p, resume)
    PROVE  FitInv'
<1> USE Epoch
<1>0. FitTyped
  BY DEF FitInv
<1>1. UNCHANGED <<receipts, checkpoints, terminals>>
  BY DEF Continuing!Restore
<1>2. CompleteBacked'
  BY <1>1 DEF FitInv, CompleteBacked
<1>3. CASE Continuing!Goes(p, "ended")
  <2>1. OnlyStage(p) /\ fits'[p].pc = "ended"
    BY <1>0, <1>3, FitGoes DEF FitStages
  <2> QED
    BY <1>1, <1>2, <2>1, FitMovesOn DEF FitInv, FitFilesKept
<1> DEFINE last == IF checkpoints = << >>
                   THEN [state |-> Continuing!Original, lineage |-> << >>]
                   ELSE checkpoints[Continuing!Max(DOMAIN checkpoints)]
<1>4. CASE fits' = [fits EXCEPT ![p].pc = "owners", ![p].state = last.state,
                                ![p].lineage = last.lineage]
  <2>1. /\ FollowsSchedule(last.state, last.lineage)
        /\ last.state.step # Continuing!PerEpoch =>
              /\ last.state.step \in DOMAIN checkpoints
              /\ checkpoints[last.state.step].lineage = last.lineage
    <3>1. CASE checkpoints = << >>
      <4>1. last.state = Continuing!Original /\ last.lineage = << >>
        BY <3>1
      <4> HIDE DEF last
      <4> QED
        BY <4>1, OriginalIsValid
    <3>2. CASE checkpoints # << >>
      <4>1. PICK m \in Nat : /\ m >= Continuing!PerEpoch
                             /\ DOMAIN checkpoints = (Continuing!PerEpoch + 1)..m
        BY <1>0 DEF FitTyped
      <4>2. m >= Continuing!PerEpoch + 1
        <5>1. SUFFICES ASSUME m = Continuing!PerEpoch PROVE FALSE
          BY <4>1
        <5>2. DOMAIN checkpoints = {}
          BY <4>1, <5>1
        <5>3. checkpoints = << >>
          BY <1>0, <5>2 DEF FitTyped
        <5> QED
          BY <3>2, <5>3
      <4>3. Continuing!Max(DOMAIN checkpoints) = m
        BY <4>1, <4>2, LastCheckpoint
      <4>4. last = checkpoints[m] /\ m \in DOMAIN checkpoints
        BY <3>2, <4>1, <4>2, <4>3
      <4> HIDE DEF last
      <4> QED
        BY <4>4 DEF FitInv, CheckpointsFollow
    <3> QED
      BY <3>1, <3>2
  <2> HIDE DEF last
  <2>2. /\ fits' \in [FitProcesses -> FitMemory]
        /\ fits'[p].pc = "owners"
        /\ fits'[p].state = last.state /\ fits'[p].lineage = last.lineage
        /\ \A q \in FitProcesses : q # p => fits'[q] = fits[q]
    BY ZenonT(60), <1>0, <1>4, <2>1 DEF FitTyped, FitMemory, FitStages, FollowsSchedule
  <2>3. FitTyped'
    BY <1>0, <1>1, <2>2 DEF FitTyped
  <2>4. MemoryFollows'
    BY <2>1, <2>2 DEF FitInv, MemoryFollows, FollowsSchedule
  <2>5. CheckpointsFollow'
    BY <1>1 DEF FitInv, CheckpointsFollow, FollowsSchedule, Extends
  <2>6. MemoryBacked'
    <3>1. ASSUME NEW q \in FitProcesses, q # p PROVE Backed(q)'
      <4>1. Backed(q) /\ fits'[q] = fits[q]
        BY <2>2, <3>1 DEF FitInv, MemoryBacked
      <4> QED
        BY <1>1, <4>1 DEF Backed, Extends
    <3>2. Backed(p)'
      <4>1. /\ fits'[p].pc = "owners"
            /\ fits'[p].state = last.state /\ fits'[p].lineage = last.lineage
        BY <2>2
      <4>2. last.state.step # Continuing!PerEpoch =>
               /\ last.state.step \in DOMAIN checkpoints'
               /\ checkpoints'[last.state.step].lineage = last.lineage
        BY <1>1, <2>1
      <4> QED
        BY <4>1, <4>2 DEF Backed
    <3> QED
      BY <3>1, <3>2 DEF MemoryBacked
  <2>7. ReceiptsFollow'
    BY <1>1 DEF FitInv, ReceiptsFollow
  <2> QED
    BY <1>2, <2>3, <2>4, <2>5, <2>6, <2>7 DEF FitInv
<1> QED
  BY <1>3, <1>4 DEF Continuing!Restore

\* An update takes the next batch of the schedule.
LEMMA FitUpdates ==
    ASSUME FitInv, NEW p \in FitProcesses, Continuing!Update(p)
    PROVE  FitInv'
<1> USE Epoch
<1> DEFINE s == fits[p].state
           l == fits[p].lineage
           move == [by |-> p, batch |-> <<s.epoch, s.cursor>>]
<1>1. /\ fits[p].pc = "train" /\ s.step # Continuing!Endpoint
      /\ UNCHANGED <<receipts, checkpoints, terminals>>
      /\ fits' = [fits EXCEPT ![p].pc = "receipt", ![p].state = Continuing!Advance(s),
                              ![p].lineage = Append(l, move)]
  BY DEF Continuing!Update, Continuing!At, FitInv, FitTyped, FitMemory
<1>2. s \in FitStates /\ Continuing!ValidState(s) /\ l \in Seq(Moves)
      /\ Len(l) = s.step - Continuing!PerEpoch
      /\ \A i \in DOMAIN l : l[i].batch = Continuing!Schedule[i]
  BY DEF FitInv, MemoryFollows, FollowsSchedule
<1>3. /\ Continuing!Advance(s) \in FitStates /\ Continuing!ValidState(Continuing!Advance(s))
      /\ Continuing!Advance(s).step = s.step + 1
  BY <1>1, <1>2, AdvanceIsValid
<1>4. s.step \in Nat /\ s.step >= Continuing!PerEpoch
      /\ s.epoch \in Nat /\ s.cursor \in Nat
  BY <1>2, BeforeTheEnd DEF FitStates
<1>5. Continuing!Schedule[Len(l) + 1] = <<s.epoch, s.cursor>>
  BY <1>1, <1>2, <1>4, ScheduledBatch
<1>6. s.step # Continuing!PerEpoch => s.step \in DOMAIN checkpoints /\ checkpoints[s.step].lineage = l
  BY <1>1 DEF FitInv, MemoryBacked, Backed
<1> DEFINE a == Continuing!Advance(s)
           longer == Append(l, move)
<1> HIDE DEF s, l, a
<1>7. move \in Moves
  BY <1>4 DEF Moves
<1>8. /\ longer \in Seq(Moves) /\ Len(longer) = Len(l) + 1 /\ longer[Len(longer)] = move
      /\ SubSeq(longer, 1, Len(longer) - 1) = l
      /\ \A i \in DOMAIN l : longer[i] = l[i]
  BY <1>2, <1>7
<1>9. FollowsSchedule(a, longer)
  <2>1. Len(longer) = a.step - Continuing!PerEpoch
    BY <1>2, <1>3, <1>4, <1>8 DEF a
  <2>2. move.batch = Continuing!Schedule[Len(l) + 1]
    BY <1>5
  <2>3. ASSUME NEW i \in DOMAIN longer PROVE longer[i].batch = Continuing!Schedule[i]
    <3>1. i \in DOMAIN l \/ i = Len(l) + 1
      BY <1>2, <1>8
    <3> QED
      BY <1>2, <1>8, <2>2, <3>1
  <2> HIDE DEF longer
  <2> QED
    BY <1>3, <1>8, <2>1, <2>3 DEF FollowsSchedule, a
<1>10. /\ fits' \in [FitProcesses -> FitMemory]
       /\ fits'[p].pc = "receipt" /\ fits'[p].state = a /\ fits'[p].lineage = longer
       /\ \A q \in FitProcesses : q # p => fits'[q] = fits[q]
  <2>1. fits \in [FitProcesses -> FitMemory] /\ longer \in Seq(Moves) /\ a \in FitStates
    BY <1>3, <1>8 DEF FitInv, FitTyped, a
  <2>2. fits' = [fits EXCEPT ![p].pc = "receipt", ![p].state = a, ![p].lineage = longer]
    BY <1>1 DEF a, s, l
  <2> HIDE DEF longer
  <2> QED
    BY <2>1, <2>2 DEF FitMemory, FitStages
<1>11. a.step > Continuing!PerEpoch /\ longer[Len(longer)].by = p
       /\ Extends(a.step, longer)
  <2>1. move.by = p /\ a.step = s.step + 1
    BY <1>3 DEF a
  <2> HIDE DEF longer, move
  <2> QED
    BY <1>4, <1>6, <1>8, <2>1 DEF Extends
<1> HIDE DEF longer
<1>12. FitTyped'
  BY <1>1, <1>10 DEF FitInv, FitTyped
<1>13. MemoryFollows'
  BY <1>9, <1>10 DEF FitInv, MemoryFollows, FollowsSchedule
<1>14. CheckpointsFollow'
  BY <1>1 DEF FitInv, CheckpointsFollow, FollowsSchedule, Extends
<1>15. MemoryBacked'
  BY <1>1, <1>10, <1>11 DEF FitInv, MemoryBacked, Backed, Extends
<1>16. ReceiptsFollow' /\ CompleteBacked'
  BY <1>1 DEF FitInv, ReceiptsFollow, CompleteBacked
<1> QED
  BY <1>12, <1>13, <1>14, <1>15, <1>16 DEF FitInv

\* A receipt is of the step that its process took, and of no step with a file.
LEMMA FitReceipts ==
    ASSUME FitInv, NEW p \in FitProcesses, Continuing!WriteReceipt(p)
    PROVE  FitInv'
<1> USE Epoch
<1>0. FitTyped
  BY DEF FitInv
<1> DEFINE s == fits[p].state.step
           l == fits[p].lineage
<1>1. fits[p].pc = "receipt" /\ UNCHANGED <<checkpoints, terminals>>
  BY DEF Continuing!WriteReceipt, Continuing!At
<1>2. CASE s \in DOMAIN receipts
  <2>1. Continuing!Fails(p) /\ UNCHANGED receipts
    BY <1>2 DEF Continuing!WriteReceipt
  <2>2. OnlyStage(p) /\ fits'[p].pc = "finally" /\ fits'[p].failed
    BY <1>0, <2>1, FitFails
  <2>3. CompleteBacked'
    BY <1>1 DEF FitInv, CompleteBacked
  <2> QED
    BY <1>1, <2>1, <2>2, <2>3, FitMovesOn DEF FitInv, FitFilesKept
<1>3. CASE s \notin DOMAIN receipts
  <2> DEFINE amount == Continuing!Min({FitBatch, FitRows - Continuing!Last(l).batch[2]})
             receipt == [by |-> p, rows |-> amount]
  <2>1. /\ receipts' = [i \in DOMAIN receipts \cup {s} |-> IF i = s THEN receipt ELSE receipts[i]]
        /\ Continuing!Goes(p, "commit")
    BY <1>3 DEF Continuing!WriteReceipt
  <2>2. OnlyStage(p) /\ fits'[p].pc = "commit" /\ fits'[p].failed = fits[p].failed
    BY <1>0, <2>1, FitGoes DEF FitStages
  <2>3. /\ s > Continuing!PerEpoch /\ Extends(s, l)
        /\ Len(l) = s - Continuing!PerEpoch /\ s \in Nat /\ l \in Seq(Moves)
        /\ l[Len(l)].by = p
        /\ \A i \in DOMAIN l : l[i].batch = Continuing!Schedule[i]
    BY <1>1 DEF FitInv, MemoryFollows, FollowsSchedule, MemoryBacked, Backed, FitStates
  <2>4. Continuing!Last(l).batch = Continuing!Schedule[s - Continuing!PerEpoch]
    <3>1. Len(l) \in DOMAIN l
      BY <2>3
    <3> QED
      BY <2>3, <3>1 DEF Continuing!Last
  <2>5. receipt.by = p /\ receipt.rows =
           Continuing!Min({FitBatch, FitRows - Continuing!Schedule[s - Continuing!PerEpoch][2]})
    BY <2>4
  <2> HIDE DEF receipt, s, l
  <2>6. /\ DOMAIN receipts' = DOMAIN receipts \cup {s} /\ receipts'[s] = receipt
        /\ \A i \in DOMAIN receipts : receipts'[i] = receipts[i]
    BY <1>3, <2>1
  <2>7. FitTyped'
    BY <1>0, <1>1, <2>2, <2>6 DEF FitTyped, OnlyStage
  <2>8. MemoryFollows'
    BY <2>2 DEF FitInv, MemoryFollows, FollowsSchedule, OnlyStage
  <2>9. CheckpointsFollow'
    BY SMTT(30), <1>0, <1>1, <2>6 DEF FitInv, FitTyped, CheckpointsFollow, FollowsSchedule, Extends
  <2>10. MemoryBacked'
    <3>1. s \notin DOMAIN checkpoints
      BY <1>0, <1>3 DEF FitTyped
    <3>2. fits'[p].state.step = s /\ fits'[p].lineage = l
      BY <2>2 DEF OnlyStage, s, l
    <3>3. ASSUME NEW q \in FitProcesses, q # p
          PROVE  Backed(q)'
      <4>1. fits'[q] = fits[q]
        BY <2>2, <3>3 DEF OnlyStage
      <4>2. Backed(q)
        BY DEF FitInv, MemoryBacked
      <4> QED
        BY <1>1, <2>6, <4>1, <4>2 DEF Backed, Extends
    <3>4. receipts'[s].by = p /\ s \in DOMAIN receipts'
      BY <2>5, <2>6
    <3>5. Extends(s, l)
      BY <2>3
    <3>6. Backed(p)'
      BY <1>1, <2>2, <2>3, <3>1, <3>2, <3>4, <3>5 DEF Backed, Extends
    <3> QED
      BY <3>3, <3>6 DEF MemoryBacked
  <2>11. ReceiptsFollow'
    BY <2>5, <2>6 DEF FitInv, ReceiptsFollow
  <2>12. CompleteBacked'
    BY <1>1 DEF FitInv, CompleteBacked
  <2> QED
    BY <2>7, <2>8, <2>9, <2>10, <2>11, <2>12 DEF FitInv
<1> QED
  BY <1>2, <1>3

\* A checkpoint is the one after the last: its process has the receipt of the step,
\* and no other process can have it.
LEMMA FitCommits ==
    ASSUME FitInv, NEW p \in FitProcesses, Continuing!SaveCheckpoint(p)
    PROVE  FitInv'
<1> USE Epoch
<1>0. FitTyped
  BY DEF FitInv
<1>13. PICK s, l : s = fits[p].state.step /\ l = fits[p].lineage
  OBVIOUS
<1> DEFINE new == [state |-> fits[p].state, lineage |-> fits[p].lineage]
<1>1. /\ fits[p].pc = "commit" /\ UNCHANGED <<receipts, terminals>>
      /\ checkpoints' = [i \in DOMAIN checkpoints \cup {s} |->
                            IF i = s THEN new ELSE checkpoints[i]]
      /\ Continuing!Goes(p, "train")
  BY <1>13 DEF Continuing!SaveCheckpoint, Continuing!At
<1>2. OnlyStage(p) /\ fits'[p].pc = "train"
  BY <1>0, <1>1, FitGoes DEF FitStages
<1>3. /\ s > Continuing!PerEpoch /\ Extends(s, l) /\ s \in Nat
      /\ l[Len(l)].by = p
      /\ s \in DOMAIN receipts /\ s \notin DOMAIN checkpoints /\ receipts[s].by = p
      /\ FollowsSchedule(fits[p].state, l)
  BY <1>1, <1>13 DEF FitInv, MemoryFollows, FollowsSchedule, MemoryBacked, Backed, FitStates
<1>4. new.state = fits[p].state /\ new.lineage = l
  BY <1>13
<1>6. fits'[p].state.step = s /\ fits'[p].lineage = l
  BY <1>2, <1>13 DEF OnlyStage
<1> HIDE DEF new
<1>7. /\ DOMAIN checkpoints' = DOMAIN checkpoints \cup {s} /\ checkpoints'[s] = new
      /\ \A i \in DOMAIN checkpoints : checkpoints'[i] = checkpoints[i]
  BY <1>1, <1>3
<1>8. FitTyped'
  <2>1. PICK m \in Nat : /\ m >= Continuing!PerEpoch
                         /\ DOMAIN checkpoints = (Continuing!PerEpoch + 1)..m
    BY <1>0 DEF FitTyped
  <2>2. s = m + 1
    BY <1>3, <2>1 DEF Extends
  <2>3. m + 1 \in Nat /\ m + 1 >= Continuing!PerEpoch
        /\ DOMAIN checkpoints' = (Continuing!PerEpoch + 1)..(m + 1)
    BY <1>7, <2>1, <2>2
  <2>4. \E n \in Nat : n >= Continuing!PerEpoch
                       /\ DOMAIN checkpoints' = (Continuing!PerEpoch + 1)..n
    BY <2>3, Zenon
  <2>5. checkpoints' = [i \in DOMAIN checkpoints' |-> checkpoints'[i]]
    BY <1>1
  <2>6. DOMAIN checkpoints' \subseteq DOMAIN receipts'
    BY <1>0, <1>1, <1>3, <1>7 DEF FitTyped
  <2>7. fits' \in [FitProcesses -> FitMemory]
    BY <1>2 DEF OnlyStage
  <2> QED
    BY <2>4, <2>5, <2>6, <2>7, Zenon DEF FitTyped
<1>9. MemoryFollows'
  BY <1>2 DEF FitInv, MemoryFollows, FollowsSchedule, OnlyStage
<1>10. CheckpointsFollow'
  <2>1. ASSUME NEW i \in DOMAIN checkpoints
        PROVE  /\ FollowsSchedule(checkpoints'[i].state, checkpoints'[i].lineage)
               /\ checkpoints'[i].state.step = i
               /\ receipts'[i].by = checkpoints'[i].lineage[Len(checkpoints'[i].lineage)].by
    BY <1>1, <1>7 DEF FitInv, CheckpointsFollow
  <2>2. ASSUME NEW i \in DOMAIN checkpoints PROVE Extends(i, checkpoints[i].lineage)'
    BY <1>7 DEF FitInv, CheckpointsFollow, Extends
  <2>3. /\ FollowsSchedule(checkpoints'[s].state, checkpoints'[s].lineage)
        /\ checkpoints'[s].state.step = s
        /\ receipts'[s].by = checkpoints'[s].lineage[Len(checkpoints'[s].lineage)].by
    BY <1>1, <1>3, <1>4, <1>7, <1>13
  <2>4. Extends(s, checkpoints[s].lineage)'
    <3>1. checkpoints'[s].lineage = l
      BY <1>4, <1>7
    <3>2. s > Continuing!PerEpoch + 1 =>
             s - 1 \in DOMAIN checkpoints /\ checkpoints[s - 1].lineage = SubSeq(l, 1, Len(l) - 1)
      BY <1>3 DEF Extends
    <3> QED
      BY <1>7, <3>1, <3>2 DEF Extends
  <2> QED
    BY <1>7, <2>1, <2>2, <2>3, <2>4 DEF CheckpointsFollow, FollowsSchedule, Extends
<1>11. MemoryBacked'
  <2>1. fits'[p].pc = "train" /\ \A q \in FitProcesses : q # p => fits'[q] = fits[q]
    BY <1>2 DEF OnlyStage
  <2>2. \A q \in FitProcesses : q # p /\ fits[q].pc = "commit" => fits[q].state.step # s
    BY <1>3 DEF FitInv, MemoryBacked, Backed
  <2>3. ASSUME NEW q \in FitProcesses, q # p PROVE Backed(q)'
    <3>1. Backed(q) /\ fits'[q] = fits[q]
      BY <2>1, <2>3 DEF FitInv, MemoryBacked
    <3> QED
      BY <1>1, <1>7, <2>2, <2>3, <3>1 DEF Backed, Extends
  <2>4. Backed(p)'
    <3>1. s \in DOMAIN checkpoints' /\ checkpoints'[s].lineage = l
      BY <1>4, <1>7
    <3> QED
      BY <1>6, <2>1, <3>1 DEF Backed
  <2> QED
    BY <2>3, <2>4 DEF MemoryBacked
<1>12. ReceiptsFollow' /\ CompleteBacked'
  BY <1>1, <1>7 DEF FitInv, ReceiptsFollow, CompleteBacked
<1> QED
  BY <1>8, <1>9, <1>10, <1>11, <1>12 DEF FitInv

\* Every step of a process, and its death, keeps the invariant.
LEMMA FitContinues == FitInv /\ [Continuing!Next]_fitVars => FitInv'
<1> SUFFICES ASSUME FitInv, [Continuing!Next]_fitVars PROVE FitInv'
  OBVIOUS
<1>0. FitTyped
  BY DEF FitInv
<1>1. CASE UNCHANGED fitVars
  BY <1>1 DEF fitVars, FitInv, FitTyped, MemoryFollows, CheckpointsFollow, MemoryBacked,
              Backed, ReceiptsFollow, CompleteBacked, FollowsSchedule, Extends
<1>2. ASSUME NEW p \in FitProcesses, NEW to \in {"idle", "restore", "ended"},
             Continuing!Goes(p, to), FitFilesKept, CompleteBacked'
      PROVE  FitInv'
  <2>1. OnlyStage(p) /\ fits'[p].pc = to
    BY <1>0, <1>2, FitGoes DEF FitStages
  <2> QED
    BY <1>2, <2>1, FitMovesOn DEF FitInv
<1>3. ASSUME NEW p \in FitProcesses, NEW to \in {"lock", "train"},
             fits[p].pc \in {"owners", "lock"},
             Continuing!Goes(p, to), FitFilesKept, UNCHANGED terminals
      PROVE  FitInv'
  <2>1. OnlyStage(p) /\ fits'[p].pc = to
    BY <1>0, <1>3, FitGoes DEF FitStages
  <2>2. CompleteBacked'
    BY <1>3 DEF FitInv, CompleteBacked, FitFilesKept
  <2> QED
    BY <1>3, <2>1, <2>2, FitMovesOn DEF FitInv
<1>4. ASSUME NEW p \in FitProcesses, Continuing!Stop(p)
      PROVE  FitInv'
  <2>1. Continuing!Fails(p) /\ FitFilesKept /\ UNCHANGED terminals
    BY <1>4 DEF Continuing!Stop, FitFilesKept
  <2>2. OnlyStage(p) /\ fits'[p].pc = "finally" /\ fits'[p].failed
    BY <1>0, <2>1, FitFails
  <2>3. CompleteBacked'
    BY <2>1 DEF FitInv, CompleteBacked, FitFilesKept
  <2> QED
    BY <2>1, <2>2, <2>3, FitMovesOn DEF FitInv
<1>5. ASSUME NEW p \in FitProcesses, NEW resume, NEW own, Continuing!Prepare(p, own, resume)
      PROVE  FitInv'
  <2>1. FitFilesKept /\ UNCHANGED terminals
        /\ (Continuing!Goes(p, "restore") \/ Continuing!Goes(p, "ended"))
    BY <1>5 DEF Continuing!Prepare, FitFilesKept
  <2>2. CompleteBacked'
    BY <2>1 DEF FitInv, CompleteBacked, FitFilesKept
  <2> QED
    BY <1>2, <2>1, <2>2
<1>6. ASSUME NEW p \in FitProcesses, Continuing!Refuse(p) \/ Continuing!Killed(p)
      PROVE  FitInv'
  <2>1. FitFilesKept /\ UNCHANGED terminals /\ Continuing!Goes(p, "ended")
    BY <1>6 DEF Continuing!Refuse, Continuing!Killed, FitFilesKept
  <2>2. CompleteBacked'
    BY <2>1 DEF FitInv, CompleteBacked, FitFilesKept
  <2> QED
    BY <1>2, <2>1, <2>2
<1>7. ASSUME NEW p \in FitProcesses, Continuing!CheckOwners(p)
      PROVE  FitInv'
  <2>1. fits[p].pc = "owners" /\ FitFilesKept /\ UNCHANGED terminals
        /\ (Continuing!Goes(p, "lock") \/ Continuing!Goes(p, "ended"))
    BY <1>7 DEF Continuing!CheckOwners, Continuing!At, FitFilesKept
  <2>2. CompleteBacked'
    BY <2>1 DEF FitInv, CompleteBacked, FitFilesKept
  <2> QED
    BY <1>2, <1>3, <2>1, <2>2
<1>8. ASSUME NEW p \in FitProcesses, Continuing!Begin(p)
      PROVE  FitInv'
  <2>1. fits[p].pc = "lock" /\ FitFilesKept /\ UNCHANGED terminals
        /\ (Continuing!Goes(p, "train") \/ Continuing!Goes(p, "ended"))
    BY <1>8 DEF Continuing!Begin, Continuing!At, FitFilesKept
  <2>2. CompleteBacked'
    BY <2>1 DEF FitInv, CompleteBacked, FitFilesKept
  <2> QED
    BY <1>2, <1>3, <2>1, <2>2
<1>9. ASSUME NEW p \in FitProcesses, Continuing!Finish(p)
      PROVE  FitInv'
  <2>1. fits[p].pc = "train" /\ fits[p].state.step = Continuing!Endpoint
        /\ FitFilesKept /\ UNCHANGED terminals /\ Continuing!Goes(p, "finally")
    BY <1>9 DEF Continuing!Finish, Continuing!At, FitFilesKept
  <2>2. OnlyStage(p) /\ fits'[p].pc = "finally"
    BY <1>0, <2>1, FitGoes DEF FitStages
  <2>3. Continuing!Endpoint \in DOMAIN checkpoints
    BY <2>1, EndOfFit, Epoch DEF FitInv, MemoryBacked, Backed
  <2>4. CompleteBacked'
    BY <2>1 DEF FitInv, CompleteBacked, FitFilesKept
  <2> QED
    BY <2>1, <2>2, <2>3, <2>4, FitMovesOn DEF FitInv
<1>10. ASSUME NEW p \in FitProcesses, Continuing!Finally(p)
       PROVE  FitInv'
  <2> DEFINE whole == fits[p].state.step = Continuing!Endpoint /\ ~fits[p].failed
             receipt == [step |-> fits[p].state.step, failed |-> fits[p].failed,
                         complete |-> whole]
  <2>1. /\ fits[p].pc = "finally" /\ FitFilesKept /\ Continuing!Goes(p, "ended")
        /\ terminals' = [q \in DOMAIN terminals \cup {p} |->
                            IF q = p THEN receipt ELSE terminals[q]]
    BY <1>10 DEF Continuing!Finally, Continuing!At, FitFilesKept
  <2>2. whole => Continuing!Endpoint \in DOMAIN checkpoints
    <3>1. ~fits[p].failed => Continuing!Endpoint \in DOMAIN checkpoints
      BY <2>1, Zenon DEF FitInv, MemoryBacked, Backed
    <3> QED
      BY <3>1, Zenon
  <2>3. receipt.complete => Continuing!Endpoint \in DOMAIN checkpoints
    <3> HIDE DEF whole
    <3>1. receipt.complete = whole
      OBVIOUS
    <3> QED
      BY <2>2, <3>1, Zenon
  <2> HIDE DEF receipt
  <2>4. DOMAIN terminals' = DOMAIN terminals \cup {p}
        /\ \A q \in DOMAIN terminals' :
              \/ terminals'[q] = receipt
              \/ q \in DOMAIN terminals /\ terminals'[q] = terminals[q]
    BY <2>1, SMTT(30)
  <2>5. CompleteBacked'
    <3>1. ASSUME NEW q \in DOMAIN terminals', terminals'[q].complete
          PROVE  Continuing!Endpoint \in DOMAIN checkpoints'
      <4>1. UNCHANGED checkpoints
        BY <2>1 DEF FitFilesKept
      <4>2. CASE terminals'[q] = receipt
        BY <2>3, <3>1, <4>1, <4>2, Zenon
      <4>3. CASE q \in DOMAIN terminals /\ terminals'[q] = terminals[q]
        BY <3>1, <4>1, <4>3, Zenon DEF FitInv, CompleteBacked
      <4> QED
        BY <2>4, <4>2, <4>3
    <3> QED
      BY <3>1, Zenon DEF CompleteBacked
  <2> QED
    BY <1>2, <2>1, <2>5
<1> QED
  BY <1>1, <1>2, <1>4, <1>5, <1>6, <1>7, <1>8, <1>9, <1>10, FitRestores, FitUpdates,
     FitReceipts,
     FitCommits
     DEF Continuing!Next, fitVars

\* The schedule of the batches.
LEMMA ScheduleIsSequence ==
    /\ Continuing!Schedule \in Seq(Int \X Int)
    /\ Len(Continuing!Schedule) = Continuing!Endpoint - Continuing!PerEpoch
<1> USE Epoch, EndOfFit, FitAssumption
<1> DEFINE n == Continuing!Endpoint - Continuing!PerEpoch
<1>1. n \in Nat
  OBVIOUS
<1>2. ASSUME NEW i \in 1..n
      PROVE  <<1 + ((i - 1) \div Continuing!PerEpoch), FitBatch * ((i - 1) % Continuing!PerEpoch)>>
                \in Int \X Int
  <2>1. i - 1 \in Int
    BY <1>1
  <2>2. (i - 1) \div Continuing!PerEpoch \in Int /\ ((i - 1) % Continuing!PerEpoch) \in Int
    BY <2>1, DivMod
  <2> QED
    BY <2>2
<1>3. Continuing!Schedule = [i \in 1..n |->
         <<1 + ((i - 1) \div Continuing!PerEpoch), FitBatch * ((i - 1) % Continuing!PerEpoch)>>]
  BY DEF Continuing!Schedule
<1> HIDE DEF n
<1>4. Continuing!Schedule \in [1..n -> Int \X Int]
  BY <1>2, <1>3
<1>5. Continuing!Schedule \in Seq(Int \X Int) /\ Len(Continuing!Schedule) = n
  BY <1>1, <1>4
<1> QED
  BY <1>5 DEF n

\* The checkpoints are those of one training.
LEMMA OneContinuationFollows == FitInv => Continuing!OneContinuation
<1> USE Epoch, EndOfFit, FitAssumption
<1> SUFFICES ASSUME FitInv, NEW s \in DOMAIN checkpoints
             PROVE  LET lineage == checkpoints[s].lineage
                    IN  /\ Continuing!ValidState(checkpoints[s].state)
                        /\ checkpoints[s].state.step = s
                        /\ Continuing!Batches(lineage)
                              = SubSeq(Continuing!Schedule, 1, s - Continuing!PerEpoch)
                        /\ receipts[s].by = Continuing!Last(lineage).by
                        /\ s > Continuing!PerEpoch + 1 =>
                              s - 1 \in DOMAIN checkpoints
                              /\ checkpoints[s - 1].lineage = Continuing!Front(lineage)
  BY DEF Continuing!OneContinuation
<1> DEFINE l == checkpoints[s].lineage
           n == s - Continuing!PerEpoch
<1>1. /\ FollowsSchedule(checkpoints[s].state, l) /\ checkpoints[s].state.step = s
      /\ Extends(s, l) /\ receipts[s].by = l[Len(l)].by
  BY DEF FitInv, CheckpointsFollow
<1>2. /\ Continuing!ValidState(checkpoints[s].state) /\ checkpoints[s].state \in FitStates
      /\ l \in Seq(Moves) /\ Len(l) = n
      /\ \A i \in DOMAIN l : l[i].batch = Continuing!Schedule[i]
  BY <1>1 DEF FollowsSchedule
<1>3. n \in Nat /\ n <= Len(Continuing!Schedule)
  <2>1. s \in Nat
    BY <1>1, <1>2 DEF FitStates
  <2>2. s >= Continuing!PerEpoch /\ s <= Continuing!Endpoint
    BY <1>1, <1>2, BeforeTheEnd
  <2> QED
    BY <2>1, <2>2, ScheduleIsSequence
<1> HIDE DEF n, l
<1>4. /\ SubSeq(Continuing!Schedule, 1, n) \in [1..n -> Int \X Int]
      /\ \A i \in 1..n : SubSeq(Continuing!Schedule, 1, n)[i] = Continuing!Schedule[i]
  <2> DEFINE sch == Continuing!Schedule
  <2>1. sch \in Seq(Int \X Int) /\ \A i \in 1..n : sch[i] \in Int \X Int
    BY <1>3, ScheduleIsSequence
  <2> HIDE DEF sch
  <2>2. /\ SubSeq(sch, 1, n) \in Seq(Int \X Int)
        /\ Len(SubSeq(sch, 1, n)) = n
        /\ \A i \in 1..n : SubSeq(sch, 1, n)[i] = sch[i]
    BY <1>3, <2>1, SubSeqProperties
  <2>3. SubSeq(sch, 1, n) \in [1..n -> Int \X Int]
    <3>1. ASSUME NEW q \in Seq(Int \X Int), Len(q) = n PROVE q \in [1..n -> Int \X Int]
      BY <1>3, <3>1
    <3> QED
      BY <2>2, <3>1
  <2> QED
    BY <2>2, <2>3 DEF sch
<1>5. DOMAIN l = 1..n
  BY <1>2
<1>6. Continuing!Batches(l) = SubSeq(Continuing!Schedule, 1, n)
  BY <1>2, <1>4, <1>5 DEF Continuing!Batches
<1>7. Continuing!Last(l) = l[Len(l)] /\ Continuing!Front(l) = SubSeq(l, 1, Len(l) - 1)
  BY DEF Continuing!Last, Continuing!Front
<1> QED
  BY <1>1, <1>2, <1>6, <1>7 DEF l, n, Extends

\* A complete fit has its endpoint and every receipt.
LEMMA CompleteIsWholeFollows == FitInv => Continuing!CompleteIsWhole
<1> USE Epoch, EndOfFit, FitAssumption
<1> SUFFICES ASSUME FitInv, NEW p \in DOMAIN terminals, terminals[p].complete
             PROVE  Continuing!Endpoint \in DOMAIN checkpoints
                    /\ Continuing!ValidDose(checkpoints[Continuing!Endpoint].state)
  BY Zenon DEF Continuing!CompleteIsWhole
<1> DEFINE e == Continuing!Endpoint
           s == checkpoints[Continuing!Endpoint].state
<1>1. e \in DOMAIN checkpoints
  BY DEF FitInv, CompleteBacked
<1>2. s \in FitStates /\ Continuing!ValidState(s) /\ s.step = e
  BY <1>1 DEF FitInv, CheckpointsFollow, FollowsSchedule
<1> HIDE DEF s
<1>3. s.rows = FitRows * FitEpochs
  <2>1. s.epoch = FitEpochs
    BY <1>2, BeforeTheEnd
  <2>2. s.rows = s.epoch * FitRows + s.cursor /\ s.cursor = 0
    BY <1>2, <2>1 DEF Continuing!ValidState
  <2> QED
    BY <2>1, <2>2
<1>4. (Continuing!PerEpoch + 1)..e \subseteq DOMAIN receipts
  <2>1. PICK m \in Nat : DOMAIN checkpoints = (Continuing!PerEpoch + 1)..m
    BY DEF FitInv, FitTyped
  <2>2. DOMAIN checkpoints \subseteq DOMAIN receipts
    BY DEF FitInv, FitTyped
  <2>3. (Continuing!PerEpoch + 1)..e \subseteq DOMAIN checkpoints
    BY <1>1, <2>1
  <2> QED
    BY <2>2, <2>3
<1>5. ASSUME NEW i \in DOMAIN Continuing!Schedule
      PROVE  receipts[Continuing!PerEpoch + i].rows =
                Continuing!Min({FitBatch, FitRows - Continuing!Schedule[i][2]})
  <2>1. i \in 1..(Continuing!Endpoint - Continuing!PerEpoch)
    BY <1>5 DEF Continuing!Schedule
  <2>2. Continuing!PerEpoch + i \in DOMAIN receipts /\ (Continuing!PerEpoch + i) - Continuing!PerEpoch = i
    BY <1>4, <2>1
  <2>3. receipts[Continuing!PerEpoch + i].rows =
           Continuing!Min({FitBatch, FitRows
              - Continuing!Schedule[(Continuing!PerEpoch + i) - Continuing!PerEpoch][2]})
    BY <2>2, Zenon DEF FitInv, ReceiptsFollow
  <2> QED
    BY <2>2, <2>3
<1>6. Continuing!ValidDose(s)
  BY <1>2, <1>3, <1>4, <1>5 DEF Continuing!ValidDose
<1> QED
  BY <1>1, <1>6 DEF s

-----------------------------------------------------------------------------
(* What holds of the behaviours that follow one program *)

\* A step of the machine is a step of one program, or leaves it at rest.
LEMMA UpdateRests ==
    ASSUME [ScenarioNext]_allVars
    PROVE  [Updating!Next]_updateVars
BY DEF ScenarioNext, allVars, teachingVars, BenchmarkStep, AnswersStep, SweepStep,
       TrainingStep,
       QueueStep, DeathsStep, LibraryStep, TasksStep, ContinuationStep, UpdateStep, ProposerStep,
       StartsOver

\* The same for the proposer.
LEMMA ProposerRests ==
    ASSUME [ScenarioNext]_allVars
    PROVE  [Proposing!Next]_proposerVars
BY DEF ScenarioNext, allVars, teachingVars, BenchmarkStep, AnswersStep, SweepStep,
       TrainingStep,
       QueueStep, DeathsStep, LibraryStep, TasksStep, ContinuationStep, UpdateStep, ProposerStep,
       StartsOver

\* The same for the training loop.
LEMMA TrainingRests ==
    ASSUME [ScenarioNext]_allVars
    PROVE  [Training!Next]_trainingVars
BY DEF ScenarioNext, allVars, teachingVars, BenchmarkStep, AnswersStep, SweepStep,
       TrainingStep,
       QueueStep, DeathsStep, LibraryStep, TasksStep, ContinuationStep, UpdateStep, ProposerStep,
       StartsOver

\* The same for the continued fit.
LEMMA FitRests ==
    ASSUME [ScenarioNext]_allVars
    PROVE  [Continuing!Next]_fitVars
BY DEF ScenarioNext, allVars, teachingVars, BenchmarkStep, AnswersStep, SweepStep,
       TrainingStep,
       QueueStep, DeathsStep, LibraryStep, TasksStep, ContinuationStep, UpdateStep, ProposerStep,
       StartsOver

\* The inductive invariant behind TrainingAlwaysOne: what each of the four fits has
\* in memory, and what it left on disk, in its log and with its server.
FitsInv == UpdateInv /\ ProposerInv /\ TrainingInv /\ FitInv

\* rl_train.py:262-492, proposer_rl.py:135-264, train.py of both teaching studies.
\* However often a fit is killed and started again, and however many processes are
\* started on one directory, each of the four has one history: what it says, keeps
\* and serves is the work of the steps it took, in their order.
THEOREM TrainingAlwaysOne == ScenarioSpec => []TrainingIsOne
<1>1. ScenarioInit => FitsInv
  BY UpdateBegins, ProposerBegins, TrainingBegins, FitBegins DEF ScenarioInit, FitsInv
<1>2. FitsInv /\ [ScenarioNext]_allVars => FitsInv'
  BY UpdateRests, ProposerRests, TrainingRests, FitRests, UpdateContinues, ProposerContinues,
     TrainingContinues, FitContinues
     DEF FitsInv
<1>3. FitsInv => TrainingIsOne
  BY UpdateIsOneFollows, ProposerIsOneFollows, OnPolicyFollows, OneContinuationFollows,
     CompleteIsWholeFollows
     DEF FitsInv, TrainingIsOne, ContinuationIsOne
<1> QED
  BY <1>1, <1>2, <1>3, PTL DEF ScenarioSpec

-----------------------------------------------------------------------------
(* The queue with a dispatcher that dies: a specification leaves pending/ when it *)
(* is in running/, and running/ when it is in done/.                              *)

\* Of every name, whether it was added and where it is; what is about to be removed
\* from pending/ is in running/.
KeptInv ==
    /\ added \in [DyingJobs -> Nat]
    /\ DyingQueue!JobNeverLost
    /\ queuePc = "unlink" => current \subseteq running

\* No name is queued at first.
LEMMA KeptBegins == DyingQueue!Init => KeptInv
BY DEF DyingQueue!Init, KeptInv, DyingQueue!JobNeverLost

\* Every step of a dispatcher that dies, of a user and of a launch keeps it: a name
\* leaves a directory when it is in the next.
LEMMA KeptContinues == KeptInv /\ [DyingQueue!Next]_queueVars => KeptInv'
<1> SUFFICES ASSUME KeptInv, [DyingQueue!Next]_queueVars PROVE KeptInv'
  OBVIOUS
<1> USE DEF KeptInv, DyingQueue!JobNeverLost, DyingQueue!files, DyingQueue!processes,
        DyingQueue!bounds, DyingQueue!dispatcher
<1>1. CASE UNCHANGED queueVars
  BY <1>1 DEF queueVars
<1>2. ASSUME NEW j \in DyingJobs, DyingQueue!Add(j) PROVE KeptInv'
  BY <1>2 DEF DyingQueue!Add
<1>3. CASE DyingQueue!DispatcherDies
  BY <1>3 DEF DyingQueue!DispatcherDies
<1>4. CASE \E i \in DyingQueue!Ids : DyingQueue!LaunchStep(i) \/ DyingQueue!ExperimentEnds(i)
  <2>1. UNCHANGED <<added, pending, running, done, queuePc, current>>
    BY <1>4 DEF DyingQueue!LaunchStep, DyingQueue!ExperimentEnds, DyingQueue!Refused,
                DyingQueue!StartExperiment, DyingQueue!WritePid, DyingQueue!WatchEnds,
                DyingQueue!Becomes
  <2> QED
    BY <2>1
<1>5. CASE DyingQueue!BeginRound \/ DyingQueue!RoundEnds
  BY <1>5 DEF DyingQueue!BeginRound, DyingQueue!RoundEnds
<1>6. CASE DyingQueue!Record
  BY <1>6 DEF DyingQueue!Record
<1>7. CASE DyingQueue!Unlink
  BY <1>7 DEF DyingQueue!Unlink
<1>8. ASSUME NEW j \in DyingJobs, DyingQueue!ScanJob(j) PROVE KeptInv'
  BY <1>8 DEF DyingQueue!ScanJob, DyingQueue!Finished
<1>9. ASSUME NEW j \in DyingJobs, DyingQueue!Skip(j) \/ DyingQueue!Popen(j) PROVE KeptInv'
  BY <1>9 DEF DyingQueue!Skip, DyingQueue!Popen
<1>10. ASSUME NEW serving, DyingQueue!ReadPending(serving) PROVE KeptInv'
  BY <1>10 DEF DyingQueue!ReadPending
<1> QED
  BY <1>1, <1>2, <1>3, <1>4, <1>5, <1>6, <1>7, <1>8, <1>9, <1>10
     DEF DyingQueue!Next, DyingQueue!DispatcherStep

(* The queue with a dispatcher that lives, of names that are queued once: what *)
(* occupies a lane is among the jobs the dispatcher counts.                    *)

Launches == [job : QueueJobs, wrapper : {"checking", "started", "watching", "ended"},
             experiment : {"none", "alive", "ended"}]

QueueTyped ==
    /\ launches \in Seq(Launches) /\ deaths = 0
    /\ added \in [QueueJobs -> Nat]
    /\ pidFile \in [QueueJobs -> Nat] /\ wrapperOf \in [QueueJobs -> Nat]
    /\ pending \subseteq QueueJobs /\ current \subseteq QueueJobs /\ todo \subseteq QueueJobs
    /\ IsFiniteSet(live) /\ IsFiniteSet(current)

\* A name is queued once and started once.
StartedOnce ==
    /\ \A j \in pending \cup todo : added[j] > 0
    /\ \A i \in 1..Len(launches) :
          /\ added[launches[i].job] > 0 /\ launches[i].job \notin todo
          /\ launches[i].job \in pending => launches[i].job \in current
    /\ \A i, n \in 1..Len(launches) : launches[i].job = launches[n].job => i = n

\* The PID file is that of the job's only launch, once its experiment is started.
PidIsItsOwn ==
    /\ \A j \in QueueJobs :
          pidFile[j] # 0 => \E i \in 1..Len(launches) : launches[i].job = j
    /\ \A i \in 1..Len(launches) :
          LET l == launches[i]
          IN  /\ l.wrapper = "checking" => l.experiment = "none"
              /\ l.wrapper \in {"started", "watching"} => l.experiment # "none"
              /\ pidFile[l.job] =
                    IF l.wrapper \in {"checking", "started"} \/ l.experiment = "none"
                    THEN 0 ELSE i
              /\ l.job \notin current => wrapperOf[l.job] = i
              /\ queuePc = "unlink" => wrapperOf[l.job] = i
              /\ queuePc = "record" /\ l.job \in current => i = Len(launches)

Occupies(i) ==
    \/ launches[i].experiment = "alive"
    \/ launches[i].wrapper = "checking" /\ launches[i].experiment = "none"

\* Where the dispatcher finds the job of a launch that occupies its lane.
OccupyingIsCounted ==
    /\ queuePc \notin {"record", "unlink"} => current = {}
    /\ queuePc = "off" => launches = << >>
    /\ \A i \in 1..Len(launches) :
          Occupies(i) =>
              /\ \/ launches[i].job \in running
                 \/ queuePc = "record" /\ launches[i].job \in current
              /\ queuePc = "scan" => launches[i].job \in toScan \cup live
              /\ queuePc \in {"pick", "record", "unlink"} => launches[i].job \in live \cup current

LaneInv ==
    QueueTyped /\ StartedOnce /\ PidIsItsOwn /\ OccupyingIsCounted /\ Queue!LaneCapacity

\* The queue counts as FiniteSets does.
LEMMA SameCount ==
    ASSUME NEW S
    PROVE  Queue!Cardinality(S) = Cardinality(S)
BY Zenon DEF Queue!Cardinality, Cardinality

\* No launch, no PID file, no job counted.
LEMMA LaneBegins == Queue!Init => LaneInv
<1> SUFFICES ASSUME Queue!Init PROVE LaneInv
  OBVIOUS
<1> USE DEF Queue!Init
<1>1. launches = << >> /\ Len(launches) = 0 /\ 1..Len(launches) = {} /\ launches \in Seq(Launches)
  OBVIOUS
<1>2. QueueTyped
  BY <1>1, FS_EmptySet DEF QueueTyped
<1>3. StartedOnce /\ PidIsItsOwn /\ OccupyingIsCounted
  BY <1>1 DEF StartedOnce, PidIsItsOwn, OccupyingIsCounted
<1>4. Queue!LaneCapacity
  <2>1. \A l \in QueueLanes : Queue!Occupying(l) = {}
    BY <1>1 DEF Queue!Occupying, Queue!Ids
  <2>2. Cardinality({}) = 0
    BY FS_EmptySet
  <2>3. ASSUME NEW l \in QueueLanes PROVE Cardinality(Queue!Occupying(l)) <= QueueSlots[l]
    <3>1. QueueSlots[l] \in Nat
      BY SlotsAssumption
    <3>2. Cardinality(Queue!Occupying(l)) = 0
      BY <2>1, <2>2, Zenon
    <3>3. \A n \in Nat : 0 <= n
      OBVIOUS
    <3> QED
      BY <3>1, <3>2, <3>3
  <2> QED
    BY <2>3, SameCount DEF Queue!LaneCapacity
<1> QED
  BY <1>2, <1>3, <1>4 DEF LaneInv

\* The launches that occupy a lane are among the launches.
LEMMA OccupyingFinite ==
    ASSUME QueueTyped, NEW l
    PROVE  IsFiniteSet(Queue!Occupying(l)) /\ Queue!Occupying(l) \subseteq 1..Len(launches)
           /\ Len(launches) \in Nat /\ Len(launches) + 1 \notin Queue!Occupying(l)
<1>1. Len(launches) \in Nat /\ DOMAIN launches = 1..Len(launches)
  BY DEF QueueTyped
<1>2. Queue!Occupying(l) \subseteq 1..Len(launches)
  BY <1>1 DEF Queue!Occupying, Queue!Ids
<1>3. IsFiniteSet(1..Len(launches))
  BY <1>1, FS_Interval
<1> QED
  BY <1>1, <1>2, <1>3, FS_Subset

\* A lane that no new launch occupies stays within its capacity.
LEMMA CapacityKept ==
    ASSUME LaneInv, \A l \in QueueLanes : Queue!Occupying(l)' \subseteq Queue!Occupying(l)
    PROVE  Queue!LaneCapacity'
<1> SUFFICES ASSUME NEW l \in QueueLanes
             PROVE  Cardinality(Queue!Occupying(l)') <= QueueSlots[l]
  BY SameCount DEF Queue!LaneCapacity
<1>1. IsFiniteSet(Queue!Occupying(l)) /\ Cardinality(Queue!Occupying(l)) <= QueueSlots[l]
      /\ QueueSlots[l] \in Nat
  BY OccupyingFinite, SlotsAssumption, SameCount DEF LaneInv, Queue!LaneCapacity
<1>2. Queue!Occupying(l)' \subseteq Queue!Occupying(l)
  OBVIOUS
<1>3. \A S, T : IsFiniteSet(T) /\ S \subseteq T =>
         Cardinality(S) \in Nat /\ Cardinality(T) \in Nat /\ Cardinality(S) <= Cardinality(T)
  BY FS_Subset, FS_CardinalityType
<1>4. \A a, b, c \in Nat : a <= b /\ b <= c => a <= c
  OBVIOUS
<1> QED
  BY <1>1, <1>2, <1>3, <1>4

\* A lane that takes another launch had a slot for it: each of those that occupy it
\* has a job of its own among the live ones.
LEMMA CapacityTaken ==
    ASSUME LaneInv, NEW j \in QueueJobs, queuePc = "pick", Queue!Eligible(j),
           \A l \in QueueLanes :
              Queue!Occupying(l)' \subseteq Queue!Occupying(l)
                 \cup (IF QueueLane[j] = l THEN {Len(launches) + 1} ELSE {})
    PROVE  Queue!LaneCapacity'
<1> SUFFICES ASSUME NEW l \in QueueLanes
             PROVE  Cardinality(Queue!Occupying(l)') <= QueueSlots[l]
  BY SameCount DEF Queue!LaneCapacity
<1> DEFINE occ == Queue!Occupying(l)
           busy == {n \in live : QueueLane[n] = l}
           new == IF QueueLane[j] = l THEN {Len(launches) + 1} ELSE {}
<1>1. IsFiniteSet(occ) /\ Cardinality(occ) <= QueueSlots[l] /\ QueueSlots[l] \in Nat
      /\ Len(launches) + 1 \notin occ
  BY OccupyingFinite, SlotsAssumption, SameCount DEF LaneInv, Queue!LaneCapacity
<1>2. \A S, T : IsFiniteSet(T) /\ S \subseteq T =>
         Cardinality(S) \in Nat /\ Cardinality(T) \in Nat /\ Cardinality(S) <= Cardinality(T)
  BY FS_Subset, FS_CardinalityType
<1>3. Queue!Occupying(l)' \subseteq occ \cup new
  OBVIOUS
<1>4. CASE QueueLane[j] # l
  <2>1. new = {}
    BY <1>4
  <2>2. Queue!Occupying(l)' \subseteq occ
    BY <1>3, <2>1
  <2>3. \A a, b, c \in Nat : a <= b /\ b <= c => a <= c
    OBVIOUS
  <2> HIDE DEF occ
  <2> QED
    BY <1>1, <1>2, <2>2, <2>3
<1>5. CASE QueueLane[j] = l
  <2>1. Cardinality(busy) < QueueSlots[l]
    BY <1>5, SameCount DEF Queue!Eligible, Queue!Busy
  <2>2. IsFiniteSet(busy)
    BY FS_Subset DEF LaneInv, QueueTyped
  <2>3. \A i \in occ : launches[i].job \in busy
    <3>1. ASSUME NEW i \in occ PROVE launches[i].job \in busy
      <4>1. i \in 1..Len(launches)
        BY OccupyingFinite DEF LaneInv
      <4>2. QueueLane[launches[i].job] = l /\ Occupies(i)
        BY DEF Queue!Occupying, Queue!At, Occupies
      <4> QED
        BY <4>1, <4>2 DEF LaneInv, OccupyingIsCounted
    <3> QED
      BY <3>1
  <2>4. \A i, n \in occ : launches[i].job = launches[n].job => i = n
    BY OccupyingFinite DEF LaneInv, StartedOnce
  <2> HIDE DEF occ, busy
  <2> DEFINE f == [i \in occ |-> launches[i].job]
  <2>5. f \in Injection(occ, busy)
    BY <2>3, <2>4 DEF Injection, IsInjective
  <2>6. Cardinality(occ) <= Cardinality(busy)
    BY <2>2, <2>5, FS_Injection
  <2>7. IsFiniteSet(occ \cup {Len(launches) + 1})
        /\ Cardinality(occ \cup {Len(launches) + 1}) = Cardinality(occ) + 1
    BY <1>1, FS_AddElement
  <2>8. Queue!Occupying(l)' \subseteq occ \cup {Len(launches) + 1}
    BY <1>3, <1>5
  <2>9. Cardinality(occ) \in Nat /\ Cardinality(busy) \in Nat
    BY <1>1, <2>2, FS_CardinalityType
  <2>10. \A a, b, c, d \in Nat : a <= b + 1 /\ b <= c /\ c < d => a <= d
    OBVIOUS
  <2>11. Cardinality(Queue!Occupying(l)') \in Nat
         /\ Cardinality(Queue!Occupying(l)') <= Cardinality(occ) + 1
    BY <1>2, <2>7, <2>8
  <2> QED
    BY <1>1, <2>1, <2>6, <2>9, <2>10, <2>11
<1> QED
  BY <1>4, <1>5

\* A launch takes the next step: nothing else moves.
LEMMA LaunchMoves ==
    ASSUME LaneInv, NEW i \in 1..Len(launches),
           NEW wrapper \in {"checking", "started", "watching", "ended"},
           NEW experiment \in {"none", "alive", "ended"},
           Queue!Becomes(i, wrapper, experiment)
    PROVE  /\ launches' \in Seq(Launches) /\ Len(launches') = Len(launches)
           /\ Len(launches) \in Nat
           /\ launches'[i] = [job |-> launches[i].job, wrapper |-> wrapper,
                              experiment |-> experiment]
           /\ \A n \in 1..Len(launches) : n # i => launches'[n] = launches[n]
           /\ \A n \in 1..Len(launches) :
                 launches'[n].job = launches[n].job /\ launches[n].job \in QueueJobs
           /\ UNCHANGED <<pending, running, done, wrapperOf, added, deaths, queuePc, toScan,
                         live, todo, doneNames, current, idle, alarm>>
<1>1. launches \in Seq(Launches) /\ Len(launches) \in Nat
  BY DEF LaneInv, QueueTyped
<1>2. launches[i] \in Launches /\ \A n \in 1..Len(launches) : launches[n] \in Launches
  BY <1>1
<1>3. launches' = [launches EXCEPT ![i].wrapper = wrapper, ![i].experiment = experiment]
  BY DEF Queue!Becomes
<1>4. launches \in [1..Len(launches) -> Launches]
  BY <1>1
<1>5. launches' \in [1..Len(launches) -> Launches]
      /\ launches'[i] = [job |-> launches[i].job, wrapper |-> wrapper,
                         experiment |-> experiment]
      /\ \A n \in 1..Len(launches) : n # i => launches'[n] = launches[n]
  BY <1>2, <1>3, <1>4 DEF Launches
<1>7. launches' \in Seq(Launches) /\ Len(launches') = Len(launches)
  BY <1>1, <1>5
<1>6. \A n \in 1..Len(launches) :
         launches'[n].job = launches[n].job /\ launches[n].job \in QueueJobs
  BY <1>2, <1>5 DEF Launches
<1> QED
  BY <1>1, <1>5, <1>6, <1>7 DEF Queue!Becomes, Queue!files, Queue!bounds, Queue!dispatcher

\* A launch may end up no longer occupying its lane; it never comes to occupy it.
LEMMA LaunchKeepsLanes ==
    ASSUME LaneInv, NEW i \in 1..Len(launches),
           Queue!LaunchStep(i) \/ Queue!ExperimentEnds(i)
    PROVE  LaneInv'
<1> DEFINE old == launches[i]
<1>1. launches \in Seq(Launches) /\ Len(launches) \in Nat /\ old \in Launches
  BY DEF LaneInv, QueueTyped
<1>2. PICK wrapper \in {"checking", "started", "watching", "ended"},
           experiment \in {"none", "alive", "ended"} :
         /\ Queue!Becomes(i, wrapper, experiment)
         /\ \/ /\ old.wrapper = "checking" /\ old.experiment = "none"
               /\ wrapper = "ended" /\ experiment = "none" /\ pidFile' = pidFile
            \/ /\ old.wrapper = "checking" /\ old.experiment = "none"
               /\ wrapper = "started" /\ experiment = "alive" /\ pidFile' = pidFile
            \/ /\ old.wrapper = "started" /\ wrapper = "watching"
               /\ experiment = old.experiment
               /\ pidFile' = [pidFile EXCEPT ![old.job] = i]
            \/ /\ old.wrapper = "watching" /\ wrapper = "ended"
               /\ experiment = old.experiment /\ pidFile' = pidFile
            \/ /\ old.experiment = "alive" /\ experiment = "ended"
               /\ wrapper = old.wrapper /\ pidFile' = pidFile
  BY <1>1 DEF Queue!LaunchStep, Queue!ExperimentEnds, Queue!Refused, Queue!StartExperiment,
              Queue!WritePid, Queue!WatchEnds, Queue!At, Launches
<1>3. /\ launches' \in Seq(Launches) /\ Len(launches') = Len(launches)
      /\ launches'[i] = [job |-> old.job, wrapper |-> wrapper, experiment |-> experiment]
      /\ \A n \in 1..Len(launches) : n # i => launches'[n] = launches[n]
      /\ \A n \in 1..Len(launches) :
            launches'[n].job = launches[n].job /\ launches[n].job \in QueueJobs
      /\ UNCHANGED <<pending, running, done, wrapperOf, added, deaths, queuePc, toScan,
                    live, todo, doneNames, current, idle, alarm>>
  BY <1>2, LaunchMoves
<1>4. launches'[i].job = old.job /\ launches'[i].wrapper = wrapper
      /\ launches'[i].experiment = experiment /\ old.job \in QueueJobs
  BY <1>1, <1>3 DEF Launches
<1>5. QueueTyped'
  <2>1. pidFile' \in [QueueJobs -> Nat]
    <3>1. i \in Nat /\ pidFile \in [QueueJobs -> Nat]
      BY DEF LaneInv, QueueTyped
    <3>2. pidFile' = pidFile \/ pidFile' = [pidFile EXCEPT ![old.job] = i]
      BY <1>2
    <3> QED
      BY <1>4, <3>1, <3>2
  <2> QED
    BY <1>3, <2>1 DEF LaneInv, QueueTyped
<1>6. StartedOnce'
  BY <1>1, <1>3 DEF LaneInv, StartedOnce
<1>7. \A n \in 1..Len(launches) : n # i => launches[n].job # old.job
  BY DEF LaneInv, StartedOnce
<1>8. PidIsItsOwn'
  <2>1. ASSUME NEW n \in 1..Len(launches), n # i
        PROVE  pidFile'[launches[n].job] = pidFile[launches[n].job]
    BY <1>2, <1>3, <1>4, <1>7, <2>1 DEF LaneInv, QueueTyped
  <2>2. pidFile'[old.job] =
           IF wrapper \in {"checking", "started"} \/ experiment = "none" THEN 0 ELSE i
    BY <1>1, <1>2, <1>4 DEF LaneInv, QueueTyped, PidIsItsOwn, Launches
  <2>3. wrapper = "checking" => experiment = "none"
    BY <1>1, <1>2 DEF LaneInv, PidIsItsOwn
  <2>4. wrapper \in {"started", "watching"} => experiment # "none"
    BY <1>1, <1>2 DEF LaneInv, PidIsItsOwn
  <2> HIDE DEF old
  <2>5. ASSUME NEW n \in 1..Len(launches)
        PROVE  LET l == launches'[n]
               IN  /\ l.wrapper = "checking" => l.experiment = "none"
                   /\ l.wrapper \in {"started", "watching"} => l.experiment # "none"
                   /\ pidFile'[l.job] =
                         IF l.wrapper \in {"checking", "started"} \/ l.experiment = "none"
                         THEN 0 ELSE n
    <3>1. CASE n = i
      BY <1>4, <2>2, <2>3, <2>4, <3>1
    <3>2. CASE n # i
      BY <1>3, <2>1, <3>2 DEF LaneInv, PidIsItsOwn
    <3> QED
      BY <3>1, <3>2
  <2>6. ASSUME NEW j \in QueueJobs, pidFile'[j] # 0
        PROVE  \E n \in 1..Len(launches') : launches'[n].job = j
    <3>1. \E n \in 1..Len(launches) : launches[n].job = j
      <4>1. CASE pidFile'[j] = pidFile[j]
        BY <2>6, <4>1 DEF LaneInv, PidIsItsOwn
      <4>2. CASE j = old.job
        BY <4>2 DEF old
      <4>3. pidFile'[j] = pidFile[j] \/ j = old.job
        BY <1>2, <1>4 DEF LaneInv, QueueTyped, old
      <4> QED
        BY <4>1, <4>2, <4>3
    <3> QED
      BY <1>3, <3>1
  <2> QED
    BY <1>3, <2>5, <2>6 DEF LaneInv, PidIsItsOwn
<1>9. \A n \in 1..Len(launches) : Occupies(n)' => Occupies(n)
  BY <1>1, <1>2, <1>3, <1>4 DEF Occupies, LaneInv, PidIsItsOwn
<1>10. OccupyingIsCounted'
  <2>1. launches = << >> => launches' = << >>
    BY <1>1
  <2> QED
    BY <1>3, <1>9, <2>1 DEF LaneInv, OccupyingIsCounted
<1>11. Queue!LaneCapacity'
  <2>1. \A l \in QueueLanes : Queue!Occupying(l)' \subseteq Queue!Occupying(l)
    BY <1>1, <1>3, <1>9 DEF Queue!Occupying, Queue!Ids, Queue!At, Occupies
  <2> QED
    BY <2>1, CapacityKept
<1> QED
  BY <1>5, <1>6, <1>8, <1>10, <1>11 DEF LaneInv

\* Steps that touch no launch and no PID file leave the lanes as they are.
LEMMA LanesRest ==
    ASSUME LaneInv, UNCHANGED launches
    PROVE  Queue!LaneCapacity' /\ \A i \in 1..Len(launches) : Occupies(i)' <=> Occupies(i)
<1>1. \A l \in QueueLanes : Queue!Occupying(l)' \subseteq Queue!Occupying(l)
  BY DEF Queue!Occupying, Queue!Ids, Queue!At
<1> QED
  BY <1>1, CapacityKept DEF Occupies

\* Every step of the dispatcher, of a user and of a launch keeps the invariant, as
\* long as a name is queued once.
LEMMA LaneContinues ==
    ASSUME QueueAdds \in {0, 1}, LaneInv, [Queue!Next]_queueVars
    PROVE  LaneInv'
<1> USE DEF Queue!files, Queue!processes, Queue!bounds, Queue!dispatcher
<1>0. QueueTyped /\ StartedOnce /\ PidIsItsOwn /\ OccupyingIsCounted
      /\ Len(launches) \in Nat /\ DOMAIN launches = 1..Len(launches)
      /\ \A i \in 1..Len(launches) : launches[i].job \in QueueJobs
  <2>1. launches \in Seq(Launches)
    BY DEF LaneInv, QueueTyped
  <2>2. \A i \in 1..Len(launches) : launches[i] \in Launches
    BY <2>1
  <2> QED
    BY <2>1, <2>2 DEF LaneInv, Launches
<1>1. CASE UNCHANGED queueVars
  <2>1. Queue!LaneCapacity' /\ \A i \in 1..Len(launches) : Occupies(i)' <=> Occupies(i)
    BY <1>1, LanesRest DEF queueVars
  <2> QED
    BY <1>0, <1>1, <2>1 DEF queueVars, LaneInv, QueueTyped, StartedOnce, PidIsItsOwn,
                            OccupyingIsCounted
<1>2. ASSUME NEW j \in QueueJobs, Queue!Add(j) PROVE LaneInv'
  <2>1. /\ UNCHANGED <<running, done, wrapperOf, pidFile, launches, deaths, queuePc, toScan,
                       live, todo, doneNames, current, idle, alarm>>
        /\ pending' = pending \cup {j} /\ added' = [added EXCEPT ![j] = @ + 1]
        /\ added[j] < QueueAdds
    BY <1>2 DEF Queue!Add
  <2>2. added \in [QueueJobs -> Nat] /\ added[j] = 0
    <3>1. added \in [QueueJobs -> Nat]
      BY <1>0 DEF QueueTyped
    <3> QED
      BY <2>1, <3>1
  <2>3. Queue!LaneCapacity' /\ \A i \in 1..Len(launches) : Occupies(i)' <=> Occupies(i)
    BY <2>1, LanesRest
  <2>4. added'[j] = 1 /\ added' \in [QueueJobs -> Nat]
        /\ \A n \in QueueJobs : n # j => added'[n] = added[n]
    BY <2>1, <2>2
  <2>5. \A i \in 1..Len(launches) : launches[i].job # j
    BY <1>0, <2>2 DEF StartedOnce
  <2>6. QueueTyped'
    BY <1>0, <2>1, <2>4 DEF QueueTyped
  <2>7. StartedOnce'
    BY <1>0, <2>1, <2>4, <2>5 DEF StartedOnce, QueueTyped
  <2>8. PidIsItsOwn' /\ OccupyingIsCounted'
    BY <1>0, <2>1, <2>3 DEF PidIsItsOwn, OccupyingIsCounted
  <2> QED
    BY <2>3, <2>6, <2>7, <2>8 DEF LaneInv
<1>3. ~Queue!DispatcherDies
  BY <1>0 DEF Queue!DispatcherDies, QueueTyped
<1>4. ASSUME NEW i \in Queue!Ids, Queue!LaunchStep(i) \/ Queue!ExperimentEnds(i)
      PROVE  LaneInv'
  BY <1>0, <1>4, LaunchKeepsLanes DEF Queue!Ids
<1>5. CASE Queue!BeginRound \/ Queue!RoundEnds
  <2>1. /\ UNCHANGED <<pending, running, done, wrapperOf, pidFile, launches, added, deaths,
                       todo, doneNames, current, idle, alarm>>
        /\ \/ queuePc \in {"off", "sleep"} /\ queuePc' = "scan" /\ toScan' = running /\ live' = {}
           \/ queuePc = "pick" /\ queuePc' = "sleep" /\ UNCHANGED <<toScan, live>>
    BY <1>5 DEF Queue!BeginRound, Queue!RoundEnds
  <2>2. Queue!LaneCapacity' /\ \A i \in 1..Len(launches) : Occupies(i)' <=> Occupies(i)
    BY <2>1, LanesRest
  <2>3. QueueTyped' /\ StartedOnce' /\ PidIsItsOwn'
    BY <1>0, <2>1, FS_EmptySet DEF QueueTyped, StartedOnce, PidIsItsOwn
  <2>4. OccupyingIsCounted'
    BY <1>0, <2>1, <2>2 DEF OccupyingIsCounted
  <2> QED
    BY <2>2, <2>3, <2>4 DEF LaneInv
<1>6. ASSUME NEW j \in QueueJobs, Queue!ScanJob(j) PROVE LaneInv'
  <2>1. /\ UNCHANGED <<pending, wrapperOf, pidFile, launches, added, deaths, queuePc,
                       todo, doneNames, current, idle, alarm>>
        /\ queuePc = "scan" /\ j \in toScan /\ toScan' = toScan \ {j}
        /\ \/ Queue!JobAlive(j) /\ live' = live \cup {j} /\ UNCHANGED <<running, done>>
           \/ ~Queue!JobAlive(j) /\ live' = live /\ running' = running \ {j}
    BY <1>6, Zenon DEF Queue!ScanJob, Queue!Finished
  <2>2. Queue!LaneCapacity' /\ \A i \in 1..Len(launches) : Occupies(i)' <=> Occupies(i)
    BY <2>1, LanesRest
  <2>3. IsFiniteSet(live')
    BY ZenonT(60), <1>0, <2>1, FS_AddElement DEF QueueTyped
  <2>4. QueueTyped' /\ StartedOnce' /\ PidIsItsOwn'
    BY <1>0, <2>1, <2>3 DEF QueueTyped, StartedOnce, PidIsItsOwn
  <2>5. \A i \in 1..Len(launches) : Occupies(i) /\ launches[i].job = j => Queue!JobAlive(j)
    <3> SUFFICES ASSUME NEW i \in 1..Len(launches), Occupies(i), launches[i].job = j
                 PROVE  Queue!JobAlive(j)
      OBVIOUS
    <3>1. current = {}
      BY <1>0, <2>1 DEF OccupyingIsCounted
    <3>2. wrapperOf[j] = i
      BY <1>0, <3>1 DEF PidIsItsOwn
    <3>3. pidFile[j] = IF launches[i].wrapper \in {"checking", "started"}
                          \/ launches[i].experiment = "none" THEN 0 ELSE i
      BY <1>0 DEF PidIsItsOwn
    <3> QED
      BY <1>0, <3>2, <3>3 DEF Queue!JobAlive, Occupies
  <2>6. OccupyingIsCounted'
    BY <1>0, <2>1, <2>2, <2>5 DEF OccupyingIsCounted
  <2> QED
    BY <2>2, <2>4, <2>6 DEF LaneInv
<1>7. ASSUME NEW serving, Queue!ReadPending(serving) PROVE LaneInv'
  <2>1. /\ UNCHANGED <<pending, running, done, wrapperOf, pidFile, launches, added, deaths,
                       toScan, live, current>>
        /\ queuePc = "scan" /\ toScan = {} /\ queuePc' = "pick" /\ todo' = pending
    BY <1>7 DEF Queue!ReadPending
  <2>2. Queue!LaneCapacity' /\ \A i \in 1..Len(launches) : Occupies(i)' <=> Occupies(i)
    BY <2>1, LanesRest
  <2>3. current = {}
    BY <1>0, <2>1 DEF OccupyingIsCounted
  <2>4. QueueTyped' /\ PidIsItsOwn'
    BY <1>0, <2>1 DEF QueueTyped, PidIsItsOwn
  <2>5. StartedOnce'
    BY <1>0, <2>1, <2>3 DEF StartedOnce
  <2>6. OccupyingIsCounted'
    BY <1>0, <2>1, <2>2 DEF OccupyingIsCounted
  <2> QED
    BY <2>2, <2>4, <2>5, <2>6 DEF LaneInv
<1>8. ASSUME NEW j \in QueueJobs, Queue!Skip(j) PROVE LaneInv'
  <2>1. /\ UNCHANGED <<pending, running, done, wrapperOf, pidFile, launches, added, deaths,
                       queuePc, toScan, live, current>>
        /\ todo' = todo \ {j}
    BY <1>8 DEF Queue!Skip
  <2>2. Queue!LaneCapacity' /\ \A i \in 1..Len(launches) : Occupies(i)' <=> Occupies(i)
    BY <2>1, LanesRest
  <2> QED
    BY <1>0, <2>1, <2>2
       DEF LaneInv, QueueTyped, StartedOnce, PidIsItsOwn, OccupyingIsCounted
<1>9. ASSUME NEW j \in QueueJobs, Queue!Popen(j) PROVE LaneInv'
  <2> DEFINE new == [job |-> j, wrapper |-> "checking", experiment |-> "none"]
             last == Len(launches) + 1
  <2>1. /\ UNCHANGED <<pending, running, done, wrapperOf, pidFile, added, deaths, toScan,
                       live>>
        /\ queuePc = "pick" /\ j \in todo /\ Queue!Eligible(j)
        /\ launches' = Append(launches, new)
        /\ todo' = todo \ {j} /\ current' = {j} /\ queuePc' = "record"
    BY <1>9 DEF Queue!Popen
  <2>2. new \in Launches
    BY DEF Launches
  <2>3. /\ launches' \in Seq(Launches) /\ Len(launches') = last /\ launches'[last] = new
        /\ \A i \in 1..Len(launches) : launches'[i] = launches[i]
        /\ 1..Len(launches') = 1..Len(launches) \cup {last}
        /\ DOMAIN launches' = 1..last
    <3>1. launches \in Seq(Launches)
      BY <1>0 DEF QueueTyped
    <3> HIDE DEF new
    <3> QED
      BY <1>0, <2>1, <2>2, <3>1
  <2>4. new.job = j /\ new.wrapper = "checking" /\ new.experiment = "none"
    OBVIOUS
  <2> HIDE DEF new
  <2>5. \A i \in 1..Len(launches) : launches[i].job # j
    BY <1>0, <2>1 DEF StartedOnce
  <2>6. added[j] > 0 /\ current = {}
    BY <1>0, <2>1 DEF StartedOnce, OccupyingIsCounted
  <2>7. QueueTyped'
    <3>1. IsFiniteSet({j})
      BY FS_Singleton
    <3> QED
      BY <1>0, <2>1, <2>3, <3>1 DEF QueueTyped
  <2>8. StartedOnce'
    BY <1>0, <2>1, <2>3, <2>4, <2>5, <2>6 DEF StartedOnce
  <2>9. PidIsItsOwn'
    <3>1. pidFile[j] = 0
      BY <1>0, <2>5 DEF PidIsItsOwn
    <3>2. ASSUME NEW n \in QueueJobs, pidFile'[n] # 0
          PROVE  \E i \in 1..Len(launches') : launches'[i].job = n
      <4>1. PICK i \in 1..Len(launches) : launches[i].job = n
        BY <1>0, <2>1, <3>2 DEF PidIsItsOwn
      <4>2. i \in 1..Len(launches') /\ launches'[i].job = n
        BY <2>3, <4>1
      <4> QED
        BY <4>2
    <3> QED
      BY <1>0, <2>1, <2>3, <2>4, <2>5, <2>6, <3>1, <3>2 DEF PidIsItsOwn
  <2>10. \A i \in 1..Len(launches) : Occupies(i)' <=> Occupies(i)
    BY <2>3 DEF Occupies
  <2>11. OccupyingIsCounted'
    BY <1>0, <2>1, <2>3, <2>4, <2>6, <2>10 DEF OccupyingIsCounted
  <2>12. Queue!LaneCapacity'
    <3>1. ASSUME NEW l \in QueueLanes
          PROVE  Queue!Occupying(l)' \subseteq Queue!Occupying(l)
                    \cup (IF QueueLane[j] = l THEN {Len(launches) + 1} ELSE {})
      BY <1>0, <2>3, <2>4 DEF Queue!Occupying, Queue!Ids, Queue!At
    <3> QED
      BY <2>1, <3>1, CapacityTaken
  <2> QED
    BY <2>7, <2>8, <2>9, <2>11, <2>12 DEF LaneInv
<1>10. CASE Queue!Record
  <2>1. /\ UNCHANGED <<pending, done, pidFile, launches, added, deaths, toScan, live, todo,
                       current>>
        /\ queuePc = "record" /\ queuePc' = "unlink" /\ running' = running \cup current
        /\ wrapperOf' = [j \in QueueJobs |-> IF j \in current THEN Len(launches)
                                             ELSE wrapperOf[j]]
    BY <1>10 DEF Queue!Record
  <2>2. Queue!LaneCapacity' /\ \A i \in 1..Len(launches) : Occupies(i)' <=> Occupies(i)
    BY <2>1, LanesRest
  <2>3. wrapperOf' \in [QueueJobs -> Nat]
    BY <1>0, <2>1 DEF QueueTyped
  <2>4. QueueTyped' /\ StartedOnce'
    BY <1>0, <2>1, <2>3 DEF QueueTyped, StartedOnce
  <2>5. \A i \in 1..Len(launches) : wrapperOf'[launches[i].job] = i
    BY <1>0, <2>1 DEF PidIsItsOwn
  <2>6. PidIsItsOwn'
    BY <1>0, <2>1, <2>5 DEF PidIsItsOwn
  <2>7. OccupyingIsCounted'
    BY <1>0, <2>1, <2>2 DEF OccupyingIsCounted
  <2> QED
    BY <2>2, <2>4, <2>6, <2>7 DEF LaneInv
<1>11. CASE Queue!Unlink
  <2>1. /\ UNCHANGED <<running, done, wrapperOf, pidFile, launches, added, deaths, toScan, todo>>
        /\ queuePc = "unlink" /\ queuePc' = "pick" /\ pending' = pending \ current
        /\ live' = live \cup current /\ current' = {}
    BY <1>11 DEF Queue!Unlink
  <2>2. Queue!LaneCapacity' /\ \A i \in 1..Len(launches) : Occupies(i)' <=> Occupies(i)
    BY <2>1, LanesRest
  <2>3. IsFiniteSet(live')
    BY <1>0, <2>1, FS_Union DEF QueueTyped
  <2>4. QueueTyped'
    BY <1>0, <2>1, <2>3, FS_EmptySet DEF QueueTyped
  <2>5. StartedOnce' /\ PidIsItsOwn'
    BY <1>0, <2>1 DEF StartedOnce, PidIsItsOwn
  <2>6. OccupyingIsCounted'
    BY <1>0, <2>1, <2>2 DEF OccupyingIsCounted
  <2> QED
    BY <2>2, <2>4, <2>5, <2>6 DEF LaneInv
<1> QED
  BY <1>1, <1>2, <1>3, <1>4, <1>5, <1>6, <1>7, <1>8, <1>9, <1>10, <1>11
     DEF Queue!Next, Queue!DispatcherStep

\* A step of the scenario is a step of the queue it follows, or leaves it alone.
LEMMA QueueRests ==
    ASSUME [ScenarioNext]_allVars
    PROVE  /\ scenario' = scenario
           /\ scenario = "queue" => [Queue!Next]_queueVars
           /\ scenario = "deaths" => [DyingQueue!Next]_queueVars
BY DEF ScenarioNext, allVars, teachingVars, BenchmarkStep, AnswersStep, SweepStep,
       TrainingStep,
       QueueStep, DeathsStep, LibraryStep, TasksStep, ContinuationStep, UpdateStep, ProposerStep,
       StartsOver

\* queue.py:47-60, 107-150.  Whenever the dispatcher dies, and however often a name
\* is queued, the specification of a queued job is in one of the directories.
THEOREM JobsAreNeverLost == ScenarioSpec => []JobNeverLost
<1> DEFINE Kept == scenario = "deaths" => KeptInv
<1>1. ScenarioInit => Kept
  BY KeptBegins DEF ScenarioInit
<1>2. Kept /\ [ScenarioNext]_allVars => Kept'
  BY QueueRests, KeptContinues
<1>3. Kept => JobNeverLost
  BY DEF KeptInv, JobNeverLost
<1> QED
  BY <1>1, <1>2, <1>3, PTL DEF ScenarioSpec

\* queue.py:107-150.  As long as the dispatcher lives and a name is queued once, it
\* starts nothing on a lane without a free slot.  (A name that is queued again still
\* has the PID file of its last run: then the lanes may be overcommitted.)
THEOREM QueueAlwaysSafe ==
    ASSUME QueueAdds \in {0, 1}
    PROVE  ScenarioSpec => []QueueSafe
<1> DEFINE Lanes0 == scenario = "queue" => LaneInv
<1>1. ScenarioInit => Lanes0
  BY LaneBegins DEF ScenarioInit
<1>2. Lanes0 /\ [ScenarioNext]_allVars => Lanes0'
  BY QueueRests, LaneContinues
<1>3. Lanes0 /\ JobNeverLost => QueueSafe
  BY DEF LaneInv, LaneCapacity, QueueSafe
<1> QED
  BY <1>1, <1>2, <1>3, JobsAreNeverLost, PTL DEF ScenarioSpec

-----------------------------------------------------------------------------
(* The sweep implements DurableWork: what is in the threads has no row, and    *)
(* only a job in a thread gets one.                                            *)

SweepStates == {"none", "queued", "running", "judged", "done", "raised"}
SweepRows ==
    [error : BOOLEAN, answered : Nat, tokens : Nat, setting : SweepSettings \cup {"none"}]
SweepLines ==
    [key : Sweeping!Jobs, row : SweepRows, text : SweepTears \cup {"whole"}, newline : BOOLEAN]

SweepTyped ==
    /\ setting \in SweepSettings
    /\ job \in [Sweeping!Jobs -> SweepStates]
    /\ row \in [Sweeping!Jobs -> SweepRows]
    /\ rowsFile \in Seq(SweepLines)
    /\ sweepPaid \in [Sweeping!Jobs -> Nat]

\* A job in the hands of a process has no row, and was paid for when it began.
SweepInv ==
    /\ SweepTyped
    /\ \A j \in Sweeping!Jobs :
          /\ job[j] \in {"queued", "running", "judged"} => j \notin Sweeping!Stored
          /\ job[j] \in {"running", "judged"} => sweepPaid[j] > 0

\* No job is begun, no row is written.
LEMMA SweepBegins == Sweeping!Init => SweepInv /\ Sweeping!Promise!Init
<1> SUFFICES ASSUME Sweeping!Init PROVE SweepInv /\ Sweeping!Promise!Init
  OBVIOUS
<1> USE DEF Sweeping!Init
<1>1. SweepTyped
  BY DEF SweepTyped, SweepStates, SweepRows, Sweeping!NoRow
<1>2. DOMAIN rowsFile = {}
  OBVIOUS
<1>3. Sweeping!Stored = {}
  BY <1>2 DEF Sweeping!Stored, Sweeping!Rows
<1> QED
  BY <1>1, <1>3 DEF SweepInv, Sweeping!Promise!Init

\* A line that is appended stores its job, if it got there whole.
LEMMA RowIsStored ==
    ASSUME rowsFile \in Seq(SweepLines), NEW l \in SweepLines, rowsFile' = Append(rowsFile, l)
    PROVE  /\ rowsFile' \in Seq(SweepLines)
           /\ Sweeping!Stored' = Sweeping!Stored \cup (IF l.text = "whole" THEN {l.key} ELSE {})
<1>1. /\ rowsFile' \in Seq(SweepLines) /\ Len(rowsFile) \in Nat
      /\ Len(rowsFile') = Len(rowsFile) + 1
      /\ \A i \in 1..Len(rowsFile) : rowsFile'[i] = rowsFile[i]
      /\ rowsFile'[Len(rowsFile) + 1] = l
  BY AppendProperties
<1>2. DOMAIN rowsFile' = DOMAIN rowsFile \cup {Len(rowsFile) + 1}
      /\ DOMAIN rowsFile = 1..Len(rowsFile) /\ Len(rowsFile) + 1 \notin DOMAIN rowsFile
  BY <1>1, LenProperties
<1>3. Sweeping!Rows' = Sweeping!Rows \cup (IF l.text = "whole" THEN {Len(rowsFile) + 1} ELSE {})
  BY <1>1, <1>2 DEF Sweeping!Rows
<1> QED
  BY <1>1, <1>2, <1>3 DEF Sweeping!Stored, Sweeping!Rows

\* A row that is written to the end, or cut, stores at most the job it is of.
LEMMA CutStoresOne ==
    ASSUME SweepInv, NEW j \in Sweeping!Jobs, job[j] = "judged",
           rowsFile' = Append(rowsFile, Sweeping!Line(j, "whole", TRUE))
               \/ rowsFile' \in Sweeping!Cuts(j)
    PROVE  /\ rowsFile' \in Seq(SweepLines)
           /\ Sweeping!Stored' \in {Sweeping!Stored, Sweeping!Stored \cup {j}}
<1>1. CASE rowsFile' = rowsFile
  BY <1>1 DEF SweepInv, SweepTyped, Sweeping!Stored, Sweeping!Rows
<1>2. ASSUME NEW text \in SweepTears \cup {"whole"}, NEW newline \in BOOLEAN,
             rowsFile' = Append(rowsFile, Sweeping!Line(j, text, newline))
      PROVE  /\ rowsFile' \in Seq(SweepLines)
             /\ Sweeping!Stored' \in {Sweeping!Stored, Sweeping!Stored \cup {j}}
  <2>1. Sweeping!Line(j, text, newline) \in SweepLines /\ Sweeping!Line(j, text, newline).key = j
    BY DEF SweepInv, SweepTyped, SweepLines, Sweeping!Line
  <2>2. rowsFile \in Seq(SweepLines)
    BY DEF SweepInv, SweepTyped
  <2> QED
    BY <1>2, <2>1, <2>2, RowIsStored
<1> QED
  BY <1>1, <1>2 DEF Sweeping!Cuts

\* A step of the sweep keeps the invariant, and pays, stores, or leaves both alone.
SweepGoes ==
    /\ SweepInv'
    /\ [Sweeping!Promise!Next]_<<Sweeping!Stored, sweepPaid>>

\* The judged job of a step that writes is stored, or nothing is.
LEMMA CutImplements ==
    ASSUME SweepInv, NEW j \in Sweeping!Jobs, job[j] = "judged", sweepPaid' = sweepPaid,
           Sweeping!Stored' \in {Sweeping!Stored, Sweeping!Stored \cup {j}}
    PROVE  [Sweeping!Promise!Next]_<<Sweeping!Stored, sweepPaid>>
<1>1. CASE Sweeping!Stored' = Sweeping!Stored
  BY <1>1
<1>2. CASE Sweeping!Stored' = Sweeping!Stored \cup {j}
  <2>1. {j} \in SUBSET Sweeping!Jobs
    OBVIOUS
  <2>2. Sweeping!Promise!Store({j})
    BY <1>2 DEF Sweeping!Promise!Store, SweepInv
  <2> QED
    BY <2>1, <2>2 DEF Sweeping!Promise!Next
<1> QED
  BY <1>1, <1>2

\* A job gathers its row.
LEMMA RowGathers ==
    ASSUME NEW r \in SweepRows, NEW n \in Nat, NEW s \in SweepSettings
    PROVE  /\ [r EXCEPT !.answered = n] \in SweepRows /\ [r EXCEPT !.tokens = n] \in SweepRows
           /\ [r EXCEPT !.error = TRUE] \in SweepRows /\ [r EXCEPT !.setting = s] \in SweepRows
BY DEF SweepRows

\* The steps of the threads.
LEMMA ThreadsGo ==
    ASSUME SweepInv, NEW j \in Sweeping!Jobs, Sweeping!Work(j) PROVE SweepGoes
<1> USE DEF SweepInv, SweepTyped
<1>1. CASE Sweeping!Begin(j)
  <2>1. /\ job[j] = "queued" /\ rowsFile' = rowsFile /\ setting' = setting
        /\ job' = [job EXCEPT ![j] = "running"]
        /\ sweepPaid' = [sweepPaid EXCEPT ![j] = sweepPaid[j] + 1]
        /\ row' = [row EXCEPT ![j] = [row[j] EXCEPT !.setting = setting]]
    BY <1>1 DEF Sweeping!Begin
  <2>2. Sweeping!Stored' = Sweeping!Stored
    BY <2>1 DEF Sweeping!Stored, Sweeping!Rows
  <2>3. SweepTyped'
    <3>1. row[j] \in SweepRows
      OBVIOUS
    <3>2. row' \in [Sweeping!Jobs -> SweepRows]
      BY <2>1, <3>1, RowGathers
    <3> QED
      BY <2>1, <3>2 DEF SweepStates
  <2>4. SweepInv'
    BY <2>1, <2>2, <2>3
  <2>5. Sweeping!Promise!Pay(j)
    BY <2>1, <2>2 DEF Sweeping!Promise!Pay
  <2> QED
    BY <2>4, <2>5 DEF SweepGoes, Sweeping!Promise!Next
<1>2. CASE Sweeping!Answer(j) \/ Sweeping!Judge(j) \/ Sweeping!Fail(j)
  <2>1. /\ job[j] = "running" /\ rowsFile' = rowsFile /\ setting' = setting
        /\ sweepPaid' = sweepPaid
        /\ job' = job \/ job' = [job EXCEPT ![j] = "judged"]
    BY <1>2 DEF Sweeping!Answer, Sweeping!Judge, Sweeping!Fail
  <2>2. Sweeping!Stored' = Sweeping!Stored
    BY <2>1 DEF Sweeping!Stored, Sweeping!Rows
  <2>3. row' \in [Sweeping!Jobs -> SweepRows]
    <3>1. row[j] \in SweepRows
      OBVIOUS
    <3>2. row[j].answered + 1 \in Nat /\ row[j].tokens + row[j].answered \in Nat
      BY <3>1 DEF SweepRows
    <3>3. \/ row' = [row EXCEPT ![j] = [row[j] EXCEPT !.answered = row[j].answered + 1]]
          \/ row' = [row EXCEPT ![j] =
                        [row[j] EXCEPT !.tokens = row[j].tokens + row[j].answered]]
          \/ row' = [row EXCEPT ![j] = [row[j] EXCEPT !.error = TRUE]]
      BY <1>2 DEF Sweeping!Answer, Sweeping!Judge, Sweeping!Fail
    <3> HIDE DEF SweepInv, SweepTyped
    <3>4. row \in [Sweeping!Jobs -> SweepRows] /\ setting \in SweepSettings
      BY DEF SweepInv, SweepTyped
    <3> QED
      BY <3>1, <3>2, <3>3, <3>4, RowGathers
  <2>4. job' \in [Sweeping!Jobs -> SweepStates]
    BY <2>1 DEF SweepStates
  <2>5. SweepInv'
    BY <2>1, <2>2, <2>3, <2>4
  <2> QED
    BY <2>1, <2>2, <2>5 DEF SweepGoes
<1>3. CASE Sweeping!AppendRow(j) \/ Sweeping!AppendFails(j)
  <2>1. /\ job[j] = "judged" /\ setting' = setting /\ row' = row /\ sweepPaid' = sweepPaid
        /\ job' = [job EXCEPT ![j] = "done"] \/ job' = [job EXCEPT ![j] = "raised"]
        /\ \/ rowsFile' = Append(rowsFile, Sweeping!Line(j, "whole", TRUE))
           \/ rowsFile' \in Sweeping!Cuts(j)
    BY <1>3 DEF Sweeping!AppendRow, Sweeping!AppendFails
  <2>2. /\ rowsFile' \in Seq(SweepLines)
        /\ Sweeping!Stored' \in {Sweeping!Stored, Sweeping!Stored \cup {j}}
    BY <2>1, CutStoresOne
  <2>3. job' \in [Sweeping!Jobs -> SweepStates] /\ job'[j] \in {"done", "raised"}
        /\ \A i \in Sweeping!Jobs : i # j => job'[i] = job[i]
    BY <2>1 DEF SweepStates
  <2>4. SweepInv'
    BY <2>1, <2>2, <2>3
  <2> QED
    BY <2>1, <2>2, <2>4, CutImplements DEF SweepGoes
<1> QED
  BY <1>1, <1>2, <1>3 DEF Sweeping!Work

\* The steps of the main thread, and the end of the process.
LEMMA MainGoes ==
    ASSUME SweepInv,
           \/ \E r \in Selections, s \in SweepSettings : Sweeping!Start(r, s)
           \/ Sweeping!Main \/ Sweeping!Interrupt \/ Sweeping!Kill
    PROVE  SweepGoes
<1> USE DEF SweepInv, SweepTyped
<1>1. CASE \E r \in Selections, s \in SweepSettings : Sweeping!Start(r, s)
  <2>1. PICK r \in Selections, s \in SweepSettings : Sweeping!Start(r, s)
    BY <1>1
  <2>2. /\ setting' = s /\ row' = [j \in Sweeping!Jobs |-> Sweeping!NoRow]
        /\ rowsFile' = rowsFile /\ sweepPaid' = sweepPaid
        /\ \/ job' = [j \in Sweeping!Jobs |->
                         IF j \in Sweeping!Range(r) \ Sweeping!Stored THEN "queued" ELSE "none"]
           \/ job' = [j \in Sweeping!Jobs |-> "none"]
    BY <2>1 DEF Sweeping!Start
  <2>3. Sweeping!Stored' = Sweeping!Stored
    BY <2>2 DEF Sweeping!Stored, Sweeping!Rows
  <2>4. SweepTyped'
    <3>1. Sweeping!NoRow \in SweepRows
      BY DEF SweepRows, Sweeping!NoRow
    <3> QED
      BY <2>2, <3>1 DEF SweepStates
  <2>5. SweepInv'
    BY <2>2, <2>3, <2>4
  <2> QED
    BY <2>2, <2>3, <2>5 DEF SweepGoes
<1>2. CASE Sweeping!Main \/ Sweeping!Interrupt
  <2>1. /\ setting' = setting /\ row' = row /\ rowsFile' = rowsFile /\ sweepPaid' = sweepPaid
        /\ \/ job' = [j \in Sweeping!Jobs |-> IF job[j] = "queued" THEN "none" ELSE job[j]]
           \/ job' = [j \in Sweeping!Jobs |-> "none"]
    BY <1>2 DEF Sweeping!Main, Sweeping!Interrupt, Sweeping!ResultRaises, Sweeping!Drain,
                Sweeping!Drained, Sweeping!Summarize
  <2>2. Sweeping!Stored' = Sweeping!Stored
    BY <2>1 DEF Sweeping!Stored, Sweeping!Rows
  <2>3. SweepTyped'
    BY <2>1 DEF SweepStates
  <2>4. SweepInv'
    BY <2>1, <2>2, <2>3
  <2> QED
    BY <2>1, <2>2, <2>4 DEF SweepGoes
<1>3. CASE Sweeping!Kill
  <2>1. /\ setting' = setting /\ row' = row /\ sweepPaid' = sweepPaid
        /\ job' = [j \in Sweeping!Jobs |-> "none"]
        /\ \/ rowsFile' = rowsFile
           \/ \E j \in Sweeping!Jobs : job[j] = "judged" /\ rowsFile' \in Sweeping!Cuts(j)
    BY <1>3 DEF Sweeping!Kill
  <2>2. CASE rowsFile' = rowsFile
    <3>1. Sweeping!Stored' = Sweeping!Stored
      BY <2>2 DEF Sweeping!Stored, Sweeping!Rows
    <3>2. SweepInv'
      BY <2>1, <2>2, <3>1 DEF SweepStates
    <3> QED
      BY <2>1, <3>1, <3>2 DEF SweepGoes
  <2>3. ASSUME NEW j \in Sweeping!Jobs, job[j] = "judged", rowsFile' \in Sweeping!Cuts(j)
        PROVE  SweepGoes
    <3>1. /\ rowsFile' \in Seq(SweepLines)
          /\ Sweeping!Stored' \in {Sweeping!Stored, Sweeping!Stored \cup {j}}
      BY <2>3, CutStoresOne
    <3>2. SweepInv'
      BY <2>1, <3>1 DEF SweepStates
    <3> QED
      BY <2>1, <2>3, <3>1, <3>2, CutImplements DEF SweepGoes
  <2> QED
    BY <2>1, <2>2, <2>3
<1> QED
  BY <1>1, <1>2, <1>3

\* Every step of a scenario.
LEMMA SweepContinues ==
    SweepInv /\ [ScenarioNext]_allVars =>
        SweepInv' /\ [Sweeping!Promise!Next]_<<Sweeping!Stored, sweepPaid>>
<1> SUFFICES ASSUME SweepInv, [ScenarioNext]_allVars PROVE SweepGoes
  BY DEF SweepGoes
<1>1. Sweeping!Next \/ UNCHANGED sweepVars
  BY DEF ScenarioNext, allVars, BenchmarkStep, AnswersStep, SweepStep, TrainingStep, QueueStep,
         DeathsStep, LibraryStep, TasksStep, ContinuationStep, UpdateStep, ProposerStep,
         StartsOver
<1>2. CASE Sweeping!Next
  BY <1>2, ThreadsGo, MainGoes DEF Sweeping!Next
<1>3. CASE UNCHANGED sweepVars
  <2>1. Sweeping!Stored' = Sweeping!Stored /\ SweepInv'
    BY <1>3 DEF sweepVars, SweepInv, SweepTyped, Sweeping!Stored, Sweeping!Rows
  <2> QED
    BY <1>3, <2>1 DEF sweepVars, SweepGoes
<1> QED
  BY <1>1, <1>2, <1>3

\* run_sweep.py:430-471.  For any selections, number of threads, kills, interrupts and
\* failing appends: a row that reached the file whole is never lost, and a job that
\* has one is never answered again.
THEOREM SweepImplementsDurableWork == ScenarioSpec => SweepWorkSpec
<1>1. ScenarioInit => SweepInv /\ Sweeping!Promise!Init
  BY SweepBegins DEF ScenarioInit
<1> QED
  BY <1>1, SweepContinues, PTL
     DEF ScenarioSpec, SweepWorkSpec, Sweeping!WorkSpec, Sweeping!Promise!Spec

-----------------------------------------------------------------------------
(* The search for a library: induction over numbers, and the order of ranks.   *)

\* A set of numbers that is not empty has a least one.
LEMMA LeastOf ==
    ASSUME NEW T \in SUBSET Nat, T # {} PROVE \E m \in T : \A n \in T : m <= n
<1>1. PICK m \in T : \A n \in T : ~(<<n, m>> \in OpToRel(<, Nat))
  BY NatLessThanWellFounded, WFMin
<1>2. \A n \in T : n < m => <<n, m>> \in OpToRel(<, Nat)
  BY DEF OpToRel
<1>3. \A n \in T : ~(n < m)
  BY <1>1, <1>2
<1>4. \A n \in T : n \in Nat /\ m \in Nat
  OBVIOUS
<1>5. \A n \in T : m <= n
  BY <1>3, <1>4
<1> QED
  BY <1>5

\* Induction over the numbers, for a set of them.
LEMMA AllNumbers == ASSUME NEW T \in SUBSET Nat, 0 \in T, \A n \in T : n + 1 \in T PROVE T = Nat
<1> SUFFICES ASSUME Nat \ T # {} PROVE FALSE
  OBVIOUS
<1>1. PICK m \in Nat \ T : \A n \in Nat \ T : m <= n
  BY LeastOf
<1>2. m # 0 /\ m - 1 \in Nat /\ m - 1 \in T
  BY <1>1
<1> QED
  BY <1>1, <1>2

\* A set of numbers up to n that is not empty has a greatest one.
LEMMA GreatestOf ==
    ASSUME NEW n \in Nat, NEW s \in SUBSET (1..n), s # {}
    PROVE  Library!Max(s) \in s /\ \A x \in s : x <= Library!Max(s)
<1> DEFINE T == {n - x : x \in s}
<1>1. T \in SUBSET Nat /\ T # {}
  <2>1. \A x \in s : x \in 1..n
    OBVIOUS
  <2>2. \A x \in 1..n : n - x \in Nat
    OBVIOUS
  <2> QED
    BY <2>1, <2>2
<1>2. PICK m \in T : \A y \in T : m <= y
  <2> HIDE DEF T
  <2> QED
    BY <1>1, LeastOf
<1>3. PICK g \in s : m = n - g
  BY <1>2
<1>4. \A x \in s : g >= x
  <2> SUFFICES ASSUME NEW x \in s PROVE g >= x
    OBVIOUS
  <2>1. n - g <= n - x
    BY <1>2, <1>3
  <2> QED
    BY <2>1
<1>5. /\ Library!Max(s) \in s /\ \A x \in s : Library!Max(s) >= x
  BY <1>3, <1>4, Zenon DEF Library!Max
<1>6. \A x \in s : x \in 1..n
  OBVIOUS
<1>7. \A x, y \in 1..n : y >= x => x <= y
  OBVIOUS
<1> HIDE DEF T
<1> QED
  BY <1>5, <1>6, <1>7

\* Tuples of numbers are ordered: what is above another is above all that is not.
LEMMA Above ==
    ASSUME NEW n \in Nat, NEW a \in [1..n -> Int], NEW b \in [1..n -> Int], NEW c \in [1..n -> Int],
           Library!Lexically(a, b), ~Library!Lexically(c, b)
    PROVE  Library!Lexically(a, c)
<1>1. PICK i \in 1..n : a[i] > b[i] /\ \A j \in 1..i - 1 : a[j] = b[j]
  BY DEF Library!Lexically
<1>2. ASSUME NEW h \in 1..n, \A j \in 1..h - 1 : c[j] = b[j]
      PROVE  c[h] <= b[h]
  <2>1. ~(c[h] > b[h])
    BY <1>2 DEF Library!Lexically
  <2> QED
    BY <2>1
<1>3. CASE \A j \in 1..i - 1 : c[j] = b[j]
  <2>1. c[i] <= b[i] /\ a[i] > c[i]
    BY <1>1, <1>2, <1>3
  <2>2. \A j \in 1..i - 1 : a[j] = c[j]
    BY <1>1, <1>3
  <2> QED
    BY <2>1, <2>2 DEF Library!Lexically
<1>4. CASE \E j \in 1..i - 1 : c[j] # b[j]
  <2> DEFINE T == {j \in 1..i - 1 : c[j] # b[j]}
  <2>1. T \in SUBSET Nat /\ T # {}
    <3>1. 1..i - 1 \subseteq Nat
      OBVIOUS
    <3> QED
      BY <1>4, <3>1, Zenon
  <2>2. PICK m \in T : \A j \in T : m <= j
    <3> HIDE DEF T
    <3> QED
      BY <2>1, LeastOf
  <2>3. m \in 1..n /\ m \in 1..i - 1 /\ c[m] # b[m]
    BY <2>2
  <2>4. \A j \in 1..m - 1 : c[j] = b[j]
    <3> SUFFICES ASSUME NEW j \in 1..m - 1, c[j] # b[j] PROVE FALSE
      OBVIOUS
    <3>1. j \in T /\ m <= j
      BY <2>2, <2>3
    <3> QED
      BY <2>3, <3>1
  <2>5. c[m] <= b[m] /\ a[m] = b[m]
    BY <1>1, <1>2, <2>3, <2>4
  <2>6. a[m] > c[m]
    BY <2>3, <2>5
  <2>7. \A j \in 1..m - 1 : a[j] = c[j]
    BY <1>1, <2>3, <2>4
  <2> QED
    BY <2>3, <2>6, <2>7 DEF Library!Lexically
<1> QED
  BY <1>3, <1>4

\* Of two tuples one at most is above the other.
LEMMA NotBothAbove ==
    ASSUME NEW n \in Nat, NEW a \in [1..n -> Int], NEW b \in [1..n -> Int],
           Library!Lexically(a, b)
    PROVE  ~Library!Lexically(b, a)
<1>1. PICK i \in 1..n : a[i] > b[i] /\ \A j \in 1..i - 1 : a[j] = b[j]
  BY DEF Library!Lexically
<1>2. SUFFICES ASSUME NEW m \in 1..n, b[m] > a[m], \A j \in 1..m - 1 : b[j] = a[j] PROVE FALSE
  BY DEF Library!Lexically
<1>3. i < m \/ m < i \/ i = m
  OBVIOUS
<1> QED
  BY <1>1, <1>2, <1>3

\* A tuple is not above itself.
LEMMA NotAboveItself ==
    ASSUME NEW n \in Nat, NEW a \in [1..n -> Int]
    PROVE  ~Library!Lexically(a, a)
BY NotBothAbove

-----------------------------------------------------------------------------
(* The best of the lines so far, and the fold that finds it                    *)

ModuleKinds == [loads : BOOLEAN, size : Nat, outs : [LibraryTasks -> Int]]
Verified ==
    [slot : Library!Slots, kind : ModuleKinds, loadError : BOOLEAN, outs : [LibraryTasks -> Int]]

\* A module that a proposer writes, or the empty one.
LEMMA KindIs ==
    ASSUME NEW kind \in LibraryKinds \cup {Library!Silent} PROVE kind \in ModuleKinds
<1>1. kind \in LibraryKinds => kind \in ModuleKinds
  BY LibraryAssumption DEF ModuleKinds
<1>2. Library!NoOutput \in [LibraryTasks -> Int]
  BY DEF Library!NoOutput
<1>3. Library!Silent \in ModuleKinds
  BY <1>2 DEF ModuleKinds, Library!Silent
<1> QED
  BY <1>1, <1>3

\* No record is a half-written line, or none at all.
LEMMA VerifiedIs ==
    /\ \A r \in Verified : r # Library!None /\ r # Library!Torn
    /\ Library!None # Library!Torn
<1>1. DOMAIN Library!None = {"none"} /\ DOMAIN Library!Torn = {"torn"}
  BY DEF Library!None, Library!Torn
<1>2. \A r \in Verified : "slot" \in DOMAIN r
  BY DEF Verified
<1>3. "slot" # "none" /\ "slot" # "torn" /\ "torn" # "none"
  OBVIOUS
<1> QED
  BY <1>1, <1>2, <1>3

\* The rank of a record, by what the command line says of labels.
RankBy(byShown, r) == IF byShown THEN Library!RankShown(r) ELSE Library!RankTeaching(r)
Width(byShown) == IF byShown THEN 5 ELSE 3

\* The library counts as FiniteSets does.
LEMMA SameSize == \A S : Library!Cardinality(S) = Cardinality(S)
BY Zenon DEF Library!Cardinality, Cardinality

\* A rank is a tuple of numbers.
LEMMA RankIs ==
    ASSUME NEW byShown, NEW r \in Verified
    PROVE  Width(byShown) \in Nat /\ RankBy(byShown, r) \in [1..Width(byShown) -> Int]
<1>1. IsFiniteSet(LibraryTasks)
  BY LibraryAssumption
<1>2. \A S \in SUBSET LibraryTasks : Library!Cardinality(S) \in Nat
  BY <1>1, FS_Subset, FS_CardinalityType, SameSize
<1>3. /\ Library!Mean(r) \in Nat /\ Library!ShownFit(r) \in Nat /\ Library!Clean(r) \in Nat
  <2>1. /\ Library!Right(r) \in SUBSET LibraryTasks /\ Library!Answered(r) \in SUBSET LibraryTasks
        /\ Library!Right(r) \cap LibraryShown \in SUBSET LibraryTasks
    BY DEF Library!Right, Library!Answered
  <2> QED
    BY <1>2, <2>1 DEF Library!Mean, Library!ShownFit, Library!Clean
<1>4. \A b : Library!Bit(b) \in Int
  BY DEF Library!Bit
<1>5. -r.kind.size \in Int
  BY DEF Verified, ModuleKinds
<1>6. CASE byShown
  <2>1. RankBy(byShown, r) = <<Library!ShownFit(r), Library!Clean(r), Library!Bit(Library!Varied(r)),
                               Library!Bit(~r.loadError), -r.kind.size>>
    BY <1>6 DEF RankBy, Library!RankShown
  <2>2. \A a, b, c, d, e \in Int : <<a, b, c, d, e>> \in [1..5 -> Int]
    OBVIOUS
  <2> QED
    <3>1. /\ Library!ShownFit(r) \in Int /\ Library!Clean(r) \in Int
          /\ Library!Bit(Library!Varied(r)) \in Int /\ Library!Bit(~r.loadError) \in Int
      BY <1>3, <1>4
    <3>2. RankBy(byShown, r) \in [1..5 -> Int]
      BY <1>5, <2>1, <2>2, <3>1
    <3> QED
      BY <1>6, <3>2 DEF Width
<1>7. CASE ~byShown
  <2>1. RankBy(byShown, r) = <<Library!Mean(r), Library!Bit(~r.loadError), -r.kind.size>>
    BY <1>7 DEF RankBy, Library!RankTeaching
  <2>2. \A a, b, c \in Int : <<a, b, c>> \in [1..3 -> Int]
    OBVIOUS
  <2> QED
    <3>1. Library!Mean(r) \in Int /\ Library!Bit(~r.loadError) \in Int
      BY <1>3, <1>4
    <3>2. RankBy(byShown, r) \in [1..3 -> Int]
      BY <1>5, <2>1, <2>2, <3>1
    <3> QED
      BY <1>7, <3>2 DEF Width
<1> QED
  BY <1>6, <1>7

\* r is ranked above b.
Outranks(byShown, r, b) == Library!Lexically(RankBy(byShown, r), RankBy(byShown, b))

\* Ranks are ordered as their tuples are.
LEMMA OutranksIs ==
    ASSUME NEW byShown, NEW r \in Verified, NEW b \in Verified, NEW c \in Verified
    PROVE  /\ Outranks(byShown, r, b) /\ ~Outranks(byShown, c, b) => Outranks(byShown, r, c)
           /\ Outranks(byShown, r, b) => ~Outranks(byShown, b, r)
           /\ ~Outranks(byShown, r, r)
<1>1. /\ Width(byShown) \in Nat
      /\ RankBy(byShown, r) \in [1..Width(byShown) -> Int]
      /\ RankBy(byShown, b) \in [1..Width(byShown) -> Int]
      /\ RankBy(byShown, c) \in [1..Width(byShown) -> Int]
  BY RankIs
<1> QED
  BY <1>1, Above, NotBothAbove, NotAboveItself DEF Outranks

\* b is the first of the best of the first m lines of f.
BestUpto(byShown, b, f, m) ==
    IF m = 0 THEN b = Library!None
    ELSE \E i \in 1..m : /\ b = f[i]
                         /\ \A j \in 1..m : IF j < i THEN Outranks(byShown, f[i], f[j])
                                            ELSE ~Outranks(byShown, f[j], f[i])

\* The better of the best so far and the next.
BetterBy(byShown, r, b) == IF b = Library!None \/ Outranks(byShown, r, b) THEN r ELSE b

\* One line more.
LEMMA BestGrows ==
    ASSUME NEW byShown, NEW f \in Seq(Verified), NEW m \in Nat, m + 1 <= Len(f), NEW b,
           BestUpto(byShown, b, f, m)
    PROVE  BestUpto(byShown, BetterBy(byShown, f[m + 1], b), f, m + 1)
<1> DEFINE r == f[m + 1]
<1>1. r \in Verified /\ \A j \in 1..m + 1 : f[j] \in Verified
  <2>1. \A j \in 1..m + 1 : j \in 1..Len(f)
    OBVIOUS
  <2> QED
    BY <2>1
<1>2. m + 1 # 0 /\ m + 1 \in 1..m + 1
  OBVIOUS
<1>3. CASE m = 0
  <2>1. BetterBy(byShown, r, b) = r
    BY <1>3 DEF BestUpto, BetterBy
  <2>2. ~Outranks(byShown, r, r)
    BY <1>1, OutranksIs
  <2>3. \A j \in 1..m + 1 : f[j] = r /\ ~(j < m + 1)
    BY <1>3
  <2> QED
    BY <1>2, <2>1, <2>2, <2>3 DEF BestUpto
<1>4. CASE m # 0
  <2>1. PICK i \in 1..m : /\ b = f[i]
                          /\ \A j \in 1..m : IF j < i THEN Outranks(byShown, f[i], f[j])
                                             ELSE ~Outranks(byShown, f[j], f[i])
    BY <1>4 DEF BestUpto
  <2>2. b \in Verified /\ b # Library!None
    BY <1>1, <2>1, VerifiedIs
  <2>3. CASE Outranks(byShown, r, b)
    <3>1. BetterBy(byShown, r, b) = r
      BY <2>3 DEF BetterBy
    <3>2. ASSUME NEW j \in 1..m PROVE Outranks(byShown, r, f[j])
      <4>1. ~Outranks(byShown, f[j], b)
        <5>1. f[j] \in Verified
          BY <1>1
        <5>2. CASE j < i
          BY <2>1, <2>2, <5>1, <5>2, OutranksIs
        <5>3. CASE ~(j < i)
          BY <2>1, <5>3
        <5> QED
          BY <5>2, <5>3
      <4>2. f[j] \in Verified
        BY <1>1
      <4> QED
        BY <1>1, <2>2, <2>3, <4>1, <4>2, OutranksIs
    <3>3. ~Outranks(byShown, r, r)
      BY <1>1, OutranksIs
    <3>4. \A j \in 1..m + 1 : IF j < m + 1 THEN Outranks(byShown, r, f[j])
                              ELSE ~Outranks(byShown, f[j], r)
      <4> SUFFICES ASSUME NEW j \in 1..m + 1
                   PROVE  IF j < m + 1 THEN Outranks(byShown, r, f[j])
                          ELSE ~Outranks(byShown, f[j], r)
        OBVIOUS
      <4>1. CASE j < m + 1
        <5>1. j \in 1..m
          BY <4>1
        <5> QED
          BY <3>2, <4>1, <5>1
      <4>2. CASE ~(j < m + 1)
        <5>1. j = m + 1
          BY <4>2
        <5> QED
          BY <3>3, <4>2, <5>1
      <4> QED
        BY <4>1, <4>2
    <3> HIDE DEF r
    <3> QED
      BY <1>2, <3>1, <3>4 DEF BestUpto, r
  <2>4. CASE ~Outranks(byShown, r, b)
    <3>1. BetterBy(byShown, r, b) = b
      BY <2>2, <2>4 DEF BetterBy
    <3>2. \A j \in 1..m + 1 : IF j < i THEN Outranks(byShown, f[i], f[j])
                              ELSE ~Outranks(byShown, f[j], f[i])
      <4> SUFFICES ASSUME NEW j \in 1..m + 1
                   PROVE  IF j < i THEN Outranks(byShown, f[i], f[j])
                          ELSE ~Outranks(byShown, f[j], f[i])
        OBVIOUS
      <4>1. CASE j \in 1..m
        BY <2>1, <4>1
      <4>2. CASE j \notin 1..m
        <5>1. j = m + 1 /\ ~(j < i)
          BY <4>2
        <5> QED
          BY <2>1, <2>4, <5>1
      <4> QED
        BY <4>1, <4>2
    <3>3. i \in 1..m + 1
      OBVIOUS
    <3> QED
      BY <1>2, <2>1, <3>1, <3>2, <3>3 DEF BestUpto
  <2> QED
    BY <2>3, <2>4
<1> QED
  BY <1>3, <1>4

\* Lines that are the same have the same best.
LEMMA BestOfSame ==
    ASSUME NEW byShown, NEW b, NEW f, NEW h, NEW m \in Nat, \A i \in 1..m : h[i] = f[i],
           BestUpto(byShown, b, f, m)
    PROVE  BestUpto(byShown, b, h, m)
BY Zenon DEF BestUpto

\* The fold over the parts of the lines, from their last on.
FoldStep(byShown, f, g, s) ==
    IF s = {} THEN Library!None
    ELSE BetterBy(byShown, f[Library!Max(s)], g[s \ {Library!Max(s)}])
FoldOf(byShown, f, g, m) == g = [s \in SUBSET (1..m) |-> FoldStep(byShown, f, g, s)]
BestOfLines(byShown, f) == (CHOOSE g : FoldOf(byShown, f, g, Len(f)))[1..Len(f)]

\* A part without its last number is a part of fewer.
LEMMA LastTaken ==
    ASSUME NEW n \in Nat, NEW s \in SUBSET (1..n + 1), s # {}
    PROVE  s \ {Library!Max(s)} \in SUBSET (1..n)
<1>1. n + 1 \in Nat
  OBVIOUS
<1>2. Library!Max(s) \in s /\ \A x \in s : x <= Library!Max(s)
  BY <1>1, GreatestOf
<1>3. ASSUME NEW x \in s, x # Library!Max(s) PROVE x \in 1..n
  <2>1. x \in 1..n + 1 /\ Library!Max(s) \in 1..n + 1 /\ x <= Library!Max(s)
    BY <1>2
  <2> QED
    BY <1>3, <2>1
<1> QED
  BY <1>3

\* The fold is defined for any number of lines.
LEMMA FoldsExist ==
    ASSUME NEW byShown, NEW f PROVE \A m \in Nat : \E g : FoldOf(byShown, f, g, m)
<1> DEFINE T == {m \in Nat : \E g : FoldOf(byShown, f, g, m)}
<1>1. 0 \in T
  <2> DEFINE g == [s \in SUBSET (1..0) |-> Library!None]
  <2>1. \A s \in SUBSET (1..0) : s = {}
    OBVIOUS
  <2>2. g = [s \in SUBSET (1..0) |-> FoldStep(byShown, f, g, s)]
    BY <2>1 DEF FoldStep
  <2> HIDE DEF g
  <2> QED
    BY <2>2 DEF FoldOf
<1>2. ASSUME NEW n \in T PROVE n + 1 \in T
  <2>1. PICK g : FoldOf(byShown, f, g, n)
    BY <1>2
  <2> DEFINE h == [s \in SUBSET (1..n + 1) |-> FoldStep(byShown, f, g, s)]
  <2>2. ASSUME NEW s \in SUBSET (1..n) PROVE s \in SUBSET (1..n + 1) /\ h[s] = g[s]
    <3>1. s \in SUBSET (1..n + 1)
      <4>1. \A x \in 1..n : x \in 1..n + 1
        OBVIOUS
      <4> QED
        BY <4>1
    <3>2. g[s] = FoldStep(byShown, f, g, s)
      BY <2>1 DEF FoldOf
    <3> QED
      BY <3>1, <3>2
  <2>3. ASSUME NEW s \in SUBSET (1..n + 1)
        PROVE  FoldStep(byShown, f, g, s) = FoldStep(byShown, f, h, s)
    <3>1. CASE s = {}
      BY <3>1 DEF FoldStep
    <3>2. CASE s # {}
      <4>1. s \ {Library!Max(s)} \in SUBSET (1..n)
        BY <3>2, LastTaken
      <4>2. h[s \ {Library!Max(s)}] = g[s \ {Library!Max(s)}]
        BY <2>2, <4>1
      <4> HIDE DEF h
      <4> QED
        BY <4>2 DEF FoldStep
    <3> QED
      BY <3>1, <3>2
  <2>4. h = [s \in SUBSET (1..n + 1) |-> FoldStep(byShown, f, h, s)]
    BY <2>3, Zenon
  <2> HIDE DEF h
  <2> QED
    BY <2>4 DEF FoldOf
<1>3. T \in SUBSET Nat
  OBVIOUS
<1>4. T = Nat
  <2> HIDE DEF T
  <2> QED
    BY <1>1, <1>2, <1>3, AllNumbers
<1> QED
  BY <1>4

\* What the fold finds is the best of the lines.
LEMMA FoldFindsBest ==
    ASSUME NEW byShown, NEW f \in Seq(Verified)
    PROVE  BestUpto(byShown, BestOfLines(byShown, f), f, Len(f))
<1>1. PICK g : FoldOf(byShown, f, g, Len(f)) /\ BestOfLines(byShown, f) = g[1..Len(f)]
  <2>1. Len(f) \in Nat
    OBVIOUS
  <2>2. \E g : FoldOf(byShown, f, g, Len(f))
    BY <2>1, FoldsExist
  <2> QED
    BY <2>2 DEF BestOfLines
<1> DEFINE T == {m \in Nat : m <= Len(f) => BestUpto(byShown, g[1..m], f, m)}
<1>2. \A m \in 0..Len(f) : 1..m \in SUBSET (1..Len(f))
  OBVIOUS
<1>3. 0 \in T
  <2>1. 1..0 = {} /\ {} \in SUBSET (1..Len(f))
    OBVIOUS
  <2>2. g[{}] = Library!None
    BY <1>1, <2>1 DEF FoldOf, FoldStep
  <2> QED
    BY <2>1, <2>2 DEF BestUpto
<1>4. ASSUME NEW n \in T PROVE n + 1 \in T
  <2> SUFFICES ASSUME n + 1 <= Len(f) PROVE BestUpto(byShown, g[1..n + 1], f, n + 1)
    OBVIOUS
  <2>1. BestUpto(byShown, g[1..n], f, n)
    BY <1>4
  <2>2. n \in Nat /\ n + 1 \in 0..Len(f) /\ 1..n + 1 # {}
    OBVIOUS
  <2>3. Library!Max(1..n + 1) = n + 1
    <3>1. /\ Library!Max(1..n + 1) \in 1..n + 1
          /\ \A x \in 1..n + 1 : x <= Library!Max(1..n + 1)
      <4>1. n + 1 \in Nat /\ 1..n + 1 \in SUBSET (1..n + 1)
        BY <2>2
      <4> QED
        BY <2>2, <4>1, GreatestOf
    <3>2. n + 1 \in 1..n + 1
      BY <2>2
    <3> QED
      BY <2>2, <3>1, <3>2
  <2>4. (1..n + 1) \ {n + 1} = 1..n
    BY <2>2
  <2>5. g[1..n + 1] = BetterBy(byShown, f[n + 1], g[1..n])
    BY <1>1, <1>2, <2>2, <2>3, <2>4 DEF FoldOf, FoldStep
  <2> QED
    BY <2>1, <2>2, <2>5, BestGrows
<1>5. T \in SUBSET Nat
  OBVIOUS
<1>6. T = Nat
  <2> HIDE DEF T
  <2> QED
    BY <1>3, <1>4, <1>5, AllNumbers
<1>7. Len(f) \in T
  BY <1>6
<1> QED
  BY <1>1, <1>7

\* The fold of a resumed search is this one.
LEMMA ResumeFolds ==
    ASSUME NEW f \in Seq(Verified)
    PROVE  Library!FoldLeft(LAMBDA b, r : Library!Better(r, b), Library!None, f)
             = BestOfLines(shownOnly, f)
<1>1. DOMAIN f = 1..Len(f)
  OBVIOUS
<1>2. Library!FoldLeft(LAMBDA b, r : Library!Better(r, b), Library!None, f) =
        (CHOOSE g : g = [s \in SUBSET (DOMAIN f) |->
            IF s = {} THEN Library!None
            ELSE Library!Better(f[Library!Max(s)], g[s \ {Library!Max(s)}])])[DOMAIN f]
  BY DEF Library!FoldLeft, Library!MapThenFoldSet
<1>3. \A r, b : Library!Better(r, b) = BetterBy(shownOnly, r, b)
  BY DEF Library!Better, BetterBy, Outranks, RankBy, Library!Rank
<1> QED
  BY ZenonT(60), <1>1, <1>2, <1>3 DEF BestOfLines, FoldOf, FoldStep

-----------------------------------------------------------------------------
(* The search for a library: where an output, a record and a line come from    *)

\* An output, or a record, has what the module gives, or nothing.
Gives(kind, o) ==
    /\ \A t \in LibraryTasks : o.outs[t] \in {0, kind.outs[t]}
    /\ o.loadError => o.outs = Library!NoOutput

WorkerOutputs == [loadError : BOOLEAN, outs : [LibraryTasks -> Int]]
SearchWorkers ==
    [slot : Library!Slots, kind : ModuleKinds, results : [LibraryTasks -> Int], next : Nat \ {0},
     writing : BOOLEAN]

\* What a worker has so far is what its module gave.
Produces(w) ==
    /\ \A t \in LibraryTasks : w.results[t] \in {0, w.kind.outs[t]}
    /\ ~w.kind.loads => w.results = Library!NoOutput

SearchTyped ==
    /\ searchPc \in {"off", "loop", "verify", "read", "log", "judge", "summary", "accept", "done"}
    /\ rnd \in 0..LibraryRounds - 1 /\ k \in 0..LibraryCandidates
    /\ candidates \in Seq(Verified \cup {Library!Torn})
    /\ out \in [Library!Slots -> WorkerOutputs \cup {Library!None, Library!Torn}]
    /\ searchPc \in {"verify", "read", "log", "judge"} => k < LibraryCandidates
    /\ leftover = {}

\* The output of the slot at hand is of the worker at hand.
WorkerSound ==
    searchPc \in {"verify", "read"} =>
        /\ worker \in SearchWorkers /\ Produces(worker)
        /\ \/ out[worker.slot] \in {Library!None, Library!Torn}
           \/ out[worker.slot] \in WorkerOutputs /\ Gives(worker.kind, out[worker.slot])

RecordsSound ==
    /\ searchPc = "log" => rec \in Verified /\ Gives(rec.kind, rec)
    /\ searchPc = "judge" => candidates # <<>> /\ rec = candidates[Len(candidates)]
    /\ \A i \in DOMAIN candidates :
          candidates[i] # Library!Torn => Gives(candidates[i].kind, candidates[i])

\* A search that runs has read every line, and knows the best of them.
BestSound ==
    /\ searchPc \notin {"off", "done"} => candidates \in Seq(Verified)
    /\ searchPc \in {"loop", "verify", "read", "log", "summary", "accept"} =>
          BestUpto(shownOnly, best, candidates, Len(candidates))
    /\ searchPc = "judge" => BestUpto(shownOnly, best, candidates, Len(candidates) - 1)
    /\ searchPc = "accept" => summary.best = best
    /\ searchPc \in {"summary", "accept"} => candidates # <<>>
    /\ searchPc \notin {"off", "done"} /\ candidates = <<>> => rnd = 0 /\ k = 0 /\ tried = {}

SearchInv == SearchTyped /\ WorkerSound /\ RecordsSound /\ BestSound

\* No line is written.
LEMMA SearchBegins == Library!Init => SearchInv
<1> SUFFICES ASSUME Library!Init PROVE SearchInv
  OBVIOUS
<1> USE DEF Library!Init
<1>1. SearchTyped
  <2>1. 0 \in 0..LibraryRounds - 1 /\ 0 \in 0..LibraryCandidates
    BY LibraryAssumption
  <2> QED
    BY <2>1 DEF SearchTyped
<1>2. WorkerSound /\ BestSound
  BY DEF WorkerSound, BestSound
<1>3. RecordsSound
  <2>1. DOMAIN candidates = {}
    OBVIOUS
  <2> QED
    BY <2>1 DEF RecordsSound
<1> QED
  BY <1>1, <1>2, <1>3 DEF SearchInv

\* A file without a half-written line has records only.
LEMMA AllParse ==
    ASSUME candidates \in Seq(Verified \cup {Library!Torn}),
           Library!Torn \notin Library!ToSet(candidates)
    PROVE  candidates \in Seq(Verified)
<1>1. \A i \in 1..Len(candidates) : candidates[i] \in Verified
  BY DEF Library!ToSet
<1>2. Len(candidates) \in Nat /\ candidates = [i \in 1..Len(candidates) |-> candidates[i]]
  OBVIOUS
<1> QED
  BY <1>1, <1>2

\* A start, with every line read or none.
LEMMA SearchStarts ==
    ASSUME SearchInv, Library!Start PROVE SearchInv'
<1> USE DEF SearchInv
<1>1. /\ searchPc = "off" /\ shownOnly' = shownOnly /\ candidates' = candidates /\ out' = out
      /\ leftover' = leftover /\ summary' = summary /\ rec' = rec /\ worker' = worker
  BY DEF Library!Start, Library!disk
<1>2. CASE Library!Torn \in Library!ToSet(candidates)
  <2>1. searchPc' = "off" /\ rnd' = rnd /\ k' = k
    BY <1>1, <1>2 DEF Library!Start, Library!search
  <2> QED
    BY <1>1, <2>1 DEF SearchTyped, WorkerSound, RecordsSound, BestSound
<1>3. CASE Library!Torn \notin Library!ToSet(candidates)
  <2>1. /\ searchPc' = "loop" /\ rnd' = 0 /\ k' = 0
        /\ tried' = {r.slot : r \in Library!ToSet(candidates)}
        /\ best' = Library!FoldLeft(LAMBDA b, r : Library!Better(r, b), Library!None, candidates)
    BY <1>3 DEF Library!Start, Library!Resume
  <2>2. candidates \in Seq(Verified)
    BY <1>3, AllParse DEF SearchTyped
  <2>3. BestUpto(shownOnly, best', candidates, Len(candidates))
    BY <2>1, <2>2, ResumeFolds, FoldFindsBest
  <2>4. candidates = <<>> => tried' = {}
    <3>1. SUFFICES ASSUME candidates = <<>> PROVE tried' = {}
      OBVIOUS
    <3>2. DOMAIN candidates = {}
      BY <3>1
    <3>3. Library!ToSet(candidates) = {}
      BY <3>2 DEF Library!ToSet
    <3> QED
      BY <2>1, <3>3
  <2>5. SearchTyped'
    <3>1. 0 \in 0..LibraryRounds - 1 /\ 0 \in 0..LibraryCandidates
      BY LibraryAssumption
    <3> QED
      BY <1>1, <2>1, <3>1 DEF SearchTyped
  <2>6. WorkerSound' /\ RecordsSound'
    BY <1>1, <2>1 DEF WorkerSound, RecordsSound
  <2>7. BestSound'
    BY <1>1, <2>1, <2>2, <2>3, <2>4 DEF BestSound
  <2> QED
    BY <2>5, <2>6, <2>7
<1> QED
  BY <1>2, <1>3

\* The loops: a slot passed over, a slot drawn, a round ended.
LEMMA SearchLoops ==
    ASSUME SearchInv, Library!Skip \/ Library!Draw \/ Library!EndRound PROVE SearchInv'
<1> USE DEF SearchInv
<1>1. /\ searchPc = "loop" /\ shownOnly' = shownOnly /\ candidates' = candidates
      /\ leftover' = leftover /\ rec' = rec /\ best' = best /\ tried' = tried
  BY DEF Library!Skip, Library!Draw, Library!EndRound, Library!disk, Library!search
<1>2. CASE Library!Skip
  <2>1. /\ k < LibraryCandidates /\ k' = k + 1 /\ rnd' = rnd /\ searchPc' = searchPc /\ out' = out
        /\ tried # {} /\ worker' = worker
    BY <1>2 DEF Library!Skip, Library!disk
  <2>2. SearchTyped'
    <3>1. k + 1 \in 0..LibraryCandidates
      BY <2>1, LibraryAssumption DEF SearchTyped
    <3> QED
      BY <1>1, <2>1, <3>1 DEF SearchTyped
  <2> QED
    BY <1>1, <2>1, <2>2 DEF WorkerSound, RecordsSound, BestSound
<1>3. CASE Library!Draw
  <2>1. PICK kind \in LibraryKinds \cup {Library!Silent} :
            worker' = [slot |-> <<rnd, k>>, kind |-> kind, results |-> Library!NoOutput,
                       next |-> 1, writing |-> FALSE]
    BY <1>3 DEF Library!Draw
  <2>2. /\ k < LibraryCandidates /\ searchPc' = "verify" /\ rnd' = rnd /\ k' = k
        /\ out' = [out EXCEPT ![<<rnd, k>>] = Library!None]
    BY <1>3 DEF Library!Draw, Library!RemoveOutput, Library!search
  <2>3. <<rnd, k>> \in Library!Slots
    <3>1. k \in 0..LibraryCandidates - 1 /\ rnd \in 0..LibraryRounds - 1
      BY <2>2, LibraryAssumption DEF SearchTyped
    <3> QED
      BY <3>1 DEF Library!Slots
  <2>4. SearchTyped'
    BY <1>1, <2>2 DEF SearchTyped
  <2>5. WorkerSound'
    <3>1. worker' \in SearchWorkers
      <4>1. kind \in ModuleKinds
        BY KindIs
      <4>2. Library!NoOutput \in [LibraryTasks -> Int]
        BY DEF Library!NoOutput
      <4> QED
        BY <2>1, <2>3, <4>1, <4>2 DEF SearchWorkers
    <3>2. Produces(worker')
      BY <2>1 DEF Produces, Library!NoOutput
    <3>3. out'[worker'.slot] = Library!None
      BY <2>1, <2>2, <2>3 DEF SearchTyped
    <3> QED
      BY <3>1, <3>2, <3>3 DEF WorkerSound, Produces
  <2> QED
    BY <1>1, <2>2, <2>4, <2>5 DEF RecordsSound, BestSound
<1>4. CASE Library!EndRound
  <2>1. /\ k = LibraryCandidates /\ out' = out /\ worker' = worker
        /\ \/ searchPc' = "summary" /\ rnd' = rnd /\ k' = k
           \/ searchPc' = "loop" /\ rnd' = rnd + 1 /\ k' = 0 /\ rnd + 1 # LibraryRounds
    BY <1>1, <1>4 DEF Library!EndRound, Library!NoRoundLeft, Library!disk, Library!search
  <2>2. candidates # <<>>
    BY <1>1, <2>1, LibraryAssumption DEF BestSound
  <2>3. rnd' \in 0..LibraryRounds - 1 /\ k' \in 0..LibraryCandidates
    BY <2>1, LibraryAssumption DEF SearchTyped
  <2>4. SearchTyped'
    BY <1>1, <2>1, <2>3 DEF SearchTyped
  <2> QED
    BY <1>1, <2>1, <2>2, <2>4 DEF WorkerSound, RecordsSound, BestSound
<1> QED
  BY <1>2, <1>3, <1>4

\* A worker takes the next task.
LEMMA WorkerGoesOn ==
    ASSUME NEW w \in SearchWorkers, Produces(w), Library!More(w)
    PROVE  /\ Library!Running(w) \in SearchWorkers /\ Produces(Library!Running(w))
           /\ Library!Running(w).slot = w.slot
<1>1. Library!Cardinality(LibraryTasks) \in Nat /\ w.next \in LibraryTasks
  <2>1. PICK n \in Nat : LibraryTasks = 1..n
    BY LibraryAssumption, FS_CardinalityType
  <2>2. Library!Cardinality(LibraryTasks) = n
    BY <2>1, FS_Interval, SameSize
  <2>3. w.next \in Nat \ {0} /\ w.next <= n
    BY <2>2 DEF Library!More, SearchWorkers
  <2> QED
    BY <2>1, <2>2, <2>3
<1>2. CASE w.kind.loads
  <2> DEFINE more == [w.results EXCEPT ![w.next] = w.kind.outs[w.next]]
  <2>1. Library!Running(w) = [w EXCEPT !.results = more, !.next = w.next + 1, !.writing = TRUE]
    BY <1>2 DEF Library!Running
  <2>2. more \in [LibraryTasks -> Int] /\ \A t \in LibraryTasks : more[t] \in {0, w.kind.outs[t]}
    BY <1>1 DEF SearchWorkers, ModuleKinds, Produces
  <2> HIDE DEF more
  <2>3. Library!Running(w) = [slot |-> w.slot, kind |-> w.kind, results |-> more,
                              next |-> w.next + 1, writing |-> TRUE]
    BY <2>1 DEF SearchWorkers
  <2>4. w.next + 1 \in Nat \ {0}
    BY DEF SearchWorkers
  <2> QED
    BY <1>2, <2>2, <2>3, <2>4 DEF SearchWorkers, Produces
<1>3. CASE ~w.kind.loads
  <2> DEFINE end == Library!Cardinality(LibraryTasks) + 1
  <2>1. Library!Running(w) = [w EXCEPT !.next = end, !.writing = TRUE]
    BY <1>3 DEF Library!Running
  <2>2. end \in Nat \ {0}
    BY <1>1
  <2> HIDE DEF end
  <2>3. Library!Running(w) = [slot |-> w.slot, kind |-> w.kind, results |-> w.results,
                              next |-> end, writing |-> TRUE]
    BY <2>1 DEF SearchWorkers
  <2> QED
    BY <2>2, <2>3 DEF SearchWorkers, Produces
<1> QED
  BY <1>2, <1>3

\* The worker runs, writes, ends or is cut off.
LEMMA WorkerSteps ==
    ASSUME SearchInv,
           Library!WorkerRuns \/ Library!WorkerDumps \/ Library!WorkerEnds \/ Library!Timeout
    PROVE  SearchInv'
<1> USE DEF SearchInv
<1>1. /\ searchPc = "verify" /\ searchPc' \in {"verify", "read"} /\ shownOnly' = shownOnly
      /\ candidates' = candidates /\ leftover' = leftover /\ rec' = rec /\ summary' = summary
      /\ best' = best /\ tried' = tried /\ rnd' = rnd /\ k' = k
  BY DEF Library!WorkerRuns, Library!WorkerDumps, Library!WorkerEnds, Library!Timeout,
         Library!search, Library!disk
<1>2. RecordsSound' /\ BestSound'
  BY <1>1 DEF RecordsSound, BestSound
<1>3. worker \in SearchWorkers /\ Produces(worker) /\ worker.slot \in Library!Slots
  BY <1>1 DEF WorkerSound, SearchWorkers
<1>4. CASE Library!WorkerRuns
  <2>1. /\ Library!More(worker) /\ worker' = Library!Running(worker)
        /\ out' = [out EXCEPT ![worker.slot] = Library!Torn]
    BY <1>4 DEF Library!WorkerRuns
  <2>2. worker' \in SearchWorkers /\ Produces(worker)' /\ worker'.slot = worker.slot
    <3>1. /\ Library!Running(worker) \in SearchWorkers /\ Produces(Library!Running(worker))
          /\ Library!Running(worker).slot = worker.slot
      BY <1>3, <2>1, WorkerGoesOn
    <3> QED
      BY <2>1, <3>1 DEF Produces
  <2>3. out'[worker.slot] = Library!Torn /\ SearchTyped'
    BY <1>1, <1>3, <2>1 DEF SearchTyped
  <2> QED
    BY <1>2, <2>2, <2>3 DEF WorkerSound
<1>5. CASE Library!WorkerDumps
  <2>1. /\ out' = [out EXCEPT ![worker.slot] = Library!Output(worker)]
        /\ worker' = [worker EXCEPT !.writing = FALSE]
    BY <1>5 DEF Library!WorkerDumps
  <2>2. worker' = [slot |-> worker.slot, kind |-> worker.kind, results |-> worker.results,
                   next |-> worker.next, writing |-> FALSE]
    BY <1>3, <2>1 DEF SearchWorkers
  <2>3. worker' \in SearchWorkers /\ Produces(worker)'
    BY <1>3, <2>2 DEF SearchWorkers, Produces
  <2>4. Library!Output(worker) \in WorkerOutputs /\ Gives(worker.kind, Library!Output(worker))
    BY <1>3 DEF Library!Output, WorkerOutputs, Gives, Produces, SearchWorkers, ModuleKinds
  <2>5. out'[worker.slot] = Library!Output(worker) /\ SearchTyped'
    BY <1>1, <1>3, <2>1, <2>4 DEF SearchTyped
  <2>6. worker'.slot = worker.slot /\ worker'.kind = worker.kind
    BY <2>2
  <2> QED
    BY <1>2, <2>3, <2>4, <2>5, <2>6 DEF WorkerSound, Gives
<1>6. CASE Library!WorkerEnds \/ Library!Timeout
  <2>1. worker' = worker /\ out' = out
    BY <1>6 DEF Library!WorkerEnds, Library!Timeout, Library!disk
  <2>2. SearchTyped'
    BY <1>1, <2>1 DEF SearchTyped
  <2> QED
    BY <1>1, <1>2, <2>1, <2>2 DEF WorkerSound
<1> QED
  BY <1>4, <1>5, <1>6

\* An output is read, as the record of the module that made it.
LEMMA SearchReads ==
    ASSUME SearchInv, Library!Read PROVE SearchInv'
<1> USE DEF SearchInv
<1>1. /\ searchPc = "read" /\ shownOnly' = shownOnly /\ candidates' = candidates /\ out' = out
      /\ leftover' = leftover /\ best' = best /\ tried' = tried /\ rnd' = rnd /\ k' = k
  BY DEF Library!Read, Library!search, Library!disk
<1>2. worker \in SearchWorkers
  BY <1>1 DEF WorkerSound
<1>3. CASE out[worker.slot] = Library!Torn
  <2>1. searchPc' = "off"
    BY <1>3 DEF Library!Read
  <2> QED
    BY <1>1, <2>1 DEF SearchTyped, WorkerSound, RecordsSound, BestSound
<1>4. CASE out[worker.slot] # Library!Torn
  <2> DEFINE o == out[worker.slot]
  <2>1. /\ searchPc' = "log"
        /\ rec' = [slot |-> worker.slot, kind |-> worker.kind,
                   loadError |-> IF o = Library!None THEN TRUE ELSE o.loadError,
                   outs |-> IF o = Library!None THEN Library!NoOutput ELSE o.outs]
    BY <1>4 DEF Library!Read
  <2>2. o = Library!None \/ (o # Library!None /\ o \in WorkerOutputs /\ Gives(worker.kind, o))
    BY <1>1, <1>4 DEF WorkerSound
  <2> HIDE DEF o
  <2>3. rec' \in Verified /\ Gives(rec'.kind, rec')
    <3>1. Library!NoOutput \in [LibraryTasks -> Int]
          /\ \A t \in LibraryTasks : Library!NoOutput[t] = 0
      BY DEF Library!NoOutput
    <3>2. CASE o = Library!None
      <4>1. rec' = [slot |-> worker.slot, kind |-> worker.kind, loadError |-> TRUE,
                    outs |-> Library!NoOutput]
        BY <2>1, <3>2
      <4> QED
        BY <1>2, <3>1, <4>1 DEF Verified, Gives, SearchWorkers
    <3>3. CASE o # Library!None
      <4>1. rec' = [slot |-> worker.slot, kind |-> worker.kind, loadError |-> o.loadError,
                    outs |-> o.outs]
        BY <2>1, <3>3
      <4> QED
        BY <1>2, <2>2, <3>3, <4>1 DEF Verified, Gives, SearchWorkers, WorkerOutputs
    <3> QED
      BY <3>2, <3>3
  <2>4. SearchTyped' /\ WorkerSound'
    BY <1>1, <2>1 DEF SearchTyped, WorkerSound
  <2>5. RecordsSound'
    <3>1. (rec \in Verified /\ Gives(rec.kind, rec))'
      BY <2>3 DEF Gives
    <3> QED
      BY <1>1, <2>1, <3>1 DEF RecordsSound
  <2>6. BestSound'
    BY <1>1, <2>1 DEF BestSound
  <2> QED
    BY <2>4, <2>5, <2>6
<1> QED
  BY <1>3, <1>4

\* The record becomes a line.
LEMMA SearchLogs ==
    ASSUME SearchInv, Library!Log PROVE SearchInv'
<1> USE DEF SearchInv
<1>1. /\ searchPc = "log" /\ searchPc' = "judge" /\ shownOnly' = shownOnly /\ out' = out
      /\ leftover' = leftover /\ best' = best /\ tried' = tried /\ rnd' = rnd /\ k' = k
      /\ rec' = rec /\ candidates' = Append(candidates, rec)
  BY DEF Library!Log, Library!search
<1>2. candidates \in Seq(Verified) /\ rec \in Verified /\ Gives(rec.kind, rec)
  BY <1>1 DEF BestSound, RecordsSound
<1>3. /\ candidates' \in Seq(Verified) /\ Len(candidates) \in Nat
      /\ Len(candidates') = Len(candidates) + 1
      /\ \A i \in 1..Len(candidates) : candidates'[i] = candidates[i]
      /\ candidates'[Len(candidates) + 1] = rec
  BY <1>1, <1>2, AppendProperties
<1>4. DOMAIN candidates' = DOMAIN candidates \cup {Len(candidates) + 1}
      /\ DOMAIN candidates = 1..Len(candidates) /\ candidates' # <<>>
  BY <1>2, <1>3, LenProperties
<1>5. SearchTyped' /\ WorkerSound'
  <2>1. candidates' \in Seq(Verified \cup {Library!Torn})
    BY <1>3
  <2> QED
    BY <1>1, <2>1 DEF SearchTyped, WorkerSound
<1>6. RecordsSound'
  <2>1. \A i \in DOMAIN candidates' :
            candidates'[i] # Library!Torn => Gives(candidates'[i].kind, candidates'[i])
    BY <1>2, <1>3, <1>4 DEF RecordsSound
  <2> QED
    BY <1>1, <1>3, <1>4, <2>1 DEF RecordsSound, Gives
<1>7. BestSound'
  <2>1. BestUpto(shownOnly, best, candidates', Len(candidates))
    BY <1>1, <1>3, BestOfSame DEF BestSound
  <2>2. Len(candidates') - 1 = Len(candidates)
    BY <1>3
  <2>3. BestUpto(shownOnly, best', candidates', Len(candidates') - 1)
    BY <1>1, <2>1, <2>2
  <2> QED
    BY <1>1, <1>3, <1>4, <2>3 DEF BestSound
<1> QED
  BY <1>5, <1>6, <1>7

\* The record is the best so far, or is not.
LEMMA SearchJudges ==
    ASSUME SearchInv, Library!Judge PROVE SearchInv'
<1> USE DEF SearchInv
<1>1. /\ searchPc = "judge" /\ shownOnly' = shownOnly /\ candidates' = candidates
      /\ out' = out /\ leftover' = leftover /\ tried' = tried /\ rnd' = rnd
      /\ best' = Library!Better(rec, best)
      /\ \/ searchPc' = "summary" /\ k' = k
         \/ searchPc' = "loop" /\ k' = k + 1
  BY DEF Library!Judge, Library!AfterJudge, Library!disk
<1>2. candidates \in Seq(Verified) /\ candidates # <<>> /\ rec = candidates[Len(candidates)]
  BY <1>1 DEF BestSound, RecordsSound
<1>3. BestUpto(shownOnly, best', candidates, Len(candidates))
  <2>1. PICK m \in Nat : m + 1 = Len(candidates)
    <3>1. Len(candidates) \in Nat /\ Len(candidates) # 0
      BY <1>2, EmptySeq
    <3>2. Len(candidates) - 1 \in Nat /\ (Len(candidates) - 1) + 1 = Len(candidates)
      BY <3>1
    <3> QED
      BY <3>2
  <2>2. BestUpto(shownOnly, best, candidates, m)
    <3>1. Len(candidates) - 1 = m
      BY <2>1
    <3> QED
      BY <1>1, <3>1 DEF BestSound
  <2>3. best' = BetterBy(shownOnly, candidates[m + 1], best)
    BY <1>1, <1>2, <2>1
       DEF Library!Better, BetterBy, Outranks, RankBy, Library!Rank
  <2>4. m + 1 <= Len(candidates)
    BY <2>1
  <2> QED
    BY <1>2, <2>1, <2>2, <2>3, <2>4, BestGrows
<1>4. SearchTyped'
  <2>1. k' \in 0..LibraryCandidates
    BY <1>1, LibraryAssumption DEF SearchTyped
  <2> QED
    BY <1>1, <2>1 DEF SearchTyped
<1> QED
  BY <1>1, <1>2, <1>3, <1>4 DEF WorkerSound, RecordsSound, BestSound

\* The search reports, ends, begins again or is killed.
LEMMA SearchEnds ==
    ASSUME SearchInv, Library!Summarise \/ Library!Accept \/ Library!Again \/ Library!Kill
    PROVE  SearchInv'
<1> USE DEF SearchInv
<1>1. /\ shownOnly' = shownOnly /\ out' = out /\ leftover' = leftover
      /\ best' = best /\ tried' = tried /\ rnd' = rnd /\ k' = k
  BY DEF Library!Summarise, Library!Accept, Library!Again, Library!Kill, Library!search,
         Library!disk, SearchTyped
<1>2. CASE Library!Summarise
  <2>1. searchPc = "summary" /\ searchPc' = "accept" /\ candidates' = candidates
        /\ summary'.best = best
    BY <1>2 DEF Library!Summarise
  <2> QED
    BY <1>1, <2>1 DEF SearchTyped, WorkerSound, RecordsSound, BestSound
<1>3. CASE Library!Accept \/ Library!Again
  <2>1. searchPc' \in {"done", "off"} /\ candidates' = candidates
    BY <1>3 DEF Library!Accept, Library!Again, Library!disk
  <2> QED
    BY <1>1, <2>1 DEF SearchTyped, WorkerSound, RecordsSound, BestSound
<1>4. CASE Library!Kill
  <2>1. searchPc' = "off"
        /\ (candidates' = candidates \/ candidates' = Append(candidates, Library!Torn))
    BY <1>4 DEF Library!Kill
  <2>2. CASE candidates' = candidates
    BY <1>1, <2>1, <2>2 DEF SearchTyped, WorkerSound, RecordsSound, BestSound
  <2>3. CASE candidates' = Append(candidates, Library!Torn)
    <3>1. candidates \in Seq(Verified \cup {Library!Torn})
      BY DEF SearchTyped
    <3>2. /\ candidates' \in Seq(Verified \cup {Library!Torn}) /\ Len(candidates) \in Nat
          /\ Len(candidates') = Len(candidates) + 1
          /\ \A i \in 1..Len(candidates) : candidates'[i] = candidates[i]
          /\ candidates'[Len(candidates) + 1] = Library!Torn
      BY <2>3, <3>1, AppendProperties
    <3>3. DOMAIN candidates' = DOMAIN candidates \cup {Len(candidates) + 1}
          /\ DOMAIN candidates = 1..Len(candidates)
      BY <3>1, <3>2, LenProperties
    <3>4. \A i \in DOMAIN candidates' :
              candidates'[i] # Library!Torn => Gives(candidates'[i].kind, candidates'[i])
      BY <3>2, <3>3 DEF RecordsSound
    <3> QED
      BY <1>1, <2>1, <3>2, <3>4 DEF SearchTyped, WorkerSound, RecordsSound, BestSound, Gives
  <2> QED
    BY <2>1, <2>2, <2>3
<1> QED
  BY <1>2, <1>3, <1>4

\* Every step of the search, and of a scenario.
LEMMA SearchContinues == SearchInv /\ [ScenarioNext]_allVars => SearchInv'
<1> SUFFICES ASSUME SearchInv, [ScenarioNext]_allVars PROVE SearchInv'
  OBVIOUS
<1>1. Library!Next \/ UNCHANGED libraryVars
  BY DEF ScenarioNext, allVars, BenchmarkStep, AnswersStep, SweepStep, TrainingStep, QueueStep,
         DeathsStep, LibraryStep, TasksStep, ContinuationStep, UpdateStep, ProposerStep,
         StartsOver
<1>2. CASE Library!Next
  <2>1. ~Library!OrphanRuns
    BY DEF SearchInv, SearchTyped, Library!OrphanRuns
  <2> QED
    BY <1>2, <2>1, SearchStarts, SearchLoops, WorkerSteps, SearchReads, SearchLogs,
       SearchJudges, SearchEnds DEF Library!Next, Library!Step
<1>3. CASE UNCHANGED libraryVars
  BY <1>3 DEF libraryVars, SearchInv, SearchTyped, WorkerSound, RecordsSound, BestSound
<1> QED
  BY <1>1, <1>2, <1>3

\* bootstrap_library.py:133-160, 243-360.  However often a search is killed and started
\* again, for any tasks, modules, rounds and candidates: a line of candidates.jsonl has
\* the outputs of its own module, and the candidate that is reported is the first of
\* the best of the file.
THEOREM RecordsAlwaysTrue == ScenarioSpec => []RecordsAreTrue
<1>1. ScenarioInit => SearchInv
  BY SearchBegins DEF ScenarioInit
<1>2. SearchInv => RecordsAreTrue
  <2> SUFFICES ASSUME SearchInv PROVE RecordOfItsCode /\ BestOfFile
    BY DEF RecordsAreTrue
  <2> USE DEF SearchInv
  <2>1. RecordOfItsCode
    BY DEF RecordOfItsCode, Library!RecordOfItsCode, Library!ToSet, RecordsSound, Gives
  <2>2. BestOfFile
    <3> SUFFICES ASSUME searchPc = "accept"
                 PROVE  \E i \in DOMAIN candidates :
                          /\ summary.best = candidates[i]
                          /\ \A j \in DOMAIN candidates :
                                IF j < i THEN Outranks(shownOnly, candidates[i], candidates[j])
                                ELSE ~Outranks(shownOnly, candidates[j], candidates[i])
      BY DEF BestOfFile, Library!BestOfFile, Outranks, RankBy, Library!Rank
    <3>1. /\ candidates \in Seq(Verified) /\ candidates # <<>> /\ summary.best = best
          /\ BestUpto(shownOnly, best, candidates, Len(candidates))
      BY DEF BestSound
    <3>2. Len(candidates) # 0 /\ DOMAIN candidates = 1..Len(candidates)
      BY <3>1, EmptySeq
    <3> QED
      BY <3>1, <3>2 DEF BestUpto
  <2> QED
    BY <2>1, <2>2
<1> QED
  BY <1>1, <1>2, SearchContinues, PTL DEF ScenarioSpec
=============================================================================
