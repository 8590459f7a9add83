------------------------ MODULE TraceDurabilityProofs ------------------------
(***************************************************************************)
(* Proofs about TraceDurability, for any number of events, failing file    *)
(* operations and interrupts, with a kill or a loss of power anywhere.     *)
(*                                                                         *)
(* Until the manifest is there the trace need not be accepted, so two      *)
(* things are kept apart: what every trace keeps whatever went wrong (the  *)
(* numbers given out are at their places, and a number that was not is     *)
(* used again, Numbered), and what a run without an exception keeps in     *)
(* addition (Clean).                                                       *)
(*                                                                         *)
(* Then about the other scenarios of MCTraceDurability: RunProvenance for  *)
(* one run of any harness (OneInv), the same for any number of runs that   *)
(* overlap (TwinInv), and TracePayloads for replies of any number of lines *)
(* and runs of any number of turns and depths (PayInv).                    *)
(***************************************************************************)
EXTENDS MCTraceDurability, FiniteSetTheorems, SequenceTheorems, WellFoundedInduction, TLAPS

Types == {"run.started", "other", "run.completed", "run.failed"}
Lines == [id : Nat, type : Types, cut : BOOLEAN]

\* Where run writes an event, and where it has not had an exception.
Writing == {"start", "body", "complete", "failed"}
Unharmed == {"start", "body", "complete", "return"}

Numbered ==
    /\ file \in Seq(Lines) /\ buffer \in Seq(Lines)
    /\ nextId \in Nat /\ known = 0..(nextId - 1)
    /\ stable \in 0..Len(file)
    /\ pc \in Stages
    /\ event \in {NoEvent, "written", "flushed"}
    /\ event # NoEvent => pc \in Writing
    /\ event = "written" => buffer # <<>>
    /\ event = "flushed" => Len(file) > nextId
    /\ pc # "gone" \/ manifest # "none" =>
          /\ nextId <= Len(file)
          /\ \A i \in 1..Len(file) : i <= nextId => file[i].id = i - 1
    /\ pc \in Writing =>
          /\ \A i \in 1..Len(file) : i > nextId => file[i].id = nextId
          /\ \A i \in 1..Len(buffer) : buffer[i].id = nextId

\* What the manifest says, and what is on disk when it says so.
Closing ==
    /\ manifest \in {"none", "completed", "failed"}
    /\ manifest # "none" =>
          /\ pc \in {"directory", "gone"}
          /\ stable = Len(file) /\ buffer = <<>>
          /\ manifest = "completed" <=> error = "none"
    /\ pc \in {"fsync", "replace", "directory"} => buffer = <<>>
    /\ pc \in {"replace", "directory"} => stable = Len(file)
    /\ pc = "directory" => manifest # "none"
    /\ doomed => error # "none"
    /\ pc \in Unharmed => raised = "none"

\* The final event is in the file.
Ended == pc \notin {"start", "body", "complete"} \/ (pc = "complete" /\ event = "flushed")

\* A run that has had no exception, no kill and no loss of power.
Clean ==
    raised = "none" =>
        /\ error = "none" /\ pc # "failed"
        /\ pc = "start" <=> nextId = 0
        /\ Len(file) = IF event = "flushed" THEN nextId + 1 ELSE nextId
        /\ buffer = IF event = "written" THEN <<Line(TypeHere)>> ELSE <<>>
        /\ Ended => Len(file) > 1
        /\ \A i \in 1..Len(file) :
              /\ ~file[i].cut
              /\ file[i].id = i - 1
              /\ file[i].type = IF i = 1 THEN "run.started"
                                ELSE IF i = Len(file) /\ Ended THEN "run.completed" ELSE "other"
        /\ pc = "gone" => manifest = "completed" /\ entry

TraceInv == Numbered /\ Closing /\ Clean

-----------------------------------------------------------------------------
(* The operators of the model                                               *)

\* The line that is written at a place has the type of that place and the next
\* number.
LEMMA LineHere ==
    ASSUME nextId \in Nat, pc \in Writing
    PROVE  /\ TypeHere \in Types
           /\ Line(TypeHere) \in Lines
           /\ Line(TypeHere).id = nextId /\ ~Line(TypeHere).cut
           /\ Line(TypeHere).type = TypeHere
<1>1. TypeHere \in Types
  BY DEF TypeHere, Types, Writing
<1> QED
  BY <1>1 DEF Line, Lines

\* A flush of the whole buffer.
LEMMA WholeBuffer ==
    ASSUME file \in Seq(Lines), buffer \in Seq(Lines), file' = file \o buffer
    PROVE  /\ file' \in Seq(Lines)
           /\ Len(file') = Len(file) + Len(buffer)
           /\ Len(file) \in Nat /\ Len(buffer) \in Nat
           /\ \A i \in 1..Len(file) : file'[i] = file[i]
           /\ \A i \in 1..Len(file') : i > Len(file) =>
                 i - Len(file) \in 1..Len(buffer) /\ file'[i] = buffer[i - Len(file)]
<1>1. Len(file) \in Nat /\ Len(buffer) \in Nat
  BY LenProperties
<1>2. /\ file' \in Seq(Lines)
      /\ Len(file') = Len(file) + Len(buffer)
      /\ \A i \in 1..(Len(file) + Len(buffer)) :
            file'[i] = IF i <= Len(file) THEN file[i] ELSE buffer[i - Len(file)]
  BY ConcatProperties
<1> QED
  BY <1>1, <1>2

\* A part of the buffer at the end of the file.
LEMMA PartAtEnd ==
    ASSUME NEW s \in Seq(Lines), NEW b \in Seq(Lines), NEW n \in 0..Len(b)
    PROVE  LET t == s \o SubSeq(b, 1, n) IN
           /\ t \in Seq(Lines)
           /\ Len(t) = Len(s) + n
           /\ Len(s) \in Nat /\ Len(b) \in Nat
           /\ \A i \in 1..Len(s) : t[i] = s[i]
           /\ \A i \in 1..Len(t) : i > Len(s) => t[i] = b[i - Len(s)]
<1> DEFINE part == SubSeq(b, 1, n)
<1>1. Len(s) \in Nat /\ Len(b) \in Nat /\ n \in Nat
  BY LenProperties
<1>2. \A i \in 1..n : b[i] \in Lines
  BY <1>1, ElementOfSeq
<1>3. /\ part \in Seq(Lines) /\ Len(part) = n
      /\ \A i \in 1..n : part[i] = b[i]
  <2>1. /\ part \in Seq(Lines)
        /\ Len(part) = IF 1 <= n THEN n - 1 + 1 ELSE 0
        /\ \A i \in 1..(n - 1 + 1) : part[i] = b[1 + i - 1]
    BY <1>1, <1>2, SubSeqProperties
  <2> QED
    BY <1>1, <2>1
<1> HIDE DEF part
<1>4. /\ s \o part \in Seq(Lines)
      /\ Len(s \o part) = Len(s) + n
      /\ \A i \in 1..(Len(s) + n) :
            (s \o part)[i] = IF i <= Len(s) THEN s[i] ELSE part[i - Len(s)]
  BY <1>3, ConcatProperties
<1>5. \A i \in 1..(Len(s) + n) : i > Len(s) => i - Len(s) \in 1..n
  BY <1>1
<1> QED
  BY <1>1, <1>3, <1>4, <1>5 DEF part

\* A flush that fails keeps the file, adds lines of the buffer in their order,
\* perhaps cut, and leaves only lines of the buffer in it.
LEMMA PartOfBuffer ==
    ASSUME file \in Seq(Lines), buffer \in Seq(Lines), FlushPartly
    PROVE  /\ file' \in Seq(Lines) /\ buffer' \in Seq(Lines)
           /\ Len(file) \in Nat /\ Len(file') \in Nat /\ Len(file) <= Len(file')
           /\ \A i \in 1..Len(file) : file'[i] = file[i]
           /\ \A i \in 1..Len(file') : i > Len(file) =>
                 \E j \in 1..Len(buffer) : file'[i].id = buffer[j].id
           /\ \A i \in 1..Len(buffer') : \E j \in 1..Len(buffer) : buffer'[i] = buffer[j]
<1>1. PICK n \in 0..Len(buffer) :
        \/ /\ file' = file \o SubSeq(buffer, 1, n)
           /\ buffer' = SubSeq(buffer, n + 1, Len(buffer))
        \/ /\ n < Len(buffer)
           /\ \/ file' = file \o SubSeq(buffer, 1, n)
              \/ file' = file \o SubSeq(buffer, 1, n)
                            \o <<[buffer[n + 1] EXCEPT !.cut = TRUE]>>
           /\ buffer' = <<>>
  BY DEF FlushPartly
<1> DEFINE t == file \o SubSeq(buffer, 1, n)
<1>2. /\ t \in Seq(Lines) /\ Len(t) = Len(file) + n
      /\ Len(file) \in Nat /\ Len(buffer) \in Nat
      /\ \A i \in 1..Len(file) : t[i] = file[i]
      /\ \A i \in 1..Len(t) : i > Len(file) => t[i] = buffer[i - Len(file)]
  BY PartAtEnd
<1> HIDE DEF t
<1>3. \A i \in 1..Len(t) : i > Len(file) => i - Len(file) \in 1..Len(buffer)
  BY <1>2
<1>4. CASE file' = t
  <2>1. /\ file' \in Seq(Lines) /\ Len(file') \in Nat /\ Len(file) <= Len(file')
        /\ \A i \in 1..Len(file) : file'[i] = file[i]
        /\ \A i \in 1..Len(file') : i > Len(file) =>
              \E j \in 1..Len(buffer) : file'[i].id = buffer[j].id
    <3>1. ASSUME NEW i \in 1..Len(t), i > Len(file)
          PROVE  \E j \in 1..Len(buffer) : t[i].id = buffer[j].id
      <4>1. i - Len(file) \in 1..Len(buffer) /\ t[i] = buffer[i - Len(file)]
        BY <1>2, <1>3, <3>1
      <4> QED
        BY <4>1
    <3>2. Len(t) \in Nat /\ Len(file) <= Len(t)
      BY <1>2
    <3> QED
      BY <1>2, <1>4, <3>1, <3>2
  <2>2. buffer' \in Seq(Lines)
        /\ \A i \in 1..Len(buffer') : \E j \in 1..Len(buffer) : buffer'[i] = buffer[j]
    <3>1. CASE buffer' = <<>>
      BY <3>1, EmptySeq
    <3>2. CASE buffer' = SubSeq(buffer, n + 1, Len(buffer))
      <4>1. \A i \in (n + 1)..Len(buffer) : buffer[i] \in Lines
        BY <1>2, ElementOfSeq
      <4> DEFINE rest == SubSeq(buffer, n + 1, Len(buffer))
      <4>2. /\ buffer' \in Seq(Lines)
            /\ Len(buffer') = IF n + 1 <= Len(buffer) THEN Len(buffer) - (n + 1) + 1 ELSE 0
            /\ \A i \in 1..(Len(buffer) - (n + 1) + 1) : buffer'[i] = buffer[n + 1 + i - 1]
        <5>1. n + 1 \in Int /\ Len(buffer) \in Int
          BY <1>2
        <5>2. /\ rest \in Seq(Lines)
              /\ Len(rest) = IF n + 1 <= Len(buffer) THEN Len(buffer) - (n + 1) + 1 ELSE 0
              /\ \A i \in 1..(Len(buffer) - (n + 1) + 1) : rest[i] = buffer[n + 1 + i - 1]
          BY <4>1, <5>1, SubSeqProperties
        <5> QED
          BY <3>2, <5>2
      <4> HIDE DEF rest
      <4>3. ASSUME NEW i \in 1..Len(buffer')
            PROVE  n + 1 + i - 1 \in 1..Len(buffer) /\ i \in 1..(Len(buffer) - (n + 1) + 1)
        <5>1. n \in Nat /\ Len(buffer) \in Nat
          BY <1>2
        <5>2. n + 1 <= Len(buffer)
          BY <4>2, <5>1
        <5>3. Len(buffer') = Len(buffer) - n
          BY <4>2, <5>1, <5>2
        <5> QED
          BY <5>1, <5>3
      <4> QED
        BY <4>2, <4>3
    <3> QED
      BY <1>1, <3>1, <3>2
  <2> QED
    BY <1>2, <2>1, <2>2
<1>5. CASE file' = t \o <<[buffer[n + 1] EXCEPT !.cut = TRUE]>> /\ n < Len(buffer)
           /\ buffer' = <<>>
  <2> DEFINE last == [buffer[n + 1] EXCEPT !.cut = TRUE]
  <2>1. n + 1 \in 1..Len(buffer)
    BY <1>2, <1>5
  <2>2. buffer[n + 1] \in Lines
    BY <2>1, ElementOfSeq
  <2>3. last \in Lines /\ last.id = buffer[n + 1].id
    BY <2>2 DEF Lines
  <2> HIDE DEF last
  <2>4. <<last>> \in Seq(Lines) /\ Len(<<last>>) = 1 /\ <<last>>[1] = last
    BY <2>3
  <2>5. /\ file' \in Seq(Lines) /\ Len(file') = Len(t) + 1
        /\ \A i \in 1..(Len(t) + 1) :
              file'[i] = IF i <= Len(t) THEN t[i] ELSE <<last>>[i - Len(t)]
    BY <1>2, <1>5, <2>4, ConcatProperties, SMTT(30) DEF last
  <2>6. \A i \in 1..Len(file) : file'[i] = file[i]
    BY <1>2, <2>5
  <2>7. ASSUME NEW i \in 1..Len(file'), i > Len(file)
        PROVE  \E j \in 1..Len(buffer) : file'[i].id = buffer[j].id
    <3>1. CASE i <= Len(t)
      <4>1. i \in 1..Len(t) /\ i > Len(file)
        BY <1>2, <2>7, <3>1
      <4>2. i - Len(file) \in 1..Len(buffer) /\ t[i] = buffer[i - Len(file)]
        BY <1>2, <1>3, <4>1
      <4>3. file'[i] = t[i]
        BY <1>2, <2>5, <4>1, <3>1
      <4> QED
        BY <4>2, <4>3
    <3>2. CASE i = Len(t) + 1
      BY <1>2, <2>1, <2>3, <2>4, <2>5, <3>2
    <3> QED
      BY <1>2, <2>5, <3>1, <3>2
  <2>8. Len(file') \in Nat /\ Len(file) <= Len(file')
    BY <1>2, <2>5
  <2>9. buffer' \in Seq(Lines) /\ Len(buffer') = 0
    BY <1>5, EmptySeq
  <2>10. \A i \in 1..Len(buffer') : \E j \in 1..Len(buffer) : buffer'[i] = buffer[j]
    BY <2>9
  <2> QED
    BY <1>2, <2>5, <2>6, <2>7, <2>8, <2>9, <2>10
<1> QED
  BY <1>1, <1>4, <1>5 DEF t

-----------------------------------------------------------------------------
(* The steps                                                                *)

\* Nothing is written at first.
LEMMA InitTrace == Init => TraceInv
<1> SUFFICES ASSUME Init PROVE TraceInv
  OBVIOUS
<1>1. file \in Seq(Lines) /\ buffer \in Seq(Lines) /\ Len(file) = 0 /\ Len(buffer) = 0
  BY EmptySeq DEF Init
<1>2. Numbered
  BY <1>1 DEF Init, Numbered, NoEvent, Stages, Writing
<1>3. Closing
  BY DEF Init, Closing, Unharmed
<1>4. Clean
  BY <1>1 DEF Init, Clean, NoEvent, Ended
<1> QED
  BY <1>2, <1>3, <1>4 DEF TraceInv

\* Where an exception takes the main thread, and what it leaves in error.
LEMMA Raising ==
    ASSUME NEW e \in {"failure", "trace", "interrupt"}, pc \in Stages, Raise(e)
    PROVE  /\ event' = NoEvent /\ raised' = e /\ raised' # "none"
           /\ pc' \in {"failed", "close", "gone"}
           /\ pc' = "failed" => pc \in Unharmed \ {"start"} /\ error' # "none"
           /\ pc' # "failed" => error' = error /\ (doomed' => doomed)
<1>1. Handler = "failed" <=> pc \in {"body", "complete", "return"}
  BY DEF Handler, Stages
<1>2. Handler \in {"failed", "close", "gone"}
  BY DEF Handler, Stages
<1>3. Handler # "failed" => (doomed' => doomed)
  BY Zenon DEF Raise
<1> QED
  BY <1>1, <1>2, <1>3 DEF Raise, Unharmed

\* Every way an exception leaves a step, with what it left of the buffer.
Failing(e) ==
    /\ Raise(e)
    /\ \/ UNCHANGED <<file, buffer>>
       \/ (event = "written" \/ pc = "flush") /\ FlushPartly
    /\ UNCHANGED <<nextId, known, stable, manifest, entry>>

\* An exception at any place keeps the invariant.
LEMMA FailingStep ==
    ASSUME TraceInv, pc # "gone", NEW e \in {"failure", "trace", "interrupt"}, Failing(e)
    PROVE  TraceInv'
<1>1. /\ event' = NoEvent /\ raised' # "none"
      /\ pc' \in {"failed", "close", "gone"}
      /\ pc' = "failed" => pc \in Unharmed \ {"start"} /\ error' # "none"
      /\ pc' # "failed" => error' = error /\ (doomed' => doomed)
  BY Raising DEF Failing, TraceInv, Numbered
<1>2. file \in Seq(Lines) /\ buffer \in Seq(Lines) /\ Len(file) \in Nat /\ nextId \in Nat
  BY LenProperties DEF TraceInv, Numbered
<1>3. /\ file' \in Seq(Lines) /\ buffer' \in Seq(Lines)
      /\ Len(file') \in Nat /\ Len(file) <= Len(file')
      /\ \A i \in 1..Len(file) : file'[i] = file[i]
      /\ \A i \in 1..Len(file') : i > Len(file) =>
            \E j \in 1..Len(buffer) : file'[i].id = buffer[j].id
      /\ \A i \in 1..Len(buffer') : \E j \in 1..Len(buffer) : buffer'[i] = buffer[j]
  <2>1. CASE UNCHANGED <<file, buffer>>
    BY <1>2, <2>1
  <2>2. CASE FlushPartly
    BY <1>2, <2>2, PartOfBuffer
  <2> QED
    BY <2>1, <2>2 DEF Failing
<1>4. manifest # "none" => UNCHANGED <<file, buffer>>
  <2>1. event = "written" => pc \in Writing
    BY DEF TraceInv, Numbered, NoEvent
  <2> QED
    BY <2>1 DEF Failing, TraceInv, Closing, Writing
<1>5. Numbered'
  <2>1. /\ nextId <= Len(file)
        /\ \A i \in 1..Len(file) : i <= nextId => file[i].id = i - 1
    BY DEF TraceInv, Numbered
  <2>2. /\ nextId <= Len(file')
        /\ \A i \in 1..Len(file') : i <= nextId => file'[i].id = i - 1
    BY <1>2, <1>3, <2>1
  <2>3. ASSUME pc' \in Writing
        PROVE  /\ \A i \in 1..Len(file') : i > nextId => file'[i].id = nextId
               /\ \A i \in 1..Len(buffer') : buffer'[i].id = nextId
    <3>1. pc \in Unharmed \ {"start"}
      BY <1>1, <2>3 DEF Writing
    <3>2. /\ \A i \in 1..Len(file) : i > nextId => file[i].id = nextId
          /\ \A i \in 1..Len(buffer) : buffer[i].id = nextId
      <4>1. CASE pc \in Writing
        BY <4>1 DEF TraceInv, Numbered
      <4>2. CASE pc = "return"
        <5>1. raised = "none"
          BY <4>2 DEF TraceInv, Closing, Unharmed
        <5>2. event = NoEvent
          BY <4>2 DEF TraceInv, Numbered, Writing
        <5>3. Len(file) = nextId /\ buffer = <<>>
          BY <5>1, <5>2 DEF TraceInv, Clean, NoEvent
        <5> QED
          BY <1>2, <5>3, EmptySeq
      <4> QED
        BY <3>1, <4>1, <4>2 DEF Unharmed, Writing
    <3>3. ASSUME NEW i \in 1..Len(file'), i > nextId
          PROVE  file'[i].id = nextId
      <4>1. CASE i <= Len(file)
        BY <1>2, <1>3, <3>2, <3>3, <4>1
      <4>2. CASE i > Len(file)
        BY <1>3, <3>2, <4>2
      <4> QED
        BY <1>2, <1>3, <4>1, <4>2
    <3>4. \A i \in 1..Len(buffer') : buffer'[i].id = nextId
      BY <1>3, <3>2
    <3> QED
      BY <3>3, <3>4
  <2>4. stable' \in 0..Len(file')
    BY <1>2, <1>3 DEF TraceInv, Numbered, Failing
  <2>5. UNCHANGED <<nextId, known>> /\ nextId \in Nat /\ known = 0..(nextId - 1)
    BY DEF Failing, TraceInv, Numbered
  <2> QED
    BY <1>1, <1>3, <2>2, <2>3, <2>4, <2>5 DEF Numbered, NoEvent, Stages
<1>6. Closing'
  <2>1. UNCHANGED <<manifest, stable>>
    BY DEF Failing
  <2>2. manifest # "none" => /\ pc' = "gone" /\ UNCHANGED <<error, file, buffer>>
                             /\ stable = Len(file) /\ buffer = <<>>
                             /\ manifest = "completed" <=> error = "none"
    <3>1. pc = "directory" => pc' = "gone" /\ Handler = "gone"
      BY DEF Failing, Raise, Handler
    <3>2. manifest # "none" => pc = "directory"
      BY DEF TraceInv, Closing
    <3> QED
      BY <1>1, <1>4, <3>1, <3>2 DEF TraceInv, Closing
  <2>3. doomed' => error' # "none"
    BY <1>1 DEF TraceInv, Closing
  <2> QED
    BY <1>1, <2>1, <2>2, <2>3 DEF TraceInv, Closing, Unharmed
<1>7. Clean'
  BY <1>1 DEF Clean
<1> QED
  BY <1>5, <1>6, <1>7 DEF TraceInv

\* So does a line that is written to the buffer.
LEMMA WriteStep == TraceInv /\ Write => TraceInv'
<1> SUFFICES ASSUME TraceInv, Write PROVE TraceInv'
  OBVIOUS
<1>1. /\ pc \in Writing /\ event = NoEvent /\ event' = "written" /\ event' # NoEvent
      /\ buffer' = Append(buffer, Line(TypeHere))
      /\ UNCHANGED <<pc, error, raised, doomed, nextId, known, file, stable, manifest, entry>>
  BY DEF Write, Writing, NoEvent
<1>2. /\ file \in Seq(Lines) /\ buffer \in Seq(Lines) /\ nextId \in Nat
      /\ Len(buffer) \in Nat /\ pc # "gone" /\ pc \notin {"fsync", "replace", "directory"}
  BY <1>1, LenProperties DEF TraceInv, Numbered, Writing
<1>3. Line(TypeHere) \in Lines /\ Line(TypeHere).id = nextId
  BY <1>1, <1>2, LineHere
<1>4. /\ buffer' \in Seq(Lines) /\ buffer' # <<>> /\ Len(buffer') = Len(buffer) + 1
      /\ \A i \in 1..Len(buffer) : buffer'[i] = buffer[i]
      /\ buffer'[Len(buffer) + 1] = Line(TypeHere)
  BY <1>1, <1>2, <1>3, AppendProperties
<1>5. Numbered'
  <2>1. \A i \in 1..Len(buffer') : buffer'[i].id = nextId
    BY <1>1, <1>2, <1>3, <1>4 DEF TraceInv, Numbered
  <2> QED
    BY <1>1, <1>2, <1>4, <2>1 DEF TraceInv, Numbered, NoEvent
<1>6. Closing'
  <2>1. manifest = "none"
    BY <1>1, <1>2 DEF TraceInv, Closing, Writing
  <2> QED
    BY <1>1, <1>2, <2>1 DEF TraceInv, Closing, Writing
<1>7. Clean'
  <2> SUFFICES ASSUME raised = "none" PROVE Clean'
    BY <1>1 DEF Clean
  <2>1. buffer = <<>> /\ Len(file) = nextId
    BY <1>1 DEF TraceInv, Clean, NoEvent
  <2>2. Append(<<>>, Line(TypeHere)) = <<Line(TypeHere)>>
    OBVIOUS
  <2>3. buffer' = <<Line(TypeHere)>>
    BY <1>1, <2>1, <2>2
  <2>4. TypeHere' = TypeHere /\ Line(TypeHere)' = Line(TypeHere)
    BY <1>1 DEF TypeHere, Line
  <2>5. Ended' <=> Ended
    BY <1>1 DEF Ended, NoEvent
  <2>6. event # "flushed" /\ event' # "flushed"
    BY <1>1 DEF NoEvent
  <2> QED
    BY <1>1, <1>2, <2>1, <2>3, <2>4, <2>5, <2>6 DEF TraceInv, Clean
<1> QED
  BY <1>5, <1>6, <1>7 DEF TraceInv

\* So does a flush of all of the buffer.
LEMMA FlushStep == TraceInv /\ Flush => TraceInv'
<1> SUFFICES ASSUME TraceInv, Flush PROVE TraceInv'
  OBVIOUS
<1>1. /\ event = "written" /\ event' = "flushed" /\ file' = file \o buffer /\ buffer' = <<>>
      /\ event # NoEvent /\ event' # NoEvent
      /\ UNCHANGED <<pc, error, raised, doomed, nextId, known, stable, manifest, entry>>
  BY DEF Flush, NoEvent
<1>2. /\ file \in Seq(Lines) /\ buffer \in Seq(Lines) /\ nextId \in Nat
      /\ pc \in Writing /\ pc # "gone" /\ pc \notin {"fsync", "replace", "directory"}
      /\ buffer # <<>> /\ nextId <= Len(file) /\ stable \in 0..Len(file)
  BY <1>1 DEF TraceInv, Numbered, Writing
<1>3. /\ file' \in Seq(Lines)
      /\ Len(file') = Len(file) + Len(buffer)
      /\ Len(file) \in Nat /\ Len(buffer) \in Nat
      /\ \A i \in 1..Len(file) : file'[i] = file[i]
      /\ \A i \in 1..Len(file') : i > Len(file) =>
            i - Len(file) \in 1..Len(buffer) /\ file'[i] = buffer[i - Len(file)]
  BY <1>1, <1>2, WholeBuffer
<1>4. Len(buffer) > 0
  BY <1>2, EmptySeq
<1>5. buffer' \in Seq(Lines) /\ Len(buffer') = 0
  BY <1>1, EmptySeq
<1>6. Numbered'
  <2>1. \A i \in 1..Len(file') : i <= nextId => file'[i].id = i - 1
    <3>1. \A i \in 1..Len(file) : i <= nextId => file[i].id = i - 1
      BY <1>2 DEF TraceInv, Numbered
    <3>2. ASSUME NEW i \in 1..Len(file'), i <= nextId
          PROVE  file'[i].id = i - 1
      <4>1. i \in 1..Len(file)
        BY <1>2, <1>3, <3>2
      <4> QED
        BY <1>3, <3>1, <3>2, <4>1
    <3> QED
      BY <3>2
  <2>2. ASSUME NEW i \in 1..Len(file'), i > nextId
        PROVE  file'[i].id = nextId
    <3>1. CASE i <= Len(file)
      BY <1>2, <1>3, <2>2, <3>1, SMTT(30) DEF TraceInv, Numbered
    <3>2. CASE i > Len(file)
      BY <1>2, <1>3, <3>2 DEF TraceInv, Numbered
    <3> QED
      BY <1>3, <3>1, <3>2
  <2>3. Len(file') > nextId /\ stable \in 0..Len(file')
    BY <1>2, <1>3, <1>4
  <2> QED
    BY <1>1, <1>2, <1>3, <1>5, <2>1, <2>2, <2>3 DEF TraceInv, Numbered, NoEvent
<1>7. Closing'
  <2>1. manifest = "none"
    BY <1>2 DEF TraceInv, Closing, Writing
  <2> QED
    BY <1>1, <1>2, <2>1 DEF TraceInv, Closing
<1>8. Clean'
  <2> SUFFICES ASSUME raised = "none" PROVE Clean'
    BY <1>1 DEF Clean
  <2>1. /\ buffer = <<Line(TypeHere)>> /\ Len(file) = nextId /\ error = "none"
        /\ pc # "failed"
        /\ pc = "start" <=> nextId = 0
    BY <1>1 DEF TraceInv, Clean
  <2>2. /\ Line(TypeHere).id = nextId /\ ~Line(TypeHere).cut
        /\ Line(TypeHere).type = TypeHere
    BY <1>2, LineHere
  <2>3. Len(buffer) = 1 /\ buffer[1] = Line(TypeHere)
    BY <2>1
  <2>4. Len(file') = nextId + 1 /\ file'[nextId + 1] = Line(TypeHere)
    BY <1>2, <1>3, <2>1, <2>3
  <2>5. ~Ended /\ (Ended' <=> pc = "complete")
    <3>1. pc \in {"start", "body", "complete"} /\ pc' = pc
      BY <1>1, <1>2, <2>1 DEF Writing
    <3>2. ~Ended
      BY <1>1, <3>1 DEF Ended
    <3>3. Ended' <=> pc = "complete"
      BY <1>1, <3>1 DEF Ended
    <3> QED
      BY <3>2, <3>3
  <2>6. Ended' => Len(file') > 1
    BY <1>2, <2>1, <2>4, <2>5
  <2>7. TypeHere = IF nextId = 0 THEN "run.started"
                   ELSE IF pc = "complete" THEN "run.completed" ELSE "other"
    <3>1. CASE pc = "start"
      BY <2>1, <3>1 DEF TypeHere
    <3>2. CASE pc = "body"
      BY <2>1, <3>2 DEF TypeHere
    <3>3. CASE pc = "complete"
      BY <2>1, <3>3 DEF TypeHere
    <3> QED
      BY <1>2, <2>1, <3>1, <3>2, <3>3 DEF Writing
  <2>8. ASSUME NEW i \in 1..Len(file')
        PROVE  /\ ~file'[i].cut
               /\ file'[i].id = i - 1
               /\ file'[i].type = IF i = 1 THEN "run.started"
                                  ELSE IF i = Len(file') /\ Ended' THEN "run.completed"
                                  ELSE "other"
    <3>1. CASE i = nextId + 1
      BY <1>2, <2>2, <2>4, <2>5, <2>7, <3>1
    <3>2. CASE i <= nextId
      <4>1. i \in 1..Len(file) /\ file'[i] = file[i] /\ i # Len(file')
        BY <1>2, <1>3, <2>1, <2>4, <3>2
      <4>2. /\ ~file[i].cut /\ file[i].id = i - 1
            /\ file[i].type = IF i = 1 THEN "run.started" ELSE "other"
        BY <2>5, <4>1 DEF TraceInv, Clean
      <4> QED
        BY <4>1, <4>2
    <3> QED
      BY <1>2, <2>4, <3>1, <3>2
  <2>9. event' # "written" /\ pc' = pc /\ pc # "gone"
    BY <1>1, <1>2
  <2> QED
    BY <1>1, <2>1, <2>4, <2>6, <2>8, <2>9 DEF Clean
<1> QED
  BY <1>6, <1>7, <1>8 DEF TraceInv

\* So does the number that is used up.
LEMMA CountStep == TraceInv /\ Count => TraceInv'
<1> SUFFICES ASSUME TraceInv, Count PROVE TraceInv'
  OBVIOUS
<1>1. /\ event = "flushed" /\ event' = NoEvent /\ nextId' = nextId + 1
      /\ known' = known \cup {nextId} /\ event # NoEvent /\ event' # "written"
      /\ event' # "flushed"
      /\ UNCHANGED <<error, raised, doomed, buffer, file, stable, manifest, entry>>
  BY DEF Count, NoEvent
<1>2. /\ file \in Seq(Lines) /\ buffer \in Seq(Lines) /\ nextId \in Nat
      /\ pc \in Writing /\ Len(file) > nextId /\ known = 0..(nextId - 1)
      /\ Len(file) \in Nat
  BY <1>1, LenProperties DEF TraceInv, Numbered
<1>3. /\ pc \in {"start", "body"} => pc' = "body"
      /\ pc = "complete" => pc' = "return"
      /\ pc = "failed" => pc' = "close"
  BY DEF Count
<1>4. pc' \in {"body", "return", "close"}
  BY <1>2, <1>3 DEF Writing
<1>5. pc' \in {"body", "return"} => raised = "none"
  BY <1>2, <1>3 DEF TraceInv, Closing, Unharmed, Writing
<1>6. raised = "none" => Len(file) = nextId + 1 /\ buffer = <<>>
  BY <1>1 DEF TraceInv, Clean
<1>7. Numbered'
  <2>1. known' = 0..(nextId' - 1) /\ nextId' \in Nat
    BY <1>1, <1>2
  <2>2. \A i \in 1..Len(file) : i <= nextId + 1 => file[i].id = i - 1
    <3>1. \A i \in 1..Len(file) : i <= nextId => file[i].id = i - 1
      BY <1>2 DEF TraceInv, Numbered, Writing
    <3>2. \A i \in 1..Len(file) : i > nextId => file[i].id = nextId
      BY <1>2 DEF TraceInv, Numbered
    <3> QED
      BY <1>2, <3>1, <3>2
  <2>3. ASSUME pc' \in Writing
        PROVE  /\ \A i \in 1..Len(file) : i > nextId + 1 => file[i].id = nextId + 1
               /\ \A i \in 1..Len(buffer) : buffer[i].id = nextId + 1
    <3>1. raised = "none"
      BY <1>4, <1>5, <2>3 DEF Writing
    <3>2. Len(buffer) = 0
      BY <1>6, <3>1, EmptySeq
    <3> QED
      BY <1>2, <1>6, <3>1, <3>2
  <2>4. nextId' <= Len(file') /\ stable' \in 0..Len(file')
    BY <1>1, <1>2 DEF TraceInv, Numbered
  <2> QED
    BY <1>1, <1>2, <1>4, <2>1, <2>2, <2>3, <2>4 DEF Numbered, NoEvent, Stages
<1>8. Closing'
  <2>1. manifest = "none"
    BY <1>2 DEF TraceInv, Closing, Writing
  <2> QED
    BY <1>1, <1>4, <1>5, <2>1 DEF TraceInv, Closing, Unharmed
<1>9. Clean'
  <2> SUFFICES ASSUME raised = "none" PROVE Clean'
    BY <1>1 DEF Clean
  <2>1. pc # "failed" /\ error = "none" /\ pc \in {"start", "body", "complete"}
    BY <1>2 DEF TraceInv, Clean, Writing
  <2>2. pc' \in {"body", "return"} /\ (Ended' <=> Ended)
    BY <1>1, <1>3, <2>1 DEF Ended, NoEvent
  <2> QED
    BY <1>1, <1>2, <1>6, <2>1, <2>2 DEF TraceInv, Clean
<1> QED
  BY <1>7, <1>8, <1>9 DEF TraceInv

\* The body ends, run returns and close begins: the recorder is left alone.
Passing(from, to) == pc = from /\ pc' = to
                     /\ UNCHANGED <<event, error, raised, doomed, recorder>>

\* So do the steps that only go on.
LEMMA PassingStep ==
    ASSUME TraceInv,
           \/ Passing("body", "complete") /\ event = NoEvent
           \/ Passing("return", "close")
           \/ Passing("close", "flush")
    PROVE  TraceInv'
<1>1. /\ UNCHANGED <<event, error, raised, doomed, nextId, known, buffer, file, stable,
                     manifest, entry>>
      /\ pc \in {"body", "return", "close"} /\ pc' \in {"complete", "close", "flush"}
  BY DEF Passing, recorder
<1>2. pc' = "complete" => pc = "body" /\ event = NoEvent
  BY DEF Passing
<1>3. event = NoEvent /\ event' = NoEvent
  BY <1>1, <1>2 DEF TraceInv, Numbered, Writing, Passing
<1>4. Numbered'
  <2>1. pc' \in Writing => pc \in Writing
    BY <1>1, <1>2 DEF Writing
  <2> QED
    BY <1>1, <1>3, <2>1 DEF TraceInv, Numbered, Stages, NoEvent
<1>5. Closing'
  BY <1>1, <1>2 DEF TraceInv, Closing, Unharmed
<1>6. Clean'
  <2> SUFFICES ASSUME raised = "none" PROVE Clean'
    BY <1>1 DEF Clean
  <2>1. event # "written" /\ event' # "written"
    BY <1>3 DEF NoEvent
  <2>2. Ended' <=> Ended
    <3>1. CASE pc' = "complete"
      BY <1>1, <1>2, <3>1 DEF Ended, NoEvent
    <3>2. CASE pc' # "complete"
      BY <1>1, <3>2 DEF Ended, Passing
    <3> QED
      BY <3>1, <3>2
  <2>3. pc' \notin {"start", "failed", "gone"}
    BY <1>1
  <2> QED
    BY <1>1, <2>1, <2>2, <2>3 DEF TraceInv, Clean
<1> QED
  BY <1>4, <1>5, <1>6 DEF TraceInv

\* The rest of close.
LEMMA CloseFlushStep == TraceInv /\ CloseFlush => TraceInv'
<1> SUFFICES ASSUME TraceInv, CloseFlush PROVE TraceInv'
  OBVIOUS
<1>1. /\ pc = "flush" /\ pc' = "fsync" /\ file' = file \o buffer /\ buffer' = <<>>
      /\ UNCHANGED <<event, error, raised, doomed, nextId, known, stable, manifest, entry>>
  BY DEF CloseFlush
<1>2. /\ file \in Seq(Lines) /\ buffer \in Seq(Lines) /\ nextId \in Nat
      /\ event = NoEvent /\ nextId <= Len(file) /\ stable \in 0..Len(file)
      /\ \A i \in 1..Len(file) : i <= nextId => file[i].id = i - 1
  BY <1>1 DEF TraceInv, Numbered, Writing
<1>3. /\ file' \in Seq(Lines)
      /\ Len(file') = Len(file) + Len(buffer)
      /\ Len(file) \in Nat /\ Len(buffer) \in Nat
      /\ \A i \in 1..Len(file) : file'[i] = file[i]
  BY <1>1, <1>2, WholeBuffer
<1>4. buffer' \in Seq(Lines) /\ stable \in 0..Len(file') /\ nextId <= Len(file')
  BY <1>1, <1>2, <1>3, EmptySeq
<1>5. \A i \in 1..Len(file') : i <= nextId => file'[i].id = i - 1
  <2>1. ASSUME NEW i \in 1..Len(file'), i <= nextId
        PROVE  file'[i].id = i - 1
    <3>1. i \in 1..Len(file)
      BY <1>2, <1>3, <2>1
    <3> QED
      BY <1>2, <1>3, <2>1, <3>1
  <2> QED
    BY <2>1
<1>6. Numbered'
  BY <1>1, <1>2, <1>3, <1>4, <1>5 DEF TraceInv, Numbered, Writing, Stages, NoEvent
<1>7. Closing'
  BY <1>1 DEF TraceInv, Closing, Unharmed
<1>8. Clean'
  <2> SUFFICES ASSUME raised = "none" PROVE Clean'
    BY <1>1 DEF Clean
  <2>1. buffer = <<>>
    BY <1>2 DEF TraceInv, Clean, NoEvent
  <2>2. file' = file
    BY <1>1, <1>2, <2>1, ConcatEmptySeq
  <2>3. Ended /\ Ended'
    BY <1>1 DEF Ended
  <2>4. event # "written" /\ event' # "written" /\ event # "flushed" /\ event' # "flushed"
    BY <1>1, <1>2 DEF NoEvent
  <2> QED
    BY <1>1, <2>2, <2>3, <2>4 DEF TraceInv, Clean
<1> QED
  BY <1>6, <1>7, <1>8 DEF TraceInv

\* So do the steps that make the manifest durable.
LEMMA ClosingSteps == TraceInv /\ (CloseFsync \/ Replace \/ SyncDirectory) => TraceInv'
<1> SUFFICES ASSUME TraceInv, CloseFsync \/ Replace \/ SyncDirectory PROVE TraceInv'
  OBVIOUS
<1>1. /\ pc \in {"fsync", "replace", "directory"} /\ pc' \in {"replace", "directory", "gone"}
      /\ UNCHANGED <<event, error, raised, doomed, nextId, known, file, buffer>>
  BY DEF CloseFsync, Replace, SyncDirectory
<1>2. /\ file \in Seq(Lines) /\ buffer = <<>> /\ Len(file) \in Nat /\ event = NoEvent
      /\ stable \in 0..Len(file)
  BY <1>1, LenProperties DEF TraceInv, Numbered, Closing, Writing
<1>3. /\ pc' = "replace" => stable' = Len(file) /\ pc = "fsync" /\ UNCHANGED manifest
      /\ pc' = "directory" => /\ UNCHANGED stable
                              /\ pc = "replace"
                              /\ manifest' = IF error = "none" THEN "completed" ELSE "failed"
      /\ pc' = "gone" => UNCHANGED <<stable, manifest>> /\ pc = "directory" /\ entry'
  BY DEF CloseFsync, Replace, SyncDirectory
<1>4. Numbered'
  <2>1. stable' \in 0..Len(file')
    BY <1>1, <1>2, <1>3
  <2> QED
    BY <1>1, <1>2, <2>1 DEF TraceInv, Numbered, Writing, Stages, NoEvent
<1>5. Closing'
  <2>1. CASE pc' = "replace"
    BY <1>1, <1>2, <1>3, <2>1 DEF TraceInv, Closing, Unharmed
  <2>2. CASE pc' = "directory"
    <3>1. stable = Len(file)
      BY <1>3, <2>2 DEF TraceInv, Closing
    <3> QED
      BY <1>1, <1>2, <1>3, <2>2, <3>1 DEF TraceInv, Closing, Unharmed
  <2>3. CASE pc' = "gone"
    BY <1>1, <1>2, <1>3, <2>3 DEF TraceInv, Closing, Unharmed
  <2> QED
    BY <1>1, <2>1, <2>2, <2>3
<1>6. Clean'
  <2> SUFFICES ASSUME raised = "none" PROVE Clean'
    BY <1>1 DEF Clean
  <2>1. Ended /\ Ended'
    BY <1>1 DEF Ended
  <2>2. event # "written" /\ event' # "written" /\ event # "flushed" /\ event' # "flushed"
    BY <1>1, <1>2 DEF NoEvent
  <2>3. pc' = "gone" => manifest' = "completed" /\ entry'
    <3>1. pc = "directory" /\ error = "none" => manifest = "completed"
      BY DEF TraceInv, Closing
    <3> QED
      BY <1>3, <3>1 DEF TraceInv, Clean
  <2> QED
    BY <1>1, <2>1, <2>2, <2>3 DEF TraceInv, Clean
<1> QED
  BY <1>4, <1>5, <1>6 DEF TraceInv

\* What is flushed after the run is not told of by a manifest.
LEMMA CollectStep == TraceInv /\ Collect => TraceInv'
<1> SUFFICES ASSUME TraceInv, Collect PROVE TraceInv'
  OBVIOUS
<1>1. /\ pc = "gone" /\ buffer # <<>> /\ file' = file \o buffer /\ buffer' = <<>>
      /\ UNCHANGED <<pc, event, error, raised, doomed, nextId, known, stable, manifest,
                     entry>>
  BY DEF Collect
<1>2. manifest = "none" /\ event = NoEvent
  BY <1>1 DEF TraceInv, Numbered, Closing, Writing
<1>3. raised # "none"
  BY <1>1, <1>2 DEF TraceInv, Clean
<1>4. file \in Seq(Lines) /\ buffer \in Seq(Lines) /\ stable \in 0..Len(file)
  BY DEF TraceInv, Numbered
<1>5. /\ file' \in Seq(Lines) /\ Len(file') = Len(file) + Len(buffer)
      /\ Len(file) \in Nat /\ Len(buffer) \in Nat
  BY <1>1, <1>4, WholeBuffer
<1>6. buffer' \in Seq(Lines) /\ stable' \in 0..Len(file')
  BY <1>1, <1>4, <1>5, EmptySeq
<1>7. Numbered'
  BY <1>1, <1>2, <1>5, <1>6 DEF TraceInv, Numbered, Writing, NoEvent
<1>8. Closing'
  BY <1>1, <1>2 DEF TraceInv, Closing, Unharmed
<1>9. Clean'
  BY <1>1, <1>3 DEF Clean
<1> QED
  BY <1>7, <1>8, <1>9 DEF TraceInv

\* So does a kill.
LEMMA KillStep == TraceInv /\ Kill => TraceInv'
<1> SUFFICES ASSUME TraceInv, Kill PROVE TraceInv'
  OBVIOUS
<1>1. /\ pc # "gone" /\ pc' = "gone" /\ event' = NoEvent /\ raised' = "killed"
      /\ buffer' = <<>>
      /\ UNCHANGED <<error, doomed, nextId, known, file, stable, manifest, entry>>
  BY DEF Kill
<1>2. buffer' \in Seq(Lines)
  BY <1>1, EmptySeq
<1>3. Numbered'
  BY <1>1, <1>2 DEF TraceInv, Numbered, Writing, Stages, NoEvent
<1>4. Closing'
  BY <1>1 DEF TraceInv, Closing, Unharmed
<1>5. Clean'
  BY <1>1 DEF Clean
<1> QED
  BY <1>3, <1>4, <1>5 DEF TraceInv

\* A loss of power takes lines from a trace without a manifest only: with one,
\* every line has been synced.
LEMMA PowerLossStep == TraceInv /\ PowerLoss => TraceInv'
<1> SUFFICES ASSUME TraceInv, PowerLoss PROVE TraceInv'
  OBVIOUS
<1>1. /\ pc' = "gone" /\ event' = NoEvent /\ buffer' = <<>>
      /\ raised' = IF pc = "gone" THEN raised ELSE "power"
      /\ manifest' \in IF entry THEN {manifest} ELSE {manifest, "none"}
      /\ UNCHANGED <<error, doomed, nextId, known, stable, entry>>
  BY DEF PowerLoss
<1>2. PICK n \in stable..Len(file) : file' = SubSeq(file, 1, n)
  BY DEF PowerLoss
<1>3. /\ file \in Seq(Lines) /\ Len(file) \in Nat /\ stable \in 0..Len(file)
      /\ n \in 0..Len(file)
  BY <1>2, LenProperties DEF TraceInv, Numbered
<1>4. file' \in Seq(Lines) /\ Len(file') = n
  <2>1. \A i \in 1..n : file[i] \in Lines
    BY <1>3, ElementOfSeq
  <2>2. file' \in Seq(Lines) /\ Len(file') = IF 1 <= n THEN n - 1 + 1 ELSE 0
    BY <1>2, <1>3, <2>1, SubSeqProperties
  <2> QED
    BY <1>3, <2>2
<1>5. manifest # "none" => file' = file
  <2>1. ASSUME manifest # "none" PROVE file' = file
    <3>1. n = Len(file)
      BY <1>3, <2>1 DEF TraceInv, Closing
    <3> QED
      BY <1>2, <1>3, <3>1, SubSeqFull
  <2> QED
    BY <2>1
<1>6. manifest' \in {manifest, "none"} /\ (entry => manifest' = manifest)
  BY <1>1
<1>7. buffer' \in Seq(Lines)
  BY <1>1, EmptySeq
<1>8. Numbered'
  <2>1. stable' \in 0..Len(file')
    BY <1>1, <1>2, <1>3, <1>4
  <2>2. manifest' # "none" => /\ nextId <= Len(file')
                              /\ \A i \in 1..Len(file') : i <= nextId => file'[i].id = i - 1
    BY <1>5, <1>6 DEF TraceInv, Numbered
  <2> QED
    BY <1>1, <1>4, <1>7, <2>1, <2>2 DEF TraceInv, Numbered, Writing, Stages, NoEvent
<1>9. Closing'
  BY <1>1, <1>5, <1>6 DEF TraceInv, Closing, Unharmed
<1>10. Clean'
  <2> SUFFICES ASSUME raised = "none", pc = "gone" PROVE Clean'
    BY <1>1 DEF Clean
  <2>1. manifest = "completed" /\ entry
    BY DEF TraceInv, Clean
  <2>2. manifest' = "completed" /\ entry' /\ file' = file
    BY <1>1, <1>5, <1>6, <2>1
  <2>3. event = NoEvent /\ event' = NoEvent /\ event # "flushed" /\ event' # "flushed"
        /\ event # "written" /\ event' # "written"
    BY <1>1 DEF TraceInv, Numbered, Writing, NoEvent
  <2>4. Ended /\ Ended'
    BY <1>1 DEF Ended
  <2> QED
    BY <1>1, <2>2, <2>3, <2>4 DEF TraceInv, Clean
<1> QED
  BY <1>8, <1>9, <1>10 DEF TraceInv

\* So does a step that changes nothing.
LEMMA StutterStep == TraceInv /\ UNCHANGED vars => TraceInv'
<1> SUFFICES ASSUME TraceInv, UNCHANGED vars PROVE TraceInv'
  OBVIOUS
<1>1. /\ UNCHANGED <<pc, event, error, raised, doomed, nextId>>
      /\ UNCHANGED <<known, buffer, file, stable, manifest, entry>>
  BY DEF vars
<1>2. Numbered'
  BY <1>1 DEF TraceInv, Numbered
<1>3. Closing'
  BY <1>1 DEF TraceInv, Closing
<1>4. Clean'
  BY <1>1 DEF TraceInv, Clean, Ended, TypeHere, Line
<1> QED
  BY <1>2, <1>3, <1>4 DEF TraceInv

\* Every step keeps the invariant.
LEMMA EveryStep == TraceInv /\ [Next]_vars => TraceInv'
<1> SUFFICES ASSUME TraceInv, [Next]_vars PROVE TraceInv'
  OBVIOUS
<1>1. CASE FlushFails
  <2>1. pc # "gone" /\ Failing("trace")
    BY <1>1 DEF FlushFails, Failing, TraceInv, Numbered, Writing, NoEvent
  <2> QED
    BY <2>1, FailingStep
<1>2. CASE CloseFails
  <2>1. pc # "gone" /\ Failing("trace")
    BY <1>2 DEF CloseFails, Failing
  <2> QED
    BY <2>1, FailingStep
<1>3. CASE Interrupt
  <2>1. pc # "gone" /\ Failing("interrupt")
    BY <1>3 DEF Interrupt, Failing, recorder, Interruptible
  <2> QED
    BY <2>1, FailingStep
<1>4. CASE BodyFails
  <2>1. pc # "gone" /\ Failing("failure")
    BY <1>4 DEF BodyFails, Failing, recorder
  <2> QED
    BY <2>1, FailingStep
<1>5. CASE BodyEnds \/ Return \/ CloseBegins
  BY <1>5, PassingStep DEF BodyEnds, Return, CloseBegins, Passing
<1>6. CASE Done \/ UNCHANGED vars
  BY <1>6, StutterStep DEF Done
<1> QED
  BY <1>1, <1>2, <1>3, <1>4, <1>5, <1>6, WriteStep, FlushStep, CountStep, CloseFlushStep,
     ClosingSteps, CollectStep, KillStep, PowerLossStep DEF Next, Recording, Control

\* In every state the numbers given out are at their places in the file, the
\* manifest is behind every line it tells of, and a run without an exception
\* has exactly the lines it should.
THEOREM InvariantHolds == Spec => []TraceInv
<1> QED
  BY InitTrace, EveryStep, PTL DEF Spec

-----------------------------------------------------------------------------
(* What follows for the reader of the trace and for the caller of run       *)

\* A trace that a reader accepts is whole.
LEMMA NumberedIsWhole == TraceInv => AcceptedIsWhole
<1> SUFFICES ASSUME TraceInv, Accepted, NEW id \in known
             PROVE  Cardinality({i \in DOMAIN file : file[i].id = id}) = 1
  BY DEF AcceptedIsWhole
<1>1. /\ file \in Seq(Lines) /\ nextId \in Nat /\ known = 0..(nextId - 1)
      /\ nextId <= Len(file)
  BY DEF TraceInv, Numbered, Accepted
<1>2. Len(file) \in Nat /\ DOMAIN file = 1..Len(file)
  BY <1>1, LenProperties
<1>3. \A i \in DOMAIN file : file[i].id = i - 1
  BY DEF Accepted
<1>4. id + 1 \in DOMAIN file /\ id \in Nat
  BY <1>1, <1>2
<1>5. {i \in DOMAIN file : file[i].id = id} = {id + 1}
  <2> SUFFICES ASSUME NEW i \in DOMAIN file
               PROVE  file[i].id = id <=> i = id + 1
    BY <1>4
  <2> QED
    BY <1>2, <1>3, <1>4
<1> QED
  BY <1>5, FS_Singleton

\* A run that returned its result has its trace on disk.
LEMMA CleanHasTrace == TraceInv => ResultHasTrace
<1> SUFFICES ASSUME TraceInv, pc = "gone", raised = "none"
             PROVE  Accepted /\ manifest = "completed"
  BY DEF ResultHasTrace
<1>1. file \in Seq(Lines) /\ Len(file) \in Nat /\ DOMAIN file = 1..Len(file)
  BY LenProperties DEF TraceInv, Numbered
<1>2. manifest = "completed" /\ Ended
  BY DEF TraceInv, Clean, Ended
<1>3. Len(file) > 1 /\ file # <<>>
  <2>1. Len(file) > 1
    BY <1>2 DEF TraceInv, Clean
  <2> QED
    BY <2>1, EmptySeq
<1>4. \A i \in 1..Len(file) :
         /\ ~file[i].cut
         /\ file[i].id = i - 1
         /\ file[i].type = IF i = 1 THEN "run.started"
                           ELSE IF i = Len(file) THEN "run.completed" ELSE "other"
  BY <1>2 DEF TraceInv, Clean
<1>5. ASSUME NEW i \in DOMAIN file
      PROVE  /\ ~file[i].cut
             /\ file[i].id = i - 1
             /\ file[i].type = "run.started" <=> i = 1
             /\ file[i].type \in Final <=> i = Len(file)
  <2>1. CASE i = 1
    <3>1. /\ i # Len(file) /\ ~file[i].cut /\ file[i].id = i - 1
          /\ file[i].type = "run.started"
      <4>1. 1 \in 1..Len(file) /\ 1 # Len(file)
        BY <1>1, <1>3
      <4>2. /\ ~file[1].cut
            /\ file[1].id = 1 - 1
            /\ file[1].type = "run.started"
        BY <1>4, <4>1
      <4> QED
        BY <2>1, <4>1, <4>2
    <3> QED
      BY <2>1, <3>1 DEF Final
  <2>2. CASE i # 1 /\ i = Len(file)
    BY <1>1, <1>4, <2>2 DEF Final
  <2>3. CASE i # 1 /\ i # Len(file)
    BY <1>1, <1>4, <2>3 DEF Final
  <2> QED
    BY <2>1, <2>2, <2>3
<1>6. Last(file).type = "run.completed"
  <2>1. Len(file) \in 1..Len(file) /\ Len(file) # 1
    BY <1>1, <1>3
  <2> QED
    BY <1>4, <2>1 DEF Last
<1> QED
  BY <1>2, <1>3, <1>5, <1>6 DEF Accepted

\* A run that failed is never told as one that succeeded.
LEMMA ErrorNeverPasses == TraceInv => FailureNeverPasses
<1> SUFFICES ASSUME TraceInv, doomed, Accepted
             PROVE  manifest = "failed" /\ Last(file).type = "run.failed"
  BY DEF FailureNeverPasses
<1>1. manifest = "failed"
  BY DEF TraceInv, Closing, Accepted
<1>2. file \in Seq(Lines) /\ file # <<>>
  BY DEF TraceInv, Numbered, Accepted
<1>3. Len(file) \in DOMAIN file
  BY <1>2, EmptySeq, LenProperties
<1>4. Last(file).type \in Final
  BY <1>3 DEF Accepted, Last
<1>5. Last(file).type # "run.completed"
  BY <1>1 DEF Accepted
<1> QED
  BY <1>1, <1>4, <1>5 DEF Final

\* A trace that load_trace accepts holds every event whose number TraceRecorder
\* ever gave out to be a parent, once, whatever flushes, interrupts, kills and
\* losses of power came before.
THEOREM AcceptedTraceIsWhole == Spec => []AcceptedIsWhole
<1> QED
  BY InvariantHolds, NumberedIsWhole, PTL

\* What the caller of run was told and what the files tell are the same: a
\* result means an accepted trace of a completed run, a loss of power included,
\* and a run that an exception left never passes for a completed one.
THEOREM OutcomeAlwaysMatches == Spec => []OutcomeMatchesTrace
<1>1. TraceInv => OutcomeMatchesTrace
  BY CleanHasTrace, ErrorNeverPasses DEF OutcomeMatchesTrace
<1> QED
  BY <1>1, InvariantHolds, PTL

(***************************************************************************)
(* One run: what it has, what its controllers got and what it left on      *)
(* disk, whoever holds its configuration before and its directory after.   *)
(***************************************************************************)
\* A harness has four parts.
Made(h) == h = [prompt |-> h.prompt, abi |-> h.abi, prelude |-> h.prelude, rendered |-> h.rendered]

\* The records of a directory.
TraceOf(s, q, b, m) == [started |-> s, request |-> q, branches |-> b, manifest |-> m]
ManifestOf(h, f, c, a) == [harness |-> h, fingerprint |-> f, config |-> c, abi |-> a]
OptionsOf(h, m, o, d) == [harness |-> h, model |-> m, options |-> o, depth |-> d]
BranchOf(d, q, m, p, h, f) ==
    [depth |-> d, request |-> q, model |-> m, prompt |-> p, harness |-> h, fingerprint |-> f]

\* What the fields of a running or finished run, of a sent request and of a branch are.
ConfigOf(c) ==
    /\ c = OptionsOf(c.harness, c.model, c.options, c.depth)
    /\ Made(c.harness) /\ c.depth = MaxDepth

\* The run was admitted; it has ended.
HasRun == run[Run].phase \in {"running", "completed", "failed", "rewritten"}
RunOver == run[Run].phase \in {"completed", "failed", "rewritten"}

\* What a directory holds, and what it holds once there is a manifest.
Shaped(t, over) ==
    /\ t = TraceOf(t.started, t.request, t.branches, t.manifest)
    /\ over =>
          LET m == t.manifest  c == m.config IN
          /\ m = ManifestOf(m.harness, m.fingerprint, m.config, m.abi)
          /\ c = OptionsOf(c.harness, c.model, c.options, c.depth)
    /\ \A b \in t.branches :
          b = BranchOf(b.depth, b.request, b.model, b.prompt, b.harness, b.fingerprint)

\* A running run has the harness that fits the environment.
Fits == run[Run].phase = "running" => Single!Contract(run[Run].config.harness)

\* What a controller got is what its branch says of it, and what the run was given.
SentIsTraced ==
    \A s \in sent[Run] :
        /\ s.options = run[Run].config.options
        /\ \E b \in trace[Run].branches :
              /\ b.depth = s.depth /\ b.prompt = s.instructions
              /\ s.model = Single!ModelOf(run[Run].config, b.request)

\* Until somebody writes over it, a branch has the model it was sent with.
ModelsKept ==
    run[Run].phase = "running" =>
        \A b \in trace[Run].branches : b.model = Single!ModelOf(run[Run].config, b.request)

\* What an attestation says, whatever became of the directory.
Attested ==
    attestation[Run] # Nothing =>
        /\ run[Run].phase \in {"completed", "rewritten"}
        /\ attestation[Run] = Single!Attest(run[Run].config, run[Run].request)

\* Nobody changes the model or the depth of a manifest.
ManifestModel == RunOver => trace[Run].manifest.config.model = run[Run].config.model

\* The inductive invariant of one run.
OneInv ==
    /\ cfg.harness \in Harnesses
    /\ cfg = OptionsOf(cfg.harness, cfg.model, cfg.options, cfg.depth)
    /\ cfg.depth = MaxDepth
    /\ run = [r \in {Run} |-> run[r]] /\ trace = [r \in {Run} |-> trace[r]]
    /\ sent = [r \in {Run} |-> sent[r]] /\ attestation = [r \in {Run} |-> attestation[r]]
    /\ run[Run] = [phase |-> run[Run].phase, config |-> run[Run].config, request |-> run[Run].request]
    /\ run[Run].phase \in {"idle", "refused", "running", "completed", "failed", "rewritten"}
    /\ HasRun => ConfigOf(run[Run].config) /\ Shaped(trace[Run], FALSE)
    /\ RunOver => Shaped(trace[Run], TRUE)
    /\ ~HasRun => trace[Run] = Nothing /\ attestation[Run] = Nothing /\ sent[Run] = {}
    /\ run[Run].phase = "running" => attestation[Run] = Nothing
    /\ Fits /\ (HasRun => SentIsTraced) /\ ModelsKept /\ Attested /\ ManifestModel

\* parse_harness reads what the harness was written as (specs.py:202-212, config.py:149-195).
LEMMA FromEncoded ==
    ASSUME NEW h, Made(h) PROVE Single!Decode(Single!Encode(h)) = h
<1>1. CASE h.prelude = Bare
  <2>1. Single!Encode(h) = [f \in {"prompt", "abi", "rendered"} |-> h[f]]
    BY <1>1 DEF Single!Encode
  <2> QED
    BY <1>1, <2>1 DEF Single!Decode, Made
<1>2. CASE h.prelude # Bare
  <2>1. Single!Encode(h) = [f \in {"prompt", "abi", "rendered", "prelude"} |-> h[f]]
    BY <1>2 DEF Single!Encode
  <2> QED
    BY <1>2, <2>1 DEF Single!Decode, Made
<1> QED
  BY <1>1, <1>2

\* The deep copy run takes of its configuration is equal to it (engine.py:119-146).
LEMMA SnapshotIsOwn ==
    ASSUME OneInv PROVE Single!FromDict(Single!ConfigDict(cfg)) = cfg
<1>1. Made(cfg.harness)
  BY HarnessAssumption DEF OneInv, Made
<1> QED
  BY <1>1, FromEncoded DEF OneInv, OptionsOf, Single!FromDict, Single!ConfigDict

\* Before the run there is nothing of it.
LEMMA OneBegins == Single!Init => OneInv
<1> SUFFICES ASSUME Single!Init PROVE OneInv
  OBVIOUS
<1>1. /\ cfg \in [harness : Harnesses, model : Models \union {NoModel}, options : Options \ OwnedOptions, depth : {MaxDepth}]
      /\ run = [r \in {Run} |-> Single!Idle] /\ trace = [r \in {Run} |-> Nothing]
      /\ sent = [r \in {Run} |-> {}] /\ attestation = [r \in {Run} |-> Nothing]
  BY DEF Single!Init
<1>2. run[Run] = [phase |-> "idle", config |-> Nothing, request |-> Nothing]
  BY <1>1 DEF Single!Idle
<1>3. ~HasRun /\ ~RunOver /\ run[Run].phase = "idle"
  BY <1>2 DEF HasRun, RunOver
<1>4. trace[Run] = Nothing /\ sent[Run] = {} /\ attestation[Run] = Nothing
  BY <1>1
<1>5. cfg.harness \in Harnesses /\ cfg.depth = MaxDepth /\ cfg = OptionsOf(cfg.harness, cfg.model, cfg.options, cfg.depth)
  BY <1>1 DEF OptionsOf
<1>6. Fits /\ ModelsKept /\ Attested /\ ManifestModel
  BY <1>3, <1>4 DEF Fits, ModelsKept, Attested, ManifestModel
<1> QED
  BY <1>1, <1>2, <1>3, <1>4, <1>5, <1>6 DEF OneInv

\* A record with another value of a field.
WithManifest(t, x) == [t EXCEPT !.manifest = x]
WithStarted(t, x) == [t EXCEPT !.started = x]
WithBranches(t, x) == [t EXCEPT !.branches = x]
WithHarness(t, x) == [t EXCEPT !.harness = x]
WithFingerprint(t, x) == [t EXCEPT !.fingerprint = x]
WithConfig(t, x) == [t EXCEPT !.config = x]
WithOptions(t, x) == [t EXCEPT !.options = x]
WithModel(t, x) == [t EXCEPT !.model = x]

\* What is left of a directory when one part of it is written again.
LEMMA TraceFields ==
    \A t, s, q, b, m, x :
        t = TraceOf(s, q, b, m) =>
            /\ WithManifest(t, x) = TraceOf(s, q, b, x)
            /\ WithStarted(t, x) = TraceOf(x, q, b, m)
            /\ WithBranches(t, x) = TraceOf(s, q, x, m)
BY DEF TraceOf, WithManifest, WithStarted, WithBranches

\* What is left of a manifest when one field of it is written again.
LEMMA ManifestFields ==
    \A t, h, f, c, a, x :
        t = ManifestOf(h, f, c, a) =>
            /\ WithHarness(t, x) = ManifestOf(x, f, c, a)
            /\ WithFingerprint(t, x) = ManifestOf(h, x, c, a)
            /\ WithConfig(t, x) = ManifestOf(h, f, x, a)
BY DEF ManifestOf, WithHarness, WithFingerprint, WithConfig

\* What is left of a configuration when one field of it is assigned.
LEMMA OptionFields ==
    \A t, h, m, o, d, x :
        t = OptionsOf(h, m, o, d) =>
            /\ WithHarness(t, x) = OptionsOf(x, m, o, d)
            /\ WithOptions(t, x) = OptionsOf(h, m, x, d)
BY DEF OptionsOf, WithHarness, WithOptions

\* What is left of a branch record when one field of it is written again.
LEMMA BranchFields ==
    \A t, d, q, m, p, h, f, x :
        t = BranchOf(d, q, m, p, h, f) =>
            /\ WithHarness(t, x) = BranchOf(d, q, m, p, x, f)
            /\ WithFingerprint(t, x) = BranchOf(d, q, m, p, h, x)
            /\ WithModel(t, x) = BranchOf(d, q, x, p, h, f)
BY DEF BranchOf, WithHarness, WithFingerprint, WithModel

\* Whoever writes another provenance over a directory leaves of it what a trace
\* has, the model of its manifest, and of each branch its depth, its request and
\* its prompt.
StillTraced(t, u) ==
    /\ Shaped(u, TRUE)
    /\ u.manifest.config.model = t.manifest.config.model
    /\ \A b \in t.branches : \E c \in u.branches :
          c.depth = b.depth /\ c.request = b.request /\ c.prompt = b.prompt

\* That holds of every such writing.
LEMMA Overwritten ==
    ASSUME NEW t, Shaped(t, TRUE), NEW u \in Single!Rewritten(t) PROVE StillTraced(t, u)
<1>1. PICK s, q, bs, m : t = TraceOf(s, q, bs, m) /\ m = t.manifest /\ bs = t.branches
  BY DEF Shaped
<1>2. PICK h0, f0, c0, a0 : m = ManifestOf(h0, f0, c0, a0) /\ c0 = m.config
  BY <1>1 DEF Shaped
<1>3. PICK h1, m1, o1, d1 : c0 = OptionsOf(h1, m1, o1, d1)
  <2>1. c0 = OptionsOf(c0.harness, c0.model, c0.options, c0.depth)
    BY <1>1, <1>2 DEF Shaped
  <2> QED
    BY <2>1
<1>4. /\ t.branches = bs /\ t.manifest.config.model = m1
      /\ \A b \in bs : b = BranchOf(b.depth, b.request, b.model, b.prompt, b.harness, b.fingerprint)
  BY <1>1, <1>2, <1>3 DEF Shaped, OptionsOf
\* What a trace with these parts is.
<1>5. ASSUME NEW s2, NEW q2, NEW b2, NEW h2, NEW f2, NEW k2, NEW o2, NEW d2, NEW a2,
             \A b \in b2 : b = BranchOf(b.depth, b.request, b.model, b.prompt, b.harness, b.fingerprint),
             \A b \in bs : \E c \in b2 : c.depth = b.depth /\ c.request = b.request /\ c.prompt = b.prompt,
             u = TraceOf(s2, q2, b2, ManifestOf(h2, f2, OptionsOf(k2, m1, o2, d2), a2))
      PROVE  StillTraced(t, u)
  BY <1>4, <1>5 DEF StillTraced, Shaped, TraceOf, ManifestOf, OptionsOf
<1>6. \A b \in bs : \E c \in bs : c.depth = b.depth /\ c.request = b.request /\ c.prompt = b.prompt
  OBVIOUS
<1> DEFINE P(h) == WithConfig(WithFingerprint(WithHarness(m, h), h), WithHarness(WithFingerprint(WithHarness(m, h), h).config, h))
<1>7. ASSUME NEW h PROVE P(h) = ManifestOf(h, h, OptionsOf(h, m1, o1, d1), a0)
  <2>1. WithFingerprint(WithHarness(m, h), h) = ManifestOf(h, h, c0, a0)
    BY <1>2, ManifestFields
  <2>2. ManifestOf(h, h, c0, a0).config = c0
    BY DEF ManifestOf
  <2>3. WithHarness(c0, h) = OptionsOf(h, m1, o1, d1)
    BY <1>3, OptionFields
  <2> QED
    BY <2>1, <2>2, <2>3, ManifestFields
<1> DEFINE Own(h) == {WithFingerprint(WithHarness(b, h), h) : b \in bs}
           Named(k) == {WithModel(b, k) : b \in bs}
<1>8. ASSUME NEW h
      PROVE  /\ \A b \in Own(h) : b = BranchOf(b.depth, b.request, b.model, b.prompt, b.harness, b.fingerprint)
             /\ \A b \in bs : \E c \in Own(h) : c.depth = b.depth /\ c.request = b.request /\ c.prompt = b.prompt
  <2>1. ASSUME NEW b \in bs
        PROVE  WithFingerprint(WithHarness(b, h), h) = BranchOf(b.depth, b.request, b.model, b.prompt, h, h)
    BY <1>4, BranchFields
  <2> QED
    BY <2>1 DEF BranchOf
<1>9. ASSUME NEW k
      PROVE  /\ \A b \in Named(k) : b = BranchOf(b.depth, b.request, b.model, b.prompt, b.harness, b.fingerprint)
             /\ \A b \in bs : \E c \in Named(k) : c.depth = b.depth /\ c.request = b.request /\ c.prompt = b.prompt
  <2>1. ASSUME NEW b \in bs
        PROVE  WithModel(b, k) = BranchOf(b.depth, b.request, k, b.prompt, b.harness, b.fingerprint)
    BY <1>4, BranchFields
  <2> QED
    BY <2>1 DEF BranchOf
<1>10. PICK h, o, k :
        \/ u = WithManifest(t, WithHarness(m, h))
        \/ u = WithStarted(WithManifest(t, P(h)), P(h))
        \/ u = WithBranches(WithManifest(t, P(h)), Own(h))
        \/ u = WithBranches(WithStarted(WithManifest(t, P(h)), P(h)), Own(h))
        \/ u = WithStarted(WithManifest(t, WithConfig(m, WithOptions(c0, o))),
                           WithConfig(s, WithOptions(s.config, o)))
        \/ u = WithBranches(t, Named(k))
  <2> DEFINE others == {Single!Encode(h) : h \in Harnesses}
             Q(h) == WithConfig(WithFingerprint(WithHarness(t.manifest, h), h),
                        WithHarness(WithFingerprint(WithHarness(t.manifest, h), h).config, h))
             Their(h) == {WithFingerprint(WithHarness(b, h), h) : b \in t.branches}
  <2>1. Single!Rewritten(t) =
          {WithManifest(t, WithHarness(t.manifest, h)) : h \in others}
          \union {WithStarted(WithManifest(t, Q(h)), Q(h)) : h \in others}
          \union {WithBranches(WithManifest(t, Q(h)), Their(h)) : h \in others}
          \union {WithBranches(WithStarted(WithManifest(t, Q(h)), Q(h)), Their(h)) : h \in others}
          \union {WithStarted(WithManifest(t, WithConfig(t.manifest, WithOptions(t.manifest.config, o))),
                     WithConfig(WithManifest(t, WithConfig(t.manifest, WithOptions(t.manifest.config, o))).started,
                        WithOptions(WithManifest(t, WithConfig(t.manifest, WithOptions(t.manifest.config, o))).started.config, o))) : o \in Options}
          \union {WithBranches(t, {WithModel(b, k) : b \in t.branches}) : k \in Models}
    BY DEF Single!Rewritten, WithManifest, WithStarted, WithBranches, WithHarness,
           WithFingerprint,
           WithConfig, WithOptions, WithModel
  <2>2. t.manifest = m /\ t.branches = bs /\ m.config = c0
    BY <1>1, <1>2
  <2>3. ASSUME NEW x PROVE WithManifest(t, x).started = s
    BY <1>1, TraceFields DEF TraceOf
  <2>4. u \in Single!Rewritten(t)
    OBVIOUS
  <2> HIDE DEF others
  <2> QED
    BY <2>1, <2>2, <2>3, <2>4
<1> HIDE DEF P, Own, Named
<1>11. ASSUME NEW x PROVE WithManifest(t, x) = TraceOf(s, q, bs, x)
  BY <1>1, TraceFields
<1>12. ASSUME NEW x, NEW y PROVE WithStarted(WithManifest(t, x), y) = TraceOf(y, q, bs, x)
  BY <1>11, TraceFields
<1>13. ASSUME NEW x, NEW y PROVE WithBranches(WithManifest(t, x), y) = TraceOf(s, q, y, x)
  BY <1>11, TraceFields
<1>14. ASSUME NEW x, NEW y, NEW z PROVE WithBranches(WithStarted(WithManifest(t, x), z), y) = TraceOf(z, q, y, x)
  BY <1>12, TraceFields
<1>15. CASE u = WithManifest(t, WithHarness(m, h))
  <2>1. u = TraceOf(s, q, bs, ManifestOf(h, f0, OptionsOf(h1, m1, o1, d1), a0))
    BY <1>2, <1>3, <1>11, <1>15, ManifestFields
  <2> QED
    BY <2>1, <1>4, <1>5, <1>6
<1>16. CASE u = WithStarted(WithManifest(t, P(h)), P(h))
  <2>1. u = TraceOf(P(h), q, bs, ManifestOf(h, h, OptionsOf(h, m1, o1, d1), a0))
    BY <1>7, <1>12, <1>16
  <2> QED
    BY <2>1, <1>4, <1>5, <1>6
<1>17. CASE u = WithBranches(WithManifest(t, P(h)), Own(h))
  <2>1. u = TraceOf(s, q, Own(h), ManifestOf(h, h, OptionsOf(h, m1, o1, d1), a0))
    BY <1>7, <1>13, <1>17
  <2> QED
    BY <2>1, <1>5, <1>8
<1>18. CASE u = WithBranches(WithStarted(WithManifest(t, P(h)), P(h)), Own(h))
  <2>1. u = TraceOf(P(h), q, Own(h), ManifestOf(h, h, OptionsOf(h, m1, o1, d1), a0))
    BY <1>7, <1>14, <1>18
  <2> QED
    BY <2>1, <1>5, <1>8
<1>19. CASE u = WithStarted(WithManifest(t, WithConfig(m, WithOptions(c0, o))),
                            WithConfig(s, WithOptions(s.config, o)))
  <2>1. WithConfig(m, WithOptions(c0, o)) = ManifestOf(h0, f0, OptionsOf(h1, m1, o, d1), a0)
    BY <1>2, <1>3, ManifestFields, OptionFields
  <2>2. u = TraceOf(WithConfig(s, WithOptions(s.config, o)), q, bs,
                    ManifestOf(h0, f0, OptionsOf(h1, m1, o, d1), a0))
    BY <2>1, <1>12, <1>19
  <2> QED
    BY <2>2, <1>4, <1>5, <1>6
<1>20. CASE u = WithBranches(t, Named(k))
  <2>1. u = TraceOf(s, q, Named(k), ManifestOf(h0, f0, OptionsOf(h1, m1, o1, d1), a0))
    BY <1>1, <1>2, <1>3, <1>20, TraceFields
  <2> QED
    BY <2>1, <1>5, <1>9
<1> QED
  BY <1>10, <1>15, <1>16, <1>17, <1>18, <1>19, <1>20

\* Every step of the run, of its caller and of those who hold its directory keeps
\* the invariant.
LEMMA OneContinues == OneInv /\ [Single!Next]_provenanceVars => OneInv'
<1> SUFFICES ASSUME OneInv, [Single!Next]_provenanceVars PROVE OneInv'
  OBVIOUS
<1>1. CASE UNCHANGED provenanceVars
  BY <1>1
     DEF provenanceVars, OneInv, HasRun, RunOver, Fits, SentIsTraced, ModelsKept, Attested,
     ManifestModel, Shaped, ConfigOf, Single!Contract, Single!Render
<1>2. CASE Single!Mutate
  <2>1. PICK o \in Options, h \in Harnesses : cfg' = [cfg EXCEPT !.options = o, !.harness = h]
    BY <1>2 DEF Single!Mutate
  <2>2. cfg' = WithHarness(WithOptions(cfg, o), h)
    BY <2>1 DEF WithHarness, WithOptions
  <2>3. cfg = OptionsOf(cfg.harness, cfg.model, cfg.options, cfg.depth)
    BY DEF OneInv
  <2>4. cfg' = OptionsOf(h, cfg.model, o, cfg.depth)
    BY <2>2, <2>3, OptionFields
  <2>5. /\ cfg'.harness \in Harnesses /\ cfg'.depth = MaxDepth
        /\ cfg' = OptionsOf(cfg'.harness, cfg'.model, cfg'.options, cfg'.depth)
    BY <2>4 DEF OneInv, OptionsOf
  <2> QED
    BY <1>2, <2>5
       DEF Single!Mutate, OneInv, HasRun, RunOver, Fits, SentIsTraced, ModelsKept, Attested,
     ManifestModel, Shaped, ConfigOf, Single!Contract, Single!Render
<1>3. CASE Single!Upgrade
  BY <1>3
     DEF Single!Upgrade, OneInv, HasRun, RunOver, Fits, SentIsTraced, ModelsKept, Attested,
     ManifestModel, Shaped, ConfigOf
<1>4. ASSUME NEW m \in Models, Single!Start(Run, m) PROVE OneInv'
  <2>0. /\ run[Run].phase = "idle" /\ ~HasRun
        /\ run[Run] = [phase |-> run[Run].phase, config |-> run[Run].config, request |-> run[Run].request]
        /\ run = [r \in {Run} |-> run[r]] /\ trace = [r \in {Run} |-> trace[r]]
    BY <1>4 DEF Single!Start, OneInv, HasRun
  <2>1. CASE ~Single!AcceptedOptions(cfg.options) \/ ~Single!Contract(cfg.harness)
    <3>1. run' = [run EXCEPT ![Run].phase = "refused"] /\ UNCHANGED <<trace, cfg, installed, sent, attestation>>
      BY <1>4, <2>1, SnapshotIsOwn DEF Single!Start
    <3>2. /\ run'[Run] = [phase |-> "refused", config |-> run[Run].config, request |-> run[Run].request]
          /\ run' = [r \in {Run} |-> run'[r]]
      BY <2>0, <3>1
    <3> QED
      BY <2>0, <3>1, <3>2
         DEF OneInv, HasRun, RunOver, Fits, SentIsTraced, ModelsKept, Attested,
             ManifestModel
  <2>2. CASE Single!AcceptedOptions(cfg.options) /\ Single!Contract(cfg.harness)
    <3>1. /\ run' = [run EXCEPT ![Run] = [phase |-> "running", config |-> cfg, request |-> m]]
          /\ trace' = [trace EXCEPT ![Run] = [started |-> Single!Provenance(cfg), request |-> m,
                                              branches |-> {}, manifest |-> Nothing]]
          /\ UNCHANGED <<cfg, installed, sent, attestation>>
      BY <1>4, <2>2, SnapshotIsOwn DEF Single!Start
    <3>2. /\ run'[Run] = [phase |-> "running", config |-> cfg, request |-> m]
          /\ run' = [r \in {Run} |-> run'[r]] /\ trace' = [r \in {Run} |-> trace'[r]]
          /\ trace'[Run] = TraceOf(Single!Provenance(cfg), m, {}, Nothing)
      BY <2>0, <3>1 DEF TraceOf
    <3>3. HasRun' /\ ~RunOver'
      BY <3>2 DEF HasRun, RunOver
    <3>4. Made(cfg.harness)
      BY HarnessAssumption DEF OneInv, Made
    <3>5. ConfigOf(run[Run].config)' /\ Shaped(trace[Run], FALSE)'
      BY <3>1, <3>2, <3>4 DEF OneInv, ConfigOf, Shaped, TraceOf, Made, OptionsOf
    <3>6. Fits'
      BY <2>2, <3>1, <3>2 DEF Fits, Single!Contract, Single!Render
    <3>7. sent'[Run] = {} /\ attestation'[Run] = Nothing /\ trace'[Run].branches = {}
      BY <2>0, <3>1, <3>2 DEF OneInv, TraceOf
    <3> QED
      BY <2>0, <3>1, <3>2, <3>3, <3>5, <3>6, <3>7
         DEF OneInv, SentIsTraced, ModelsKept, Attested, ManifestModel
  <2> QED
    BY <2>1, <2>2
<1>5. ASSUME NEW d \in Single!Branch, NEW m \in Models, Single!StartBranch(Run, d, m) PROVE OneInv'
  <2> DEFINE config == run[Run].config
             b0 == [depth |-> d, request |-> m, model |-> Single!ModelOf(config, m),
                    prompt |-> Single!BranchPrompt(config, d),
                    harness |-> Single!Encode(config.harness), fingerprint |-> Single!Fingerprint(config.harness)]
  <2>0. /\ run[Run].phase = "running" /\ HasRun /\ ~RunOver
        /\ trace = [r \in {Run} |-> trace[r]]
        /\ trace[Run] = TraceOf(trace[Run].started, trace[Run].request, trace[Run].branches, trace[Run].manifest)
        /\ \A b \in trace[Run].branches :
              b = BranchOf(b.depth, b.request, b.model, b.prompt, b.harness, b.fingerprint)
    BY <1>5 DEF Single!StartBranch, OneInv, HasRun, RunOver, Shaped
  <2>1. Single!BranchPrompt(config, d) \in {config.harness.rendered[b] : b \in BOOLEAN}
    <3>1. Single!Contract(config.harness)
      BY <2>0 DEF OneInv, Fits
    <3>2. (d < config.depth) \in BOOLEAN
      OBVIOUS
    <3>3. Single!BranchPrompt(config, d) = config.harness.rendered[d < config.depth]
      BY <3>1, <3>2 DEF Single!Contract, Single!BranchPrompt
    <3> QED
      BY <3>2, <3>3
  <2>2. /\ trace' = [trace EXCEPT ![Run].branches = @ \union {b0}]
        /\ UNCHANGED <<run, cfg, installed, sent, attestation>>
    BY <1>5, <2>1 DEF Single!StartBranch
  <2>3. trace'[Run] = WithBranches(trace[Run], trace[Run].branches \union {b0})
    BY <2>0, <2>2 DEF WithBranches
  <2>4. /\ trace'[Run] = TraceOf(trace[Run].started, trace[Run].request, trace[Run].branches \union {b0}, trace[Run].manifest)
        /\ trace' = [r \in {Run} |-> trace'[r]]
    <3>1. trace'[Run] = TraceOf(trace[Run].started, trace[Run].request, trace[Run].branches \union {b0}, trace[Run].manifest)
      BY <2>0, <2>3, TraceFields
    <3> QED
      BY <2>0, <2>2, <3>1
  <2>5. b0 = BranchOf(b0.depth, b0.request, b0.model, b0.prompt, b0.harness, b0.fingerprint)
    BY DEF BranchOf
  <2>6. b0.model = Single!ModelOf(config, b0.request)
    OBVIOUS
  <2> HIDE DEF b0
  <2>7. /\ trace'[Run].branches = trace[Run].branches \union {b0}
        /\ Shaped(trace'[Run], FALSE)
    BY <2>0, <2>4, <2>5 DEF Shaped, TraceOf
  <2>8. SentIsTraced' /\ ModelsKept'
    BY <2>0, <2>2, <2>6, <2>7 DEF OneInv, SentIsTraced, ModelsKept, Single!ModelOf
  <2>9. Fits' /\ Attested' /\ ManifestModel' /\ HasRun' /\ ~RunOver'
    BY <2>0, <2>2
       DEF OneInv, Fits, Attested, ManifestModel, HasRun, RunOver, Single!Contract,
           Single!Render,
       Single!Attest, Single!ModelOf, Single!Fingerprint, Single!Encode
  <2> QED
    BY <2>0, <2>2, <2>4, <2>7, <2>8, <2>9 DEF OneInv, ConfigOf
<1>6. ASSUME trace[Run] # Nothing, NEW b \in trace[Run].branches, Single!Turn(Run, b) PROVE OneInv'
  <2> DEFINE s0 == [depth |-> b.depth, model |-> b.model, instructions |-> b.prompt, options |-> run[Run].config.options]
  <2>1. /\ run[Run].phase = "running" /\ HasRun /\ ~RunOver
        /\ sent' = [sent EXCEPT ![Run] = @ \union {s0}]
        /\ UNCHANGED <<cfg, installed, run, trace, attestation>>
    BY <1>6 DEF Single!Turn, HasRun, RunOver
  <2>2. sent'[Run] = sent[Run] \union {s0} /\ sent' = [r \in {Run} |-> sent'[r]]
    BY <2>1 DEF OneInv
  <2>3. s0.options = run[Run].config.options /\ b.depth = s0.depth /\ b.prompt = s0.instructions
        /\ s0.model = Single!ModelOf(run[Run].config, b.request)
    BY <2>1 DEF OneInv, ModelsKept
  <2> HIDE DEF s0
  <2>4. SentIsTraced'
    BY <2>1, <2>2, <2>3, <1>6 DEF OneInv, SentIsTraced, Single!ModelOf
  <2>5. Fits' /\ Attested' /\ ManifestModel' /\ HasRun' /\ ~RunOver' /\ ModelsKept'
    BY <2>1
       DEF OneInv, Fits, Attested, ManifestModel, HasRun, RunOver, Single!Contract,
           Single!Render,
       Single!Attest, Single!ModelOf, Single!Fingerprint, Single!Encode, ModelsKept
  <2> QED
    BY <2>1, <2>2, <2>4, <2>5 DEF OneInv, ConfigOf, Shaped
<1>7. ASSUME NEW status \in {"completed", "failed"}, Single!Finish(Run, status) PROVE OneInv'
  <2> DEFINE config == run[Run].config
  <2>0. /\ run[Run].phase = "running" /\ HasRun /\ ~RunOver
        /\ trace = [r \in {Run} |-> trace[r]] /\ run = [r \in {Run} |-> run[r]]
        /\ attestation = [r \in {Run} |-> attestation[r]]
        /\ run[Run] = [phase |-> run[Run].phase, config |-> run[Run].config, request |-> run[Run].request]
        /\ trace[Run] = TraceOf(trace[Run].started, trace[Run].request, trace[Run].branches, trace[Run].manifest)
    BY <1>7 DEF Single!Finish, OneInv, HasRun, RunOver, Shaped
  <2>1. /\ run' = [run EXCEPT ![Run].phase = status]
        /\ trace' = [trace EXCEPT ![Run].manifest = Single!Provenance(config)]
        /\ attestation' = IF status = "completed"
                          THEN [attestation EXCEPT ![Run] = Single!Attest(config, run[Run].request)]
                          ELSE attestation
        /\ UNCHANGED <<cfg, installed, sent>>
    BY <1>7 DEF Single!Finish
  <2>2. /\ run'[Run] = [phase |-> status, config |-> config, request |-> run[Run].request]
        /\ run' = [r \in {Run} |-> run'[r]] /\ attestation' = [r \in {Run} |-> attestation'[r]]
    BY <2>0, <2>1
  <2>3. trace'[Run] = WithManifest(trace[Run], Single!Provenance(config))
    BY <2>0, <2>1 DEF WithManifest
  <2>4. /\ trace'[Run] = TraceOf(trace[Run].started, trace[Run].request, trace[Run].branches, Single!Provenance(config))
        /\ trace' = [r \in {Run} |-> trace'[r]]
    BY <2>0, <2>1, <2>3, TraceFields
  <2>5. HasRun' /\ RunOver'
    BY <2>2 DEF HasRun, RunOver
  <2>6. /\ Single!Provenance(config) = ManifestOf(Single!Encode(config.harness), Single!Fingerprint(config.harness),
              OptionsOf(Single!Encode(config.harness), config.model, config.options, config.depth), installed)
    BY DEF Single!Provenance, Single!ConfigDict, ManifestOf, OptionsOf
  <2>7. /\ trace'[Run].branches = trace[Run].branches
        /\ trace'[Run].manifest.config.model = config.model
        /\ Shaped(trace'[Run], FALSE) /\ Shaped(trace'[Run], TRUE)
    BY <2>0, <2>4, <2>6 DEF OneInv, Shaped, TraceOf, ManifestOf, OptionsOf
  <2>8. SentIsTraced' /\ ModelsKept' /\ Fits' /\ ManifestModel'
    BY <2>0, <2>1, <2>2, <2>7
       DEF OneInv, SentIsTraced, ModelsKept, Fits, ManifestModel, Single!ModelOf
  <2>9. Attested'
    BY <2>0, <2>1, <2>2
       DEF OneInv, Attested, Single!Attest, Single!ModelOf, Single!Fingerprint,
           Single!Encode
  <2> QED
    BY <2>0, <2>1, <2>2, <2>4, <2>5, <2>7, <2>8, <2>9 DEF OneInv, ConfigOf
<1>8. CASE Single!Answer(Run)
  BY <1>8
     DEF Single!Answer, OneInv, HasRun, RunOver, Fits, SentIsTraced, ModelsKept, Attested,
     ManifestModel, Shaped, ConfigOf, Single!Contract, Single!Render
<1>9. CASE Single!Rewrite(Run)
  <2>0. /\ run[Run].phase \in {"completed", "failed"} /\ HasRun /\ RunOver
        /\ trace = [r \in {Run} |-> trace[r]] /\ run = [r \in {Run} |-> run[r]]
        /\ run[Run] = [phase |-> run[Run].phase, config |-> run[Run].config, request |-> run[Run].request]
        /\ Shaped(trace[Run], TRUE)
    BY <1>9 DEF Single!Rewrite, OneInv, HasRun, RunOver
  <2>1. PICK u \in Single!Rewritten(trace[Run]) : trace' = [trace EXCEPT ![Run] = u]
    BY <1>9 DEF Single!Rewrite
  <2>2. /\ run' = [run EXCEPT ![Run].phase = "rewritten"]
        /\ UNCHANGED <<cfg, installed, sent, attestation>>
    BY <1>9 DEF Single!Rewrite
  <2>3. /\ run'[Run] = [phase |-> "rewritten", config |-> run[Run].config, request |-> run[Run].request]
        /\ run' = [r \in {Run} |-> run'[r]]
        /\ trace'[Run] = u /\ trace' = [r \in {Run} |-> trace'[r]]
    BY <2>0, <2>1, <2>2
  <2>4. StillTraced(trace[Run], u)
    BY <2>0, Overwritten
  <2>5. HasRun' /\ RunOver' /\ Shaped(u, TRUE) /\ Shaped(u, FALSE)
    BY <2>3, <2>4 DEF HasRun, RunOver, StillTraced, Shaped
  <2>6. SentIsTraced'
    <3> SUFFICES ASSUME NEW x \in sent[Run]
                 PROVE  /\ x.options = run[Run].config.options
                        /\ \E b \in u.branches :
                              /\ b.depth = x.depth /\ b.prompt = x.instructions
                              /\ x.model = Single!ModelOf(run[Run].config, b.request)
      BY <2>2, <2>3 DEF SentIsTraced, Single!ModelOf
    <3> QED
      BY <2>0, <2>4 DEF OneInv, SentIsTraced, StillTraced
  <2>7. ModelsKept' /\ Fits' /\ ManifestModel'
    BY <2>0, <2>3, <2>4 DEF OneInv, ModelsKept, Fits, ManifestModel, StillTraced
  <2>8. Attested'
    BY <2>0, <2>2, <2>3
       DEF OneInv, Attested, Single!Attest, Single!ModelOf, Single!Fingerprint,
           Single!Encode
  <2>9. run'[Run].config = run[Run].config /\ run'[Run].phase = "rewritten"
    BY <2>3
  <2>10. Shaped(trace'[Run], TRUE) /\ Shaped(trace'[Run], FALSE)
    BY Zenon, <2>3, <2>5
  <2> QED
    BY <2>0, <2>2, <2>3, <2>5, <2>6, <2>7, <2>8, <2>9, <2>10 DEF OneInv, ConfigOf
<1> QED
  BY <1>1, <1>2, <1>3, <1>4, <1>5, <1>6, <1>7, <1>8, <1>9 DEF Single!Next, provenanceVars

\* No harness is found not to fit after the run has begun, and what the artifacts
\* agree on is what the invariant says of the run.
LEMMA ProvenanceFollows == OneInv => Single!RefusedBeforeStart /\ Single!AgreedIsTrue
<1> SUFFICES ASSUME OneInv PROVE Single!RefusedBeforeStart /\ Single!AgreedIsTrue
  OBVIOUS
<1>1. Single!RefusedBeforeStart
  BY DEF OneInv, Single!RefusedBeforeStart
<1>2. Single!AgreedIsTrue
  <2> SUFFICES ASSUME Single!Written(Run), attestation[Run] # Nothing,
                      Single!Agrees(attestation[Run], trace[Run]), NEW x \in sent[Run]
               PROVE  /\ x.options = trace[Run].manifest.config.options
                      /\ trace[Run].manifest.harness = Single!Encode(run[Run].config.harness)
                      /\ \E b \in trace[Run].branches :
                            b.depth = x.depth /\ b.model = x.model /\ b.prompt = x.instructions
    BY DEF Single!AgreedIsTrue
  <2> DEFINE config == run[Run].config
             m == trace[Run].manifest
  <2>1. /\ HasRun /\ RunOver /\ ConfigOf(config) /\ Shaped(trace[Run], TRUE)
        /\ attestation[Run] = Single!Attest(config, run[Run].request)
        /\ SentIsTraced /\ m.config.model = config.model
    BY DEF OneInv, Attested, HasRun, RunOver, ManifestModel
  <2>2. /\ m.fingerprint = Single!Encode(config.harness)
        /\ m.config.options = config.options
    BY <2>1 DEF Single!Agrees, Single!Attest, Single!Fingerprint
  <2>3. m.harness = m.fingerprint
    BY DEF Single!Agrees, Single!Loads, Single!Readable, Single!Fingerprint
  <2>4. \A b \in trace[Run].branches : b.model = Single!ModelOf(config, b.request)
    <3>1. \A b \in trace[Run].branches : b.model = Single!ModelOf(Single!FromDict(m.config), b.request)
      BY DEF Single!Agrees, Single!Loads, Single!BranchReads
    <3>2. Single!FromDict(m.config).model = config.model
      BY <2>1 DEF Single!FromDict
    <3> QED
      BY <3>1, <3>2 DEF Single!ModelOf
  <2> QED
    BY <2>1, <2>2, <2>3, <2>4 DEF SentIsTraced
<1> QED
  BY <1>1, <1>2

\* Of the scenarios only its own changes what the runs have.
LEMMA OneRests ==
    ASSUME [ScenarioNext]_allVars
    PROVE  /\ scenario' = scenario
           /\ scenario = "one run" => [Single!Next]_provenanceVars
           /\ scenario = "two runs" => [Double!Next]_provenanceVars
BY DEF ScenarioNext, allVars, FilesStep, PayloadsStep, OneRunStep, TwoRunsStep, PayloadsOver

\* engine.py:119-146, 342-415, 885-913, trace_reader.py:223-261, run_artifacts.py:15-68.
\* Whatever harness a caller holds and changes between his runs, whatever is written
\* over the directory afterwards and whatever is installed then: what the artifacts
\* of a completed run agree on is what its controllers were given, and no harness is
\* found not to fit after the first event.
THEOREM ProvenanceAlwaysTrue == ScenarioSpec => []ProvenanceTrue
<1> DEFINE One == scenario = "one run" => OneInv
<1>1. ScenarioInit => One
  BY OneBegins DEF ScenarioInit
<1>2. One /\ [ScenarioNext]_allVars => One'
  BY OneRests, OneContinues
<1>3. One => ProvenanceTrue
  BY ProvenanceFollows DEF ProvenanceTrue, AgreedIsTrue, RefusedBeforeStart
<1> QED
  BY <1>1, <1>2, <1>3, PTL DEF ScenarioSpec

\* Two runs: each has a configuration of its own, whatever its caller does to his.
TwinHas(r) == run[r].phase \in {"running", "completed", "failed", "rewritten"}

TwinConfig(c) ==
    /\ c = OptionsOf(c.harness, c.model, c.options, c.depth)
    /\ Made(c.harness) /\ c.depth = TwinDepth

\* What a controller got is what the harness of its run has for its depth.
TwinSent(r) ==
    \A s \in sent[r] : /\ s.options = run[r].config.options
                       /\ s.instructions = run[r].config.harness.rendered[s.depth < TwinDepth]

\* What a run in progress was told is what its harness renders.
TwinRunning(r) ==
    /\ Double!Contract(run[r].config.harness)
    /\ trace[r] = TraceOf(trace[r].started, trace[r].request, trace[r].branches, trace[r].manifest)
    /\ \A b \in trace[r].branches : b.prompt = run[r].config.harness.rendered[b.depth < TwinDepth]

TwinShape(r) == run[r] = [phase |-> run[r].phase, config |-> run[r].config, request |-> run[r].request]

TwinOf(r) ==
    /\ TwinShape(r)
    /\ TwinHas(r) => TwinConfig(run[r].config) /\ TwinSent(r)
    /\ ~TwinHas(r) => attestation[r] = Nothing /\ sent[r] = {}
    /\ run[r].phase = "running" => TwinRunning(r)
    /\ attestation[r] # Nothing => TwinHas(r) /\ attestation[r] = Double!Attest(run[r].config, run[r].request)

CfgTwin ==
    /\ cfg.harness \in TwinHarnesses /\ cfg.depth = TwinDepth
    /\ cfg = OptionsOf(cfg.harness, cfg.model, cfg.options, cfg.depth)

TwinMaps ==
    /\ run = [r \in Twins |-> run[r]] /\ trace = [r \in Twins |-> trace[r]]
    /\ sent = [r \in Twins |-> sent[r]] /\ attestation = [r \in Twins |-> attestation[r]]

\* The inductive invariant of the runs that overlap.
TwinInv == CfgTwin /\ TwinMaps /\ \A r \in Twins : TwinOf(r)

\* parse_harness reads what the harness was written as, whichever run holds it.
LEMMA FromEncodedTwin ==
    ASSUME NEW h, Made(h) PROVE Double!Decode(Double!Encode(h)) = h
<1>1. CASE h.prelude = Bare
  <2>1. Double!Encode(h) = [f \in {"prompt", "abi", "rendered"} |-> h[f]]
    BY <1>1 DEF Double!Encode
  <2> QED
    BY <1>1, <2>1 DEF Double!Decode, Made
<1>2. CASE h.prelude # Bare
  <2>1. Double!Encode(h) = [f \in {"prompt", "abi", "rendered", "prelude"} |-> h[f]]
    BY <1>2 DEF Double!Encode
  <2> QED
    BY <1>2, <2>1 DEF Double!Decode, Made
<1> QED
  BY <1>1, <1>2

\* The deep copy each run takes of the configuration is equal to it.
LEMMA TwinSnapshot ==
    ASSUME CfgTwin PROVE Double!FromDict(Double!ConfigDict(cfg)) = cfg
<1>1. Made(cfg.harness)
  BY HarnessAssumption DEF CfgTwin, Made
<1> QED
  BY <1>1, FromEncodedTwin DEF CfgTwin, OptionsOf, Double!FromDict, Double!ConfigDict

\* Before the runs there is nothing of them.
LEMMA TwinBegins == Double!Init => TwinInv
<1> SUFFICES ASSUME Double!Init PROVE TwinInv
  OBVIOUS
<1>1. /\ cfg \in [harness : TwinHarnesses, model : TwinModels \union {NoModel},
                  options : TwinOptions \ TwinOwnedOptions, depth : {TwinDepth}]
      /\ run = [r \in Twins |-> Double!Idle] /\ trace = [r \in Twins |-> Nothing]
      /\ sent = [r \in Twins |-> {}] /\ attestation = [r \in Twins |-> Nothing]
  BY DEF Double!Init
<1>2. CfgTwin
  BY <1>1 DEF CfgTwin, OptionsOf
<1>3. TwinMaps
  BY <1>1 DEF TwinMaps
<1>4. ASSUME NEW r \in Twins PROVE TwinOf(r)
  <2>1. run[r] = [phase |-> "idle", config |-> Nothing, request |-> Nothing] /\ attestation[r] = Nothing /\ sent[r] = {}
    BY <1>1 DEF Double!Idle
  <2> QED
    BY <2>1 DEF TwinOf, TwinShape, TwinHas
<1> QED
  BY <1>2, <1>3, <1>4 DEF TwinInv

\* What one of the runs has is kept as long as it does nothing.
LEMMA TwinRests ==
    ASSUME NEW r \in Twins, TwinOf(r), run'[r] = run[r], sent'[r] = sent[r], attestation'[r] = attestation[r],
           trace'[r] = trace[r] \/ run[r].phase # "running",
           installed' = installed \/ run[r].phase # "running"
    PROVE  TwinOf(r)'
BY DEF TwinOf, TwinHas, TwinConfig, TwinSent, TwinRunning, TwinShape, Double!Contract,
       Double!Render,
   Double!Attest, Double!ModelOf, Double!Fingerprint, Double!Encode, OptionsOf, Made, TraceOf

\* Every step of either run, of the caller and of those who hold the directories.
LEMMA TwinContinues == TwinInv /\ [Double!Next]_provenanceVars => TwinInv'
<1> SUFFICES ASSUME TwinInv, [Double!Next]_provenanceVars PROVE TwinInv'
  OBVIOUS
<1>0. CfgTwin /\ TwinMaps /\ \A r \in Twins : TwinOf(r)
  BY DEF TwinInv
<1>1. CASE UNCHANGED provenanceVars
  <2>1. \A r \in Twins : TwinOf(r)'
    BY <1>0, <1>1, TwinRests DEF provenanceVars
  <2> QED
    BY <1>0, <1>1, <2>1 DEF TwinInv, CfgTwin, TwinMaps, provenanceVars, OptionsOf
<1>2. CASE Double!Mutate
  <2>1. PICK o \in TwinOptions, h \in TwinHarnesses : cfg' = [cfg EXCEPT !.options = o, !.harness = h]
    BY <1>2 DEF Double!Mutate
  <2>2. cfg' = WithHarness(WithOptions(cfg, o), h)
    BY <2>1 DEF WithHarness, WithOptions
  <2>3. cfg = OptionsOf(cfg.harness, cfg.model, cfg.options, cfg.depth)
    BY <1>0 DEF CfgTwin
  <2>4. cfg' = OptionsOf(h, cfg.model, o, cfg.depth)
    BY <2>2, <2>3, OptionFields
  <2>5. CfgTwin'
    BY <1>0, <2>4 DEF CfgTwin, OptionsOf
  <2>6. UNCHANGED <<installed, run, sent, trace, attestation>>
    BY <1>2 DEF Double!Mutate
  <2>7. \A r \in Twins : TwinOf(r)'
    BY <1>0, <2>6, TwinRests
  <2> QED
    BY <1>0, <2>5, <2>6, <2>7 DEF TwinInv, TwinMaps
<1>3. CASE Double!Upgrade
  <2>1. /\ UNCHANGED <<cfg, run, sent, trace, attestation>>
        /\ \A r \in Twins : run[r].phase # "running"
    BY <1>3 DEF Double!Upgrade
  <2>2. \A r \in Twins : TwinOf(r)'
    BY <1>0, <2>1, TwinRests
  <2> QED
    BY <1>0, <2>1, <2>2 DEF TwinInv, CfgTwin, TwinMaps, OptionsOf
<1>4. ASSUME NEW r \in Twins, NEW m \in TwinModels, Double!Start(r, m) PROVE TwinInv'
  <2>0. run[r].phase = "idle" /\ ~TwinHas(r) /\ TwinShape(r) /\ sent[r] = {} /\ attestation[r] = Nothing
    BY <1>0, <1>4 DEF Double!Start, TwinOf, TwinHas
  <2>1. CASE ~Double!AcceptedOptions(cfg.options) \/ ~Double!Contract(cfg.harness)
    <3>1. run' = [run EXCEPT ![r].phase = "refused"] /\ UNCHANGED <<trace, cfg, installed, sent, attestation>>
      BY <1>0, <1>4, <2>1, TwinSnapshot DEF Double!Start
    <3>2. /\ run'[r] = [phase |-> "refused", config |-> run[r].config, request |-> run[r].request]
          /\ run' = [q \in Twins |-> run'[q]]
          /\ \A q \in Twins : q # r => run'[q] = run[q]
      BY <1>0, <2>0, <3>1 DEF TwinMaps, TwinShape
    <3>3. TwinOf(r)'
      BY <2>0, <3>1, <3>2 DEF TwinOf, TwinShape, TwinHas
    <3>4. \A q \in Twins : q # r => TwinOf(q)'
      BY <1>0, <3>1, <3>2, TwinRests
    <3> QED
      BY <1>0, <3>1, <3>2, <3>3, <3>4 DEF TwinInv, CfgTwin, TwinMaps, OptionsOf
  <2>2. CASE Double!AcceptedOptions(cfg.options) /\ Double!Contract(cfg.harness)
    <3>1. /\ run' = [run EXCEPT ![r] = [phase |-> "running", config |-> cfg, request |-> m]]
          /\ trace' = [trace EXCEPT ![r] = [started |-> Double!Provenance(cfg), request |-> m,
                                            branches |-> {}, manifest |-> Nothing]]
          /\ UNCHANGED <<cfg, installed, sent, attestation>>
      BY <1>0, <1>4, <2>2, TwinSnapshot DEF Double!Start
    <3>2. /\ run'[r] = [phase |-> "running", config |-> cfg, request |-> m]
          /\ run' = [q \in Twins |-> run'[q]] /\ trace' = [q \in Twins |-> trace'[q]]
          /\ trace'[r] = TraceOf(Double!Provenance(cfg), m, {}, Nothing)
          /\ \A q \in Twins : q # r => run'[q] = run[q] /\ trace'[q] = trace[q]
      BY <1>0, <3>1 DEF TwinMaps, TraceOf
    <3>3. Made(cfg.harness)
      BY <1>0, HarnessAssumption DEF CfgTwin, Made
    <3>4. TwinConfig(run[r].config)' /\ TwinHas(r)' /\ TwinShape(r)' /\ sent'[r] = {} /\ attestation'[r] = Nothing
      BY <1>0, <2>0, <3>1, <3>2, <3>3
         DEF TwinConfig, TwinHas, TwinShape, CfgTwin, OptionsOf, Made
    <3>5. TwinRunning(r)'
      BY <2>2, <3>1, <3>2 DEF TwinRunning, TraceOf, Double!Contract, Double!Render
    <3>6. TwinOf(r)'
      BY <3>4, <3>5 DEF TwinOf, TwinSent
    <3>7. \A q \in Twins : q # r => TwinOf(q)'
      BY <1>0, <3>1, <3>2, TwinRests
    <3> QED
      BY <1>0, <3>1, <3>2, <3>6, <3>7 DEF TwinInv, CfgTwin, TwinMaps, OptionsOf
  <2> QED
    BY <2>1, <2>2
<1>5. ASSUME NEW r \in Twins, NEW d \in Double!Branch, NEW m \in TwinModels, Double!StartBranch(r, d, m) PROVE TwinInv'
  <2> DEFINE config == run[r].config
             b0 == [depth |-> d, request |-> m, model |-> Double!ModelOf(config, m),
                    prompt |-> Double!BranchPrompt(config, d),
                    harness |-> Double!Encode(config.harness), fingerprint |-> Double!Fingerprint(config.harness)]
  <2>0. run[r].phase = "running" /\ TwinHas(r) /\ TwinRunning(r) /\ TwinShape(r) /\ TwinConfig(config) /\ TwinSent(r)
    BY <1>0, <1>5 DEF Double!StartBranch, TwinHas, TwinOf
  <2>1. /\ Double!BranchPrompt(config, d) = config.harness.rendered[d < TwinDepth]
        /\ (d < TwinDepth) \in BOOLEAN /\ config.depth = TwinDepth
    <3>2. (d < TwinDepth) \in BOOLEAN
      OBVIOUS
    <3>3. Double!BranchPrompt(config, d) = config.harness.rendered[d < TwinDepth]
      BY <2>0, <3>2 DEF Double!Contract, Double!BranchPrompt, TwinRunning, TwinConfig
    <3> QED
      BY <2>0, <3>2, <3>3 DEF TwinConfig
  <2>2. /\ trace' = [trace EXCEPT ![r].branches = @ \union {b0}]
        /\ UNCHANGED <<run, cfg, installed, sent, attestation>>
    BY <1>5, <2>1 DEF Double!StartBranch
  <2>3. /\ trace'[r] = WithBranches(trace[r], trace[r].branches \union {b0})
        /\ trace' = [q \in Twins |-> trace'[q]]
        /\ \A q \in Twins : q # r => trace'[q] = trace[q]
    BY <1>0, <2>2 DEF WithBranches, TwinMaps
  <2>4. trace'[r] = TraceOf(trace[r].started, trace[r].request, trace[r].branches \union {b0}, trace[r].manifest)
    BY <2>0, <2>3, TraceFields DEF TwinRunning
  <2>5. b0.prompt = config.harness.rendered[b0.depth < TwinDepth]
    BY <2>1
  <2> HIDE DEF b0
  <2>6. TwinRunning(r)'
    BY <2>0, <2>2, <2>4, <2>5 DEF TwinRunning, TraceOf, Double!Contract, Double!Render
  <2>7. TwinOf(r)'
    BY <1>0, <2>0, <2>2, <2>6
       DEF TwinOf, TwinHas, TwinConfig, TwinSent, TwinShape, OptionsOf, Made,
       Double!Attest, Double!ModelOf, Double!Fingerprint, Double!Encode
  <2>8. \A q \in Twins : q # r => TwinOf(q)'
    BY <1>0, <2>2, <2>3, TwinRests
  <2> QED
    BY <1>0, <2>2, <2>3, <2>7, <2>8 DEF TwinInv, CfgTwin, TwinMaps, OptionsOf
<1>6. ASSUME NEW r \in Twins, NEW b \in trace[r].branches, Double!Turn(r, b) PROVE TwinInv'
  <2> DEFINE s0 == [depth |-> b.depth, model |-> b.model, instructions |-> b.prompt, options |-> run[r].config.options]
  <2>1. /\ run[r].phase = "running" /\ TwinHas(r)
        /\ sent' = [sent EXCEPT ![r] = @ \union {s0}]
        /\ UNCHANGED <<cfg, installed, run, trace, attestation>>
    BY <1>6 DEF Double!Turn, TwinHas
  <2>2. /\ sent'[r] = sent[r] \union {s0} /\ sent' = [q \in Twins |-> sent'[q]]
        /\ \A q \in Twins : q # r => sent'[q] = sent[q]
    BY <1>0, <2>1 DEF TwinMaps
  <2>3. /\ s0.options = run[r].config.options
        /\ s0.instructions = run[r].config.harness.rendered[s0.depth < TwinDepth]
    BY <1>0, <1>6, <2>1 DEF TwinOf, TwinRunning
  <2> HIDE DEF s0
  <2>4. TwinSent(r)'
    BY <1>0, <2>1, <2>2, <2>3 DEF TwinOf, TwinSent
  <2>5. TwinOf(r)'
    <3>0. TwinOf(r)
      BY <1>0
    <3>1. TwinShape(r)' /\ TwinHas(r)' /\ TwinConfig(run[r].config)'
      BY <2>1, <3>0 DEF TwinOf, TwinHas, TwinShape, TwinConfig, OptionsOf, Made
    <3>2. TwinRunning(r)'
      BY <2>1, <3>0 DEF TwinOf, TwinRunning, TraceOf, Double!Contract, Double!Render
    <3>3. attestation'[r] # Nothing =>
             attestation'[r] = Double!Attest(run[r].config, run[r].request)'
      BY <2>1, <3>0 DEF TwinOf, Double!Attest, Double!ModelOf, Double!Fingerprint, Double!Encode
    <3> QED
      BY <2>4, <3>1, <3>2, <3>3 DEF TwinOf
  <2>6. \A q \in Twins : q # r => TwinOf(q)'
    BY <1>0, <2>1, <2>2, TwinRests
  <2> QED
    BY <1>0, <2>1, <2>2, <2>5, <2>6 DEF TwinInv, CfgTwin, TwinMaps, OptionsOf
<1>7. ASSUME NEW r \in Twins, NEW status \in {"completed", "failed"}, Double!Finish(r, status) PROVE TwinInv'
  <2> DEFINE config == run[r].config
  <2>0. run[r].phase = "running" /\ TwinHas(r) /\ TwinShape(r) /\ TwinConfig(config) /\ TwinSent(r)
    BY <1>0, <1>7 DEF Double!Finish, TwinHas, TwinOf
  <2>1. /\ run' = [run EXCEPT ![r].phase = status]
        /\ trace' = [trace EXCEPT ![r].manifest = Double!Provenance(config)]
        /\ attestation' = IF status = "completed"
                          THEN [attestation EXCEPT ![r] = Double!Attest(config, run[r].request)]
                          ELSE attestation
        /\ UNCHANGED <<cfg, installed, sent>>
    BY <1>7 DEF Double!Finish
  <2>2. /\ run'[r] = [phase |-> status, config |-> config, request |-> run[r].request]
        /\ run' = [q \in Twins |-> run'[q]]
        /\ \A q \in Twins : q # r => run'[q] = run[q]
    BY <1>0, <2>0, <2>1 DEF TwinMaps, TwinShape
  <2>3. /\ attestation' = [q \in Twins |-> attestation'[q]]
        /\ \A q \in Twins : q # r => attestation'[q] = attestation[q]
        /\ attestation'[r] \in {attestation[r], Double!Attest(config, run[r].request)}
    BY <1>0, <2>1 DEF TwinMaps
  <2>4. /\ trace' = [q \in Twins |-> trace'[q]]
        /\ \A q \in Twins : q # r => trace'[q] = trace[q]
    BY <1>0, <2>1 DEF TwinMaps
  <2>5. TwinOf(r)'
    <3>1. run'[r].config = config /\ run'[r].phase = status /\ run'[r].request = run[r].request
      BY <2>2
    <3>2. TwinHas(r)' /\ TwinShape(r)' /\ run'[r].phase # "running"
      BY <2>2 DEF TwinHas, TwinShape
    <3>3. TwinConfig(run[r].config)' /\ TwinSent(r)'
      BY <2>0, <2>1, <3>1 DEF TwinConfig, TwinSent, OptionsOf, Made
    <3>4. attestation'[r] # Nothing => attestation'[r] = Double!Attest(run'[r].config, run'[r].request)
      BY <1>0, <2>3, <3>1 DEF TwinOf
    <3> QED
      BY <3>2, <3>3, <3>4
         DEF TwinOf, Double!Attest, Double!ModelOf, Double!Fingerprint, Double!Encode
  <2>6. \A q \in Twins : q # r => TwinOf(q)'
    BY <1>0, <2>1, <2>2, <2>3, <2>4, TwinRests
  <2> QED
    BY <1>0, <2>1, <2>2, <2>3, <2>4, <2>5, <2>6 DEF TwinInv, CfgTwin, TwinMaps, OptionsOf
<1>8. ASSUME NEW r \in Twins, Double!Answer(r) PROVE TwinInv'
  <2>1. UNCHANGED <<cfg, installed, run, sent, trace, attestation>>
    BY <1>8 DEF Double!Answer
  <2>2. \A q \in Twins : TwinOf(q)'
    BY <1>0, <2>1, TwinRests
  <2> QED
    BY <1>0, <2>1, <2>2 DEF TwinInv, CfgTwin, TwinMaps, OptionsOf
<1>9. ASSUME NEW r \in Twins, Double!Rewrite(r) PROVE TwinInv'
  <2>0. run[r].phase \in {"completed", "failed"} /\ TwinHas(r) /\ TwinShape(r)
    BY <1>0, <1>9 DEF Double!Rewrite, TwinOf, TwinHas
  <2>1. PICK u : trace' = [trace EXCEPT ![r] = u]
    BY <1>9 DEF Double!Rewrite
  <2>2. /\ run' = [run EXCEPT ![r].phase = "rewritten"]
        /\ UNCHANGED <<cfg, installed, sent, attestation>>
    BY <1>9 DEF Double!Rewrite
  <2>3. /\ run'[r] = [phase |-> "rewritten", config |-> run[r].config, request |-> run[r].request]
        /\ run' = [q \in Twins |-> run'[q]]
        /\ \A q \in Twins : q # r => run'[q] = run[q]
    BY <1>0, <2>0, <2>2 DEF TwinMaps, TwinShape
  <2>4. /\ trace' = [q \in Twins |-> trace'[q]]
        /\ \A q \in Twins : q # r => trace'[q] = trace[q]
    BY <1>0, <2>1 DEF TwinMaps
  <2>5. TwinOf(r)'
    <3>1. run'[r].config = run[r].config /\ run'[r].phase = "rewritten" /\ run'[r].request = run[r].request
      BY <2>3
    <3>2. TwinHas(r)' /\ TwinShape(r)' /\ run'[r].phase # "running"
      BY <2>3 DEF TwinHas, TwinShape
    <3>3. TwinConfig(run[r].config)' /\ TwinSent(r)'
      BY <1>0, <2>0, <2>2, <3>1 DEF TwinOf, TwinConfig, TwinSent, OptionsOf, Made
    <3>4. attestation'[r] # Nothing => attestation'[r] = Double!Attest(run'[r].config, run'[r].request)
      BY <1>0, <2>2, <3>1 DEF TwinOf
    <3> QED
      BY <3>2, <3>3, <3>4
         DEF TwinOf, Double!Attest, Double!ModelOf, Double!Fingerprint, Double!Encode
  <2>6. \A q \in Twins : q # r => TwinOf(q)'
    BY <1>0, <2>2, <2>3, <2>4, TwinRests
  <2> QED
    BY <1>0, <2>2, <2>3, <2>4, <2>5, <2>6 DEF TwinInv, CfgTwin, TwinMaps, OptionsOf
<1> QED
  BY <1>1, <1>2, <1>3, <1>4, <1>5, <1>6, <1>7, <1>8, <1>9 DEF Double!Next, provenanceVars

\* The fingerprint of a harness is the harness: what has the same identity was
\* told the same.
LEMMA IdentityFollows == TwinInv => Double!SameIdentitySameRun
<1> SUFFICES ASSUME TwinInv, NEW r \in Twins, NEW q \in Twins, attestation[r] # Nothing, attestation[r] = attestation[q],
                    NEW x \in sent[r], NEW y \in sent[q], x.depth = y.depth
             PROVE  x.instructions = y.instructions /\ x.options = y.options
  BY DEF Double!SameIdentitySameRun
<1>1. TwinOf(r) /\ TwinOf(q)
  BY DEF TwinInv
<1>2. /\ TwinSent(r) /\ TwinSent(q)
      /\ Made(run[r].config.harness) /\ Made(run[q].config.harness)
      /\ Double!Attest(run[r].config, run[r].request) = Double!Attest(run[q].config, run[q].request)
  BY <1>1 DEF TwinOf, TwinConfig
<1>3. /\ Double!Encode(run[r].config.harness) = Double!Encode(run[q].config.harness)
      /\ run[r].config.options = run[q].config.options
  BY <1>2 DEF Double!Attest, Double!Fingerprint
<1>4. run[r].config.harness = run[q].config.harness
  BY <1>2, <1>3, FromEncodedTwin
<1> QED
  BY <1>2, <1>3, <1>4 DEF TwinSent

\* specs.py:202-212, attestation.py:33-77, config.py:149-195.  Of any number of runs
\* that overlap, and whoever made their harnesses: two with the same attested
\* identity gave their controllers the same instructions and the same options.
THEOREM IdentityIsTheRun == ScenarioSpec => []SameIdentitySameRun
<1> DEFINE Two == scenario = "two runs" => TwinInv
<1>1. ScenarioInit => Two
  BY TwinBegins DEF ScenarioInit
<1>2. Two /\ [ScenarioNext]_allVars => Two'
  BY OneRests, TwinContinues
<1>3. Two => SameIdentitySameRun
  BY IdentityFollows DEF SameIdentitySameRun
<1> QED
  BY <1>1, <1>2, <1>3, PTL DEF ScenarioSpec

(***************************************************************************)
(* Payloads: the one cell of a reply, and every line against the reader.   *)
(***************************************************************************)
\* A set of numbers that is not empty has a least one.
LEMMA LeastOf ==
    ASSUME NEW T \in SUBSET Nat, T # {} PROVE \E m \in T : \A n \in T : m <= n
<1>1. PICK m \in T : \A n \in T : ~(<<n, m>> \in OpToRel(<, Nat))
  BY NatLessThanWellFounded, WFMin
<1>2. \A n \in T : n < m => <<n, m>> \in OpToRel(<, Nat)
  BY DEF OpToRel
<1>3. \A n \in T : ~(n < m)
  BY <1>1, <1>2
<1>4. \A n \in T : n \in Nat /\ m \in Nat
  OBVIOUS
<1>5. \A n \in T : m <= n
  BY <1>3, <1>4
<1> QED
  BY <1>5

\* And if it has a bound, a greatest one.
LEMMA GreatestOf ==
    ASSUME NEW T \in SUBSET Nat, T # {}, NEW b \in Nat, \A n \in T : n <= b
    PROVE  \E m \in T : \A n \in T : n <= m
<1> DEFINE U == {b - n : n \in T}
<1>1. U \in SUBSET Nat /\ U # {}
  <2>1. \A n \in T : n \in Nat /\ n <= b
    OBVIOUS
  <2>2. \A n \in Nat : n <= b => b - n \in Nat
    OBVIOUS
  <2>3. \A n \in T : b - n \in Nat
    BY <2>1, <2>2
  <2> QED
    BY <2>3
<1>2. PICK u \in U : \A n \in U : u <= n
  BY <1>1, LeastOf
<1>3. PICK m \in T : u = b - m
  BY <1>2
<1>4. \A n \in T : b - m <= b - n
  BY <1>2, <1>3
<1>5. \A n \in T : n <= m
  BY <1>4
<1> QED
  BY <1>5

\* The lines with something in them.
Solid(text) == {i \in DOMAIN text : text[i] # "blank"}

\* strip keeps what is between the first and the last line that is not blank.
LEMMA StripKeeps ==
    ASSUME NEW text \in Seq(Payloads!Lines), Solid(text) # {}
    PROVE  \E f, l \in Solid(text) :
              /\ \A i \in Solid(text) : f <= i /\ i <= l
              /\ Payloads!Stripped(text) = SubSeq(text, f, l)
<1>1. Solid(text) \in SUBSET Nat /\ Len(text) \in Nat /\ \A i \in Solid(text) : i <= Len(text)
  BY DEF Solid
<1> DEFINE f == CHOOSE i \in Solid(text) : \A j \in Solid(text) : i <= j
           l == CHOOSE i \in Solid(text) : \A j \in Solid(text) : j <= i
<1>2. f \in Solid(text) /\ \A j \in Solid(text) : f <= j
  BY <1>1, LeastOf
<1>3. l \in Solid(text) /\ \A j \in Solid(text) : j <= l
  BY <1>1, GreatestOf
<1>4. Payloads!Stripped(text) = SubSeq(text, f, l)
  BY DEF Payloads!Stripped, Solid
<1> QED
  BY <1>2, <1>3, <1>4

\* strip leaves nothing of blank lines.
LEMMA StripDrops ==
    ASSUME NEW text, Solid(text) = {} PROVE Payloads!Stripped(text) = <<>>
BY DEF Payloads!Stripped, Solid

\* What strip leaves are lines of the text.
LEMMA StripIsText ==
    ASSUME NEW text \in Seq(Payloads!Lines) PROVE Payloads!Stripped(text) \in Seq(Payloads!Lines)
<1>1. CASE Solid(text) = {}
  BY <1>1, StripDrops, EmptySeq
<1>2. CASE Solid(text) # {}
  <2>1. PICK f, l \in Solid(text) : (\A i \in Solid(text) : f <= i /\ i <= l) /\ Payloads!Stripped(text) = SubSeq(text, f, l)
    BY <1>2, StripKeeps
  <2>2. f \in 1..Len(text) /\ l \in 1..Len(text) /\ f <= l
    BY <2>1 DEF Solid
  <2> QED
    BY <2>1, <2>2
<1> QED
  BY <1>1, <1>2

\* A part of a part of a text is a part of it.
LEMMA InnerPart ==
    ASSUME NEW S, NEW text \in Seq(S), NEW f \in 1..Len(text), NEW l \in 1..Len(text), f <= l
    PROVE  /\ SubSeq(text, f, l) \in Seq(S) /\ Len(SubSeq(text, f, l)) = l - f + 1
           /\ \A i \in 1..(l - f + 1) : SubSeq(text, f, l)[i] = text[f + i - 1]
           /\ SubSeq(SubSeq(text, f, l), 2, l - f) = SubSeq(text, f + 1, l - 1)
<1>1. /\ SubSeq(text, f, l) \in Seq(S) /\ Len(SubSeq(text, f, l)) = l - f + 1
      /\ \A i \in 1..(l - f + 1) : SubSeq(text, f, l)[i] = text[f + i - 1]
  BY SubSeqProperties
<1> DEFINE lines == SubSeq(text, f, l)
           inner == SubSeq(lines, 2, l - f)
           part == SubSeq(text, f + 1, l - 1)
<1>2. CASE l - f < 2
  <2>1. inner = <<>> /\ part = <<>>
    BY <1>1, <1>2
  <2> QED
    BY <1>1, <2>1
<1>3. CASE l - f >= 2
  <2>1. /\ 2 \in 1..(l - f + 1) /\ l - f \in 1..(l - f + 1) /\ l - f \in 1..Len(lines)
        /\ f + 1 \in 1..Len(text) /\ l - 1 \in 1..Len(text) /\ f + 1 <= l - 1
    BY <1>1, <1>3
  <2> HIDE DEF lines
  <2>2. /\ inner \in Seq(S) /\ Len(inner) = l - f - 1
        /\ \A i \in 1..(l - f - 1) : inner[i] = lines[2 + i - 1]
    BY <1>1, <1>3, <2>1, SubSeqProperties DEF lines
  <2>3. /\ part \in Seq(S) /\ Len(part) = l - f - 1
        /\ \A i \in 1..(l - f - 1) : part[i] = text[f + 1 + i - 1]
    BY SMTT(20), <1>3, <2>1, SubSeqProperties
  <2>4. ASSUME NEW i \in 1..(l - f - 1) PROVE inner[i] = part[i]
    <3>1. 2 + i - 1 = i + 1 /\ i + 1 \in 1..(l - f + 1) /\ f + (i + 1) - 1 = f + 1 + i - 1
      BY <1>3
    <3> QED
      BY <1>1, <2>2, <2>3, <3>1 DEF lines
  <2> HIDE DEF inner, part
  <2>5. inner = part
    BY <2>2, <2>3, <2>4, SeqEqual
  <2> QED
    BY <1>1, <2>5 DEF inner, part, lines
<1> QED
  BY <1>2, <1>3

\* What the reference has of a text: the fences there are, and what is between.
LEMMA CellsAre ==
    ASSUME NEW text, NEW f, NEW l, Payloads!Delimit(text, f, l), f \in Nat, l \in Nat
    PROVE  Payloads!CellsOf(text) = {Payloads!Stripped(SubSeq(text, f + 1, l - 1))} \ {<<>>}
<1>1. Payloads!Fences(text) = {f, l} /\ f < l
  BY DEF Payloads!Delimit
<1>2. {q \in Payloads!Fences(text) \X Payloads!Fences(text) : Payloads!Delimit(text, q[1], q[2])} = {<<f, l>>}
  <2>1. <<f, l>> \in Payloads!Fences(text) \X Payloads!Fences(text) /\ <<f, l>>[1] = f /\ <<f, l>>[2] = l
    BY <1>1
  <2>2. ASSUME NEW q \in Payloads!Fences(text) \X Payloads!Fences(text), Payloads!Delimit(text, q[1], q[2])
        PROVE  q = <<f, l>>
    <3>1. q[1] \in {f, l} /\ q[2] \in {f, l} /\ q = <<q[1], q[2]>> /\ q[1] < q[2]
      BY <1>1, <2>2 DEF Payloads!Delimit
    <3> QED
      BY <1>1, <3>1
  <2> QED
    BY <2>1, <2>2
<1>3. <<f, l>>[1] + 1 = f + 1 /\ <<f, l>>[2] - 1 = l - 1
  OBVIOUS
<1>4. Payloads!CellsOf(text) = {Payloads!Stripped(SubSeq(text, p[1] + 1, p[2] - 1)) : p \in {<<f, l>>}} \ {<<>>}
  BY <1>2 DEF Payloads!CellsOf
<1> QED
  BY <1>3, <1>4

\* _python_cell takes a text exactly when it holds one cell, and takes that cell.
LEMMA CellIsTheOne ==
    ASSUME NEW text \in Seq(Payloads!Lines)
    PROVE  /\ Payloads!PythonCell(text) # <<>>
           /\ Payloads!CellsOf(text) =
                 IF Payloads!PythonCell(text) = Payloads!Rejected THEN {} ELSE {Payloads!PythonCell(text)}
<1>0. /\ Payloads!Fences(text) \subseteq Solid(text) /\ Payloads!Rejected # <<>>
      /\ \A i \in DOMAIN text : i \in 1..Len(text) /\ text[i] \in {"open", "close", "fence", "code", "blank"}
      /\ \A i \in Solid(text) : i \in 1..Len(text) /\ text[i] # "blank"
  BY DEF Payloads!Fences, Solid, Payloads!Rejected, Payloads!Lines
<1>1. CASE Solid(text) = {}
  <2>1. Payloads!PythonCell(text) = Payloads!Rejected
    BY <1>1, StripDrops DEF Payloads!PythonCell
  <2>2. Payloads!CellsOf(text) = {}
    BY <1>0, <1>1 DEF Payloads!CellsOf
  <2> QED
    BY <1>0, <2>1, <2>2
<1>2. CASE Solid(text) # {}
  <2>1. PICK f, l \in Solid(text) : /\ \A i \in Solid(text) : f <= i /\ i <= l
                                  /\ Payloads!Stripped(text) = SubSeq(text, f, l)
    BY <1>2, StripKeeps
  <2>2. f \in 1..Len(text) /\ l \in 1..Len(text) /\ f <= l
    BY <1>0, <2>1
  <2> DEFINE lines == SubSeq(text, f, l)
             inner == SubSeq(text, f + 1, l - 1)
             code == Payloads!Stripped(inner)
  <2>3. /\ Len(lines) = l - f + 1
        /\ lines[1] = text[f] /\ lines[Len(lines)] = text[l]
        /\ SubSeq(lines, 2, Len(lines) - 1) = inner
    <3>1. /\ Len(lines) = l - f + 1 /\ SubSeq(lines, 2, l - f) = inner
          /\ \A i \in 1..(l - f + 1) : lines[i] = text[f + i - 1]
      BY <2>2, InnerPart
    <3>2. /\ 1 \in 1..(l - f + 1) /\ l - f + 1 \in 1..(l - f + 1) /\ f + 1 - 1 = f
          /\ f + (l - f + 1) - 1 = l /\ l - f + 1 - 1 = l - f
      BY <2>2
    <3> HIDE DEF lines, inner
    <3>3. lines[1] = text[f] /\ lines[l - f + 1] = text[l]
      BY <3>1, <3>2
    <3>4. Len(lines) - 1 = l - f
      BY <2>2, <3>1
    <3> QED
      BY <3>1, <3>3, <3>4
  <2>4. inner \in Seq(Payloads!Lines) /\ Len(inner) = (IF f + 1 <= l - 1 THEN l - f - 1 ELSE 0)
        /\ \A i \in 1..(l - f - 1) : inner[i] = text[f + i]
    <3>1. \A i \in (f + 1)..(l - 1) : text[i] \in Payloads!Lines
      BY <2>2
    <3>2. /\ inner \in Seq(Payloads!Lines)
          /\ Len(inner) = IF f + 1 <= l - 1 THEN (l - 1) - (f + 1) + 1 ELSE 0
          /\ \A i \in 1..((l - 1) - (f + 1) + 1) : inner[i] = text[f + 1 + i - 1]
      BY <2>2, <3>1, SubSeqProperties
    <3>3. (l - 1) - (f + 1) + 1 = l - f - 1 /\ \A i \in 1..(l - f - 1) : f + 1 + i - 1 = f + i
      BY <2>2
    <3> HIDE DEF inner
    <3> QED
      BY <3>2, <3>3
  <2> DEFINE Whole == /\ l - f + 1 >= 3 /\ text[f] = "open" /\ text[l] = "close"
                      /\ \A i \in DOMAIN inner : inner[i] \notin {"open", "close", "fence"}
                      /\ code # <<>>
  <2>5. Payloads!PythonCell(text) = IF Whole THEN code ELSE Payloads!Rejected
    <3> HIDE DEF lines, inner
    <3>1. Payloads!Stripped(text) = lines
      BY <2>1 DEF lines
    <3> QED
      BY <2>3, <3>1 DEF Payloads!PythonCell
  <2>6. code # Payloads!Rejected
    <3> HIDE DEF inner
    <3>1. code \in Seq(Payloads!Lines)
      BY <2>4, StripIsText
    <3>2. <<"rejected">> \notin Seq(Payloads!Lines)
      <4> SUFFICES ASSUME <<"rejected">> \in Seq(Payloads!Lines) PROVE FALSE
        OBVIOUS
      <4>1. <<"rejected">>[1] \in Payloads!Lines
        OBVIOUS
      <4> QED
        BY <4>1 DEF Payloads!Lines
    <3> QED
      BY <3>1, <3>2 DEF Payloads!Rejected
  \* What is between the ends has no fence when these are the only ones.
  <2>7. Whole => Payloads!Delimit(text, f, l)
    <3> SUFFICES ASSUME Whole PROVE Payloads!Delimit(text, f, l)
      OBVIOUS
    <3>1. DOMAIN inner = 1..(l - f - 1)
      BY <2>2, <2>4
    <3>2. \A i \in DOMAIN text : f < i /\ i < l => text[i] \notin {"open", "close", "fence"}
      <4> SUFFICES ASSUME NEW i \in 1..Len(text), f < i, i < l PROVE text[i] \notin {"open", "close", "fence"}
        BY <1>0
      <4>1. i - f \in 1..(l - f - 1) /\ f + (i - f) = i
        BY SMTT(20), <2>2
      <4> QED
        BY <2>4, <3>1, <4>1
    <3>3. \A i \in DOMAIN text : i < f \/ i > l => text[i] = "blank"
      BY SMTT(30), <1>0, <2>1, <2>2 DEF Solid
    <3>4. \A i \in Payloads!Fences(text) : i \in {f, l}
      <4> SUFFICES ASSUME NEW i \in Payloads!Fences(text), i # f, i # l PROVE FALSE
        OBVIOUS
      <4>1. i \in DOMAIN text /\ text[i] \in {"open", "close", "fence"} /\ f <= i /\ i <= l /\ i \in 1..Len(text)
        BY <1>0, <2>1 DEF Payloads!Fences
      <4>2. f < i /\ i < l
        BY SMTT(20), <2>2, <4>1
      <4> QED
        BY <3>2, <4>1, <4>2
    <3>5. f \in Payloads!Fences(text) /\ l \in Payloads!Fences(text)
      BY <2>2 DEF Payloads!Fences
    <3>6. f < l
      BY <2>2
    <3> QED
      BY <3>3, <3>4, <3>5, <3>6 DEF Payloads!Delimit
  <2>8. ASSUME NEW a \in Payloads!Fences(text), NEW b \in Payloads!Fences(text), Payloads!Delimit(text, a, b),
               Payloads!Stripped(SubSeq(text, a + 1, b - 1)) # <<>>
        PROVE  Whole
    <3>1. a \in Solid(text) /\ b \in Solid(text) /\ a \in 1..Len(text) /\ b \in 1..Len(text) /\ a < b
      BY <1>0, <2>8 DEF Payloads!Delimit
    <3>2. \A i \in Solid(text) : a <= i /\ i <= b
      BY <1>0, <2>8, <3>1 DEF Payloads!Delimit, Solid
    <3>3. a = f /\ b = l
      BY <2>1, <2>2, <3>1, <3>2
    <3>4. text[f] = "open" /\ text[l] = "close" /\ code # <<>> /\ Payloads!Fences(text) = {f, l}
      BY <2>8, <3>3 DEF Payloads!Delimit
    <3>5. inner # <<>>
      <4> SUFFICES ASSUME inner = <<>> PROVE FALSE
        OBVIOUS
      <4>1. Solid(inner) = {}
        BY DEF Solid
      <4> QED
        BY <3>4, <4>1, StripDrops
    <3>6. l - f + 1 >= 3
      <4> SUFFICES ASSUME ~(l - f + 1 >= 3) PROVE FALSE
        OBVIOUS
      <4>1. Len(inner) = 0
        BY <2>2, <2>4
      <4> HIDE DEF inner
      <4> QED
        BY <2>4, <3>5, <4>1, EmptySeq
    <3>7. ASSUME NEW i \in DOMAIN inner PROVE inner[i] \notin {"open", "close", "fence"}
      <4> HIDE DEF inner
      <4>1. i \in 1..(l - f - 1)
        BY <2>2, <2>4, <3>6
      <4>2. inner[i] = text[f + i] /\ f + i \in 1..Len(text) /\ f + i # f /\ f + i # l /\ f + i \in DOMAIN text
        BY <2>2, <2>4, <4>1
      <4> QED
        BY <3>4, <4>2 DEF Payloads!Fences
    <3> QED
      BY <3>4, <3>6, <3>7
  <2> HIDE DEF lines, inner, code
  <2>9. CASE Whole
    <3>1. Payloads!CellsOf(text) = {code} \ {<<>>}
      BY <2>2, <2>7, <2>9, CellsAre DEF code, inner
    <3> QED
      BY <2>5, <2>6, <2>9, <3>1
  <2>10. CASE ~Whole
    <3>1. ASSUME NEW c \in Payloads!CellsOf(text) PROVE FALSE
      <4>1. c # <<>> /\ \E p \in Payloads!Fences(text) \X Payloads!Fences(text) :
               Payloads!Delimit(text, p[1], p[2]) /\ c = Payloads!Stripped(SubSeq(text, p[1] + 1, p[2] - 1))
        BY <3>1 DEF Payloads!CellsOf
      <4> HIDE DEF Whole
      <4> QED
        BY <2>8, <2>10, <4>1
    <3> QED
      BY <1>0, <2>5, <2>10, <3>1
  <2> QED
    BY <2>9, <2>10
<1> QED
  BY <1>1, <1>2

\* What a provider may send are items with parts, of which a text is lines.
Item(x) == /\ \E n \in Nat : DOMAIN x.parts = 1..n /\ Len(x.parts) = n
           /\ \A k \in DOMAIN x.parts : x.parts[k] \in Seq(Payloads!Lines)

\* Each of them is.
LEMMA ItemsAre ==
    /\ Item(Payloads!Reasoning) /\ Item(Payloads!Call) /\ Item(Payloads!Message(<<>>))
    /\ \A t \in Seq(Payloads!Lines) : Item(Payloads!Message(<<t>>)) /\ Item([Payloads!Message(<<t>>) EXCEPT !.role = "user"])
    /\ \A t, u \in Seq(Payloads!Lines) : Item(Payloads!Message(<<t, u>>))
<1>1. Item(Payloads!Reasoning) /\ Item(Payloads!Call) /\ Item(Payloads!Message(<<>>))
  <2>1. \E n \in Nat : DOMAIN <<>> = 1..n /\ Len(<<>>) = n
    <3> WITNESS 0 \in Nat
    <3> QED
      OBVIOUS
  <2> QED
    BY <2>1 DEF Item, Payloads!Reasoning, Payloads!Call, Payloads!Message
<1>2. ASSUME NEW t \in Seq(Payloads!Lines) PROVE Item(Payloads!Message(<<t>>)) /\ Item([Payloads!Message(<<t>>) EXCEPT !.role = "user"])
  <2>1. \E n \in Nat : DOMAIN <<t>> = 1..n /\ Len(<<t>>) = n
    <3> WITNESS 1 \in Nat
    <3> QED
      OBVIOUS
  <2>2. \A k \in DOMAIN <<t>> : <<t>>[k] \in Seq(Payloads!Lines)
    OBVIOUS
  <2> QED
    BY <2>1, <2>2 DEF Item, Payloads!Message
<1>3. ASSUME NEW t \in Seq(Payloads!Lines), NEW u \in Seq(Payloads!Lines) PROVE Item(Payloads!Message(<<t, u>>))
  <2>1. \E n \in Nat : DOMAIN <<t, u>> = 1..n /\ Len(<<t, u>>) = n
    <3> WITNESS 2 \in Nat
    <3> QED
      OBVIOUS
  <2>2. \A k \in DOMAIN <<t, u>> : <<t, u>>[k] \in Seq(Payloads!Lines)
    OBVIOUS
  <2> QED
    BY <2>1, <2>2 DEF Item, Payloads!Message
<1> QED
  BY <1>1, <1>2, <1>3

\* And so is every item of a reply.
LEMMA OutputsAre ==
    ASSUME MaxLines \in Nat, NEW output \in Payloads!Outputs
    PROVE  /\ \E n \in Nat : DOMAIN output = 1..n
           /\ \A i \in DOMAIN output : Item(output[i])
<1> DEFINE text == <<"open", "code", "close">>
           cell == Payloads!Message(<<text>>)
<1>0. text \in Seq(Payloads!Lines) /\ <<"code">> \in Seq(Payloads!Lines)
  BY DEF Payloads!Lines
<1> HIDE DEF text
<1> DEFINE user == [cell EXCEPT !.role = "user"]
           both == Payloads!Message(<<text, <<"code">> >>)
<1>1. /\ Item(cell) /\ Item(user) /\ Item(both)
      /\ Item(Payloads!Call) /\ Item(Payloads!Message(<<>>)) /\ Item(Payloads!Reasoning)
  BY <1>0, ItemsAre
<1>2. ASSUME NEW x, Item(x), output = <<x>>
      PROVE  (\E n \in Nat : DOMAIN output = 1..n) /\ \A i \in DOMAIN output : Item(output[i])
  <2>1. DOMAIN output = 1..1 /\ output[1] = x
    BY <1>2
  <2> QED
    BY <1>2, <2>1
<1>3. ASSUME NEW x, NEW y, Item(x), Item(y), output = <<x, y>>
      PROVE  (\E n \in Nat : DOMAIN output = 1..n) /\ \A i \in DOMAIN output : Item(output[i])
  <2>1. DOMAIN output = 1..2 /\ output[1] = x /\ output[2] = y
    BY <1>3
  <2> QED
    BY <1>3, <2>1
<1>4. CASE output \in {<<Payloads!Reasoning, Payloads!Message(<<t>>)>> : t \in BoundedSeq(Payloads!Lines, MaxLines)}
  <2>1. PICK t \in BoundedSeq(Payloads!Lines, MaxLines) : output = <<Payloads!Reasoning, Payloads!Message(<<t>>)>>
    BY <1>4
  <2>2. t \in Seq(Payloads!Lines)
    BY <2>1 DEF BoundedSeq, SeqOf
  <2>3. Item(Payloads!Message(<<t>>))
    BY <2>2, ItemsAre
  <2> QED
    BY <1>1, <1>3, <2>1, <2>3
<1>5. CASE output = <<>>
  <2>1. DOMAIN output = 1..0
    BY <1>5
  <2> QED
    BY <2>1
<1>6. output \in {<<Payloads!Reasoning, Payloads!Message(<<t>>)>> : t \in BoundedSeq(Payloads!Lines, MaxLines)}
      \/ output = <<>> \/ output = <<Payloads!Call>> \/ output = <<cell, cell>> \/ output = <<cell, Payloads!Call>>
      \/ output = <<Payloads!Message(<<>>)>> \/ output = <<both>> \/ output = <<user>>
  BY DEF Payloads!Outputs, text, Payloads!BoundedSeq, Payloads!SeqOf, BoundedSeq, SeqOf
<1> HIDE DEF cell, user, both
<1> QED
  BY <1>1, <1>2, <1>3, <1>4, <1>5, <1>6

\* The instance counts as this module does.
LEMMA SameCount == \A S : Payloads!Cardinality(S) = Cardinality(S)
BY DEF Payloads!Cardinality, Cardinality

\* controller_output_text and _python_cell take a reply exactly when it has one
\* message and that one cell, and take that cell.
LEMMA ParsedIsTheOne ==
    ASSUME MaxLines \in Nat, NEW output \in Payloads!Outputs
    PROVE  /\ Payloads!ParsedReply(output) # <<>>
           /\ (IF Payloads!OneMessage(output) THEN Payloads!CellsOf(Payloads!TextOf(output)) ELSE {}) =
                 IF Payloads!ParsedReply(output) = Payloads!Rejected THEN {} ELSE {Payloads!ParsedReply(output)}
<1> DEFINE messages == Payloads!Messages(output)
<1>1. PICK n \in Nat : DOMAIN output = 1..n
  BY OutputsAre
<1>2. Payloads!Rejected # <<>>
  BY DEF Payloads!Rejected
<1>3. CASE Cardinality(messages) # 1
  BY <1>2, <1>3, SameCount DEF Payloads!ParsedReply, Payloads!OneMessage
<1>4. CASE Cardinality(messages) = 1
  <2>1. PICK m : messages = {m}
    <3>1. IsFiniteSet(messages)
      BY <1>1, FS_Interval, FS_Subset DEF Payloads!Messages
    <3> QED
      BY <1>4, <3>1, FS_Singleton
  <2>2. /\ m \in DOMAIN output /\ output[m].type = "message"
        /\ \A i \in DOMAIN output : output[i].type = "message" => i = m
    BY <2>1 DEF Payloads!Messages
  <2>3. (CHOOSE i \in messages : TRUE) = m
    BY <2>1
  <2>4. Payloads!TextOf(output) = output[m].parts[1]
    BY <2>3 DEF Payloads!TextOf
  <2> DEFINE Fit == /\ \A i \in DOMAIN output : output[i].type \in {"reasoning", "message"}
                    /\ output[m].role = "assistant" /\ Len(output[m].parts) = 1
  <2>5. Payloads!ParsedReply(output) = IF Fit THEN Payloads!PythonCell(output[m].parts[1]) ELSE Payloads!Rejected
    <3> DEFINE m0 == CHOOSE i \in Payloads!Messages(output) : TRUE
    <3>1. Payloads!ParsedReply(output) =
             IF /\ \A i \in DOMAIN output : output[i].type \in {"reasoning", "message"}
                /\ Payloads!Cardinality(Payloads!Messages(output)) = 1
                /\ output[m0].role = "assistant" /\ Len(output[m0].parts) = 1
             THEN Payloads!PythonCell(output[m0].parts[1]) ELSE Payloads!Rejected
      BY DEF Payloads!ParsedReply
    <3>2. m0 = m
      BY <2>3
    <3>3. Payloads!Cardinality(Payloads!Messages(output)) = 1
      BY <1>4, SameCount
    <3> HIDE DEF m0
    <3> QED
      BY <3>1, <3>2, <3>3
  <2>6. Payloads!OneMessage(output) <=> Fit
    BY <1>4, <2>2, SameCount DEF Payloads!OneMessage
  <2>7. CASE Fit
    <3>1. Item(output[m])
      BY <2>2, OutputsAre
    <3>2. output[m].parts[1] \in Seq(Payloads!Lines)
      BY <2>7, <3>1 DEF Item
    <3>3. Payloads!ParsedReply(output) = Payloads!PythonCell(output[m].parts[1]) /\ Payloads!OneMessage(output)
      BY <2>5, <2>6, <2>7
    <3> HIDE DEF Fit
    <3> QED
      BY <2>4, <3>2, <3>3, CellIsTheOne
  <2>8. CASE ~Fit
    <3> HIDE DEF Fit
    <3> QED
      BY <1>2, <2>5, <2>6, <2>8
  <2> QED
    BY <2>7, <2>8
<1> QED
  BY <1>3, <1>4

\* Who asks a model; a line of the trace.
Kinds == {"controller", "public", "subcall"}
At(t, d, p) == [type |-> t, depth |-> d, payload |-> p]

\* The fields of every type of event are the ones the reader asks for.
LEMMA SchemaIs ==
    /\ Payloads!Schema["run.started"] = {"request", "effective_config", "harness",
             "harness_fingerprint", "trace_schema_version", "environment_abi", "environment_abi_digest"}
    /\ Payloads!Schema["run.completed"] = {"stop_reason", "response"}
    /\ Payloads!Schema["branch.completed"] = {"stop_reason", "response"}
    /\ Payloads!Schema["run.failed"] = {"error"}
    /\ Payloads!Schema["branch.started"] = {"request", "controller_model", "prompt", "harness", "harness_fingerprint"}
    /\ Payloads!Schema["model.request"] = {"context", "request"}
    /\ Payloads!Schema["model.response"] = {"context", "duration_seconds", "response"}
    /\ Payloads!Schema["model.failed"] = {"context", "duration_seconds", "error"}
    /\ Payloads!Schema["controller.action"] = {"code"}
    /\ Payloads!Schema["controller.execution"] = {"execution"}
    /\ Payloads!Schema["controller.observation"] = {"observation"}
    /\ Payloads!Schema["controller.recovery_decision"] = {"turn", "decision"}
    /\ Payloads!Schema["controller.repair"] = {"turn", "fault", "observation"}
BY DEF Payloads!Schema

\* _validate_payload takes what run writes first, for each later event below.
LEMMA StartReads ==
    Payloads!Reads(At("run.started", 0,
        [request |-> "object", effective_config |-> "object", harness |-> "object", harness_fingerprint |-> "digest",
         trace_schema_version |-> "text", environment_abi |-> "object", environment_abi_digest |-> "digest"]))
BY SchemaIs DEF Payloads!Reads, At, Payloads!Texts

\* And when a branch starts.
LEMMA BranchReads ==
    ASSUME NEW d \in Nat, NEW m \in Payloads!Texts
    PROVE  Payloads!Reads(At("branch.started", d,
              [request |-> "object", controller_model |-> m, prompt |-> "text", harness |-> "object",
               harness_fingerprint |-> "digest"]))
BY SchemaIs DEF Payloads!Reads, At, Payloads!Texts

\* Of a call: asked, answered, failed.
LEMMA CallReads ==
    ASSUME NEW d \in Nat, NEW k \in Kinds, NEW r, r # "none"
    PROVE  /\ Payloads!Reads(At("model.request", d, [context |-> [role |-> k, depth |-> d], request |-> "object"]))
           /\ Payloads!Reads(At("model.response", d,
                 [context |-> [role |-> k, depth |-> d], duration_seconds |-> 0, response |-> r]))
           /\ Payloads!Reads(At("model.failed", d,
                 [context |-> [role |-> k, depth |-> d], duration_seconds |-> 0, error |-> "record"]))
<1>1. Payloads!Reads(At("model.request", d, [context |-> [role |-> k, depth |-> d], request |-> "object"]))
  BY SchemaIs DEF Payloads!Reads, At, Payloads!ContextAgrees, Kinds
<1>2. Payloads!Reads(At("model.response", d,
         [context |-> [role |-> k, depth |-> d], duration_seconds |-> 0, response |-> r]))
  BY SchemaIs DEF Payloads!Reads, At, Payloads!ContextAgrees, Kinds
<1>3. Payloads!Reads(At("model.failed", d,
         [context |-> [role |-> k, depth |-> d], duration_seconds |-> 0, error |-> "record"]))
  BY SchemaIs DEF Payloads!Reads, At, Payloads!ContextAgrees, Kinds
<1> QED
  BY <1>1, <1>2, <1>3

\* Of a turn: the cell, its execution, what the controller is told of it.
LEMMA TurnReads ==
    ASSUME NEW d \in Nat, NEW n \in Nat, NEW code, code # <<>>
    PROVE  /\ Payloads!Reads(At("controller.action", d, [code |-> code]))
           /\ Payloads!Reads(At("controller.execution", d, [execution |-> "object"]))
           /\ Payloads!Reads(At("controller.observation", d, [observation |-> "object"]))
           /\ Payloads!Reads(At("controller.recovery_decision", d, [turn |-> n, decision |-> "object"]))
           /\ Payloads!Reads(At("controller.repair", d, [turn |-> n, fault |-> "object", observation |-> "object"]))
<1>1. Payloads!Reads(At("controller.action", d, [code |-> code]))
  BY SchemaIs DEF Payloads!Reads, At
<1>2. Payloads!Reads(At("controller.execution", d, [execution |-> "object"]))
  BY SchemaIs DEF Payloads!Reads, At
<1>3. Payloads!Reads(At("controller.observation", d, [observation |-> "object"]))
  BY SchemaIs DEF Payloads!Reads, At
<1>4. Payloads!Reads(At("controller.recovery_decision", d, [turn |-> n, decision |-> "object"]))
  BY SchemaIs DEF Payloads!Reads, At
<1>5. Payloads!Reads(At("controller.repair", d, [turn |-> n, fault |-> "object", observation |-> "object"]))
  BY SchemaIs DEF Payloads!Reads, At
<1> QED
  BY <1>1, <1>2, <1>3, <1>4, <1>5

\* At the end of a branch and of a run.
LEMMA EndReads ==
    ASSUME NEW d \in Nat
    PROVE  /\ Payloads!Reads(At("branch.completed", d, [stop_reason |-> "text", response |-> "terminal"]))
           /\ Payloads!Reads(At("run.completed", d, [stop_reason |-> "text", response |-> "terminal"]))
           /\ Payloads!Reads(At("run.failed", d, [error |-> "record"]))
<1>1. Payloads!Reads(At("branch.completed", d, [stop_reason |-> "text", response |-> "terminal"]))
  BY SchemaIs DEF Payloads!Reads, At, Payloads!Texts
<1>2. Payloads!Reads(At("run.completed", d, [stop_reason |-> "text", response |-> "terminal"]))
  BY SchemaIs DEF Payloads!Reads, At, Payloads!Texts
<1>3. Payloads!Reads(At("run.failed", d, [error |-> "record"]))
  BY SchemaIs DEF Payloads!Reads, At
<1> QED
  BY <1>1, <1>2, <1>3

\* What is known of an open branch.
Branches == [model : {"text"}, rich : BOOLEAN, turn : Nat]

\* The reply of a controller is looked at before it is dropped.
Looked == {"reply", "acting", "fault", "repair", "failing"}
Closed == {"idle", "refused"}

\* What came of the reply that is still there.
ReplyRead ==
    reply # <<>> =>
        /\ reply \in Payloads!Outputs /\ step \in Looked
        /\ step = "acting" => /\ Payloads!ParsedReply(reply) # Payloads!Rejected
                              /\ line.payload.code = Payloads!ParsedReply(reply)
        /\ step = "fault" => Payloads!ParsedReply(reply) = Payloads!Rejected

\* The inductive invariant of the payloads.
PayInv ==
    /\ controllerModel \in {"null", "text"}
    /\ branches \in Seq(Branches)
    /\ step \notin Closed => branches # <<>>
    /\ step \in {"asked", "callFails"} => call \in Kinds \union {"direct"}
    /\ ReplyRead
    /\ Readable

\* An open branch has a depth, a model and a turn.
LEMMA TopIs ==
    ASSUME branches \in Seq(Branches), branches # <<>>
    PROVE  /\ Payloads!Top \in Branches /\ Payloads!Depth \in Nat
           /\ Len(branches) \in Nat /\ Len(branches) > 0
<1>1. Len(branches) \in Nat /\ Len(branches) # 0
  BY EmptySeq
<1>2. Len(branches) \in 1..Len(branches) /\ Len(branches) - 1 \in Nat
  BY <1>1
<1> QED
  BY <1>1, <1>2 DEF Payloads!Top, Payloads!Depth

\* The line that is written reads.
LEMMA Recorded ==
    ASSUME NEW t, NEW d, NEW p, Payloads!Record(t, d, p), Payloads!Reads(At(t, d, p))
    PROVE  Readable'
<1>1. line' = At(t, d, p)
  BY DEF Payloads!Record, At
<1>2. Payloads!Reads(line)'
  BY <1>1
<1> QED
  BY <1>2 DEF Readable, Payloads!Readable

\* Before the run nothing is written.
LEMMA PayBegins == Payloads!Init => PayInv
<1> SUFFICES ASSUME Payloads!Init PROVE PayInv
  OBVIOUS
<1>1. /\ controllerModel \in {"null", "text"} /\ step = "idle" /\ branches = <<>>
      /\ reply = <<>> /\ line = Payloads!None
  BY DEF Payloads!Init
<1>2. branches \in Seq(Branches)
  BY <1>1
<1> QED
  BY <1>1, <1>2 DEF PayInv, Closed, ReplyRead, Readable, Payloads!Readable

\* The turn of the innermost branch is counted on.
LEMMA NextTurnIs ==
    ASSUME branches \in Seq(Branches), branches # <<>>, Payloads!NextTurn
    PROVE  branches' \in Seq(Branches) /\ branches' # <<>>
<1> DEFINE n == Len(branches)
           b == branches[n]
           c == [model |-> b.model, rich |-> b.rich, turn |-> b.turn + 1]
<1>1. n \in 1..Len(branches) /\ b \in Branches
  BY TopIs DEF Payloads!Top
<1>2. b = [model |-> b.model, rich |-> b.rich, turn |-> b.turn] /\ b.turn \in Nat /\ c \in Branches
  BY <1>1 DEF Branches
<1>3. [b EXCEPT !.turn = @ + 1] = c
  BY <1>2
<1>4. branches' = [branches EXCEPT ![n] = [b EXCEPT !.turn = @ + 1]]
  BY DEF Payloads!NextTurn
<1>5. branches' = [branches EXCEPT ![n] = c]
  BY <1>3, <1>4
<1> HIDE DEF c, n
<1>6. branches' \in Seq(Branches) /\ Len(branches') = Len(branches)
  BY <1>1, <1>2, <1>5, ExceptSeq
<1> QED
  BY <1>1, <1>6, EmptySeq, TopIs

\* A branch is given up, and its parent has one more result.
LEMMA ParentIs ==
    ASSUME branches \in Seq(Branches), branches # <<>>, Payloads!Depth # 0
    PROVE  Payloads!Front(branches) \in Seq(Branches) /\ Payloads!Front(branches) # <<>>
<1> DEFINE n == Len(branches)
<1>1. n \in Nat /\ n > 0 /\ n - 1 # 0
  BY TopIs DEF Payloads!Depth
<1>2. Payloads!Front(branches) = SubSeq(branches, 1, n - 1)
  BY DEF Payloads!Front
<1> HIDE DEF n
<1>3. 1 \in 1..n /\ n - 1 \in 1..n /\ 1 <= n - 1
  BY <1>1
<1>4. /\ SubSeq(branches, 1, n - 1) \in Seq(Branches)
      /\ Len(SubSeq(branches, 1, n - 1)) = (n - 1) - 1 + 1
  BY <1>3, InnerPart DEF n
<1> QED
  BY <1>1, <1>2, <1>4, EmptySeq

\* An output without items has no message.
LEMMA NoReply == reply = <<>> => Payloads!ParsedReply(reply) = Payloads!Rejected
<1> SUFFICES ASSUME reply = <<>> PROVE Payloads!ParsedReply(reply) = Payloads!Rejected
  OBVIOUS
<1>1. Payloads!Messages(reply) = {}
  BY DEF Payloads!Messages
<1>2. Payloads!Cardinality({}) = 0
  BY SameCount, FS_EmptySet
<1>3. Payloads!Cardinality(Payloads!Messages(reply)) = 0
  BY <1>1, <1>2
<1> HIDE DEF Payloads!Messages
<1>4. Payloads!Cardinality(Payloads!Messages(reply)) # 1
  BY <1>3
<1> QED
  BY <1>4 DEF Payloads!ParsedReply

\* Every step of a run and of the code in its cells keeps the invariant.
LEMMA PayContinues == PayInv /\ [Payloads!Next]_payloadVars => PayInv'
<1> SUFFICES ASSUME PayInv, [Payloads!Next]_payloadVars PROVE PayInv'
  OBVIOUS
<1>0. /\ MaxLines \in Nat /\ PayloadsAssumption
      /\ controllerModel \in {"null", "text"} /\ branches \in Seq(Branches)
      /\ step \notin Closed => /\ branches # <<>> /\ Payloads!Depth \in Nat /\ Payloads!Top \in Branches
                               /\ Payloads!Top.model = "text" /\ Payloads!Top.turn \in Nat
  BY PayloadsAssumption, TopIs DEF PayInv, Branches
<1> DEFINE d == Payloads!Depth
\* A step that drops the reply, or had none.
<1>1. ASSUME reply' = <<>> PROVE ReplyRead'
  BY <1>1 DEF ReplyRead
<1>2. ASSUME step \notin Looked, UNCHANGED reply PROVE ReplyRead'
  BY <1>2 DEF PayInv, ReplyRead
<1>3. CASE UNCHANGED payloadVars
  BY <1>3 DEF payloadVars, PayInv, ReplyRead, Readable, Payloads!Readable
<1>4. CASE Payloads!Submit
  <2>1. PICK r \in Payloads!Requests, way \in {"run", "direct"} :
           IF Payloads!ValidRequest(r)
           THEN /\ branches' = <<Payloads!Branch(r)>> /\ step' = way
                /\ Payloads!Record("run.started", 0,
                     [request |-> "object", effective_config |-> "object",
                      harness |-> "object", harness_fingerprint |-> "digest",
                      trace_schema_version |-> "text", environment_abi |-> "object",
                      environment_abi_digest |-> "digest"])
           ELSE step' = "refused" /\ UNCHANGED <<branches, line>>
    BY <1>4 DEF Payloads!Submit
  <2>2. step = "idle" /\ UNCHANGED <<controllerModel, call, reply>> /\ ReplyRead'
    BY <1>2, <1>4 DEF Payloads!Submit, Looked
  <2>3. CASE Payloads!ValidRequest(r)
    <3>1. Payloads!Branch(r) \in Branches
      BY <2>3 DEF Payloads!Branch, Branches, Payloads!ValidRequest, Payloads!Requests
    <3>2. branches' \in Seq(Branches) /\ branches' # <<>> /\ step' \in {"run", "direct"}
      <4>1. branches' = <<Payloads!Branch(r)>> /\ step' \in {"run", "direct"}
        BY <2>1, <2>3
      <4>2. \A b \in Branches : <<b>> \in Seq(Branches) /\ <<b>> # <<>>
        OBVIOUS
      <4> QED
        BY <3>1, <4>1, <4>2
    <3>3. Readable'
      BY <2>1, <2>3, StartReads, Recorded
    <3> QED
      BY <1>0, <2>2, <3>2, <3>3 DEF PayInv
  <2>4. CASE ~Payloads!ValidRequest(r)
    BY <1>0, <2>1, <2>2, <2>4 DEF PayInv, Closed, Readable, Payloads!Readable
  <2> QED
    BY <2>3, <2>4
<1>5. CASE Payloads!StartBranch
  <2>1. /\ step = "run" /\ step' = "turn" /\ UNCHANGED <<controllerModel, branches, call, reply>> /\ ReplyRead'
        /\ d \in Nat /\ Payloads!Top.model = "text"
    BY <1>0, <1>2, <1>5 DEF Payloads!StartBranch, Looked, Closed
  <2>2. (IF controllerModel # "null" THEN controllerModel ELSE Payloads!Top.model) \in Payloads!Texts
    BY <1>0, <2>1 DEF Payloads!Texts
  <2>3. Readable'
    BY <1>5, <2>1, <2>2, BranchReads, Recorded DEF Payloads!StartBranch
  <2> QED
    BY <1>0, <2>1, <2>3 DEF PayInv, Closed
\* Every model call of the run.
<1>6. ASSUME NEW kind \in Kinds \union {"direct"}, Payloads!Ask(kind), step \notin Closed PROVE PayInv'
  <2>1. /\ step' = "asked" /\ call' = kind /\ reply' = <<>> /\ UNCHANGED <<controllerModel, branches>>
        /\ ReplyRead' /\ d \in Nat
    BY <1>0, <1>1, <1>6 DEF Payloads!Ask
  <2>2. Payloads!RoleOf(kind) \in Kinds
    BY DEF Payloads!RoleOf, Kinds
  <2>3. Readable'
    BY <1>6, <2>1, <2>2, CallReads, Recorded DEF Payloads!Ask, Payloads!Context
  <2> QED
    BY <1>0, <1>6, <2>1, <2>3 DEF PayInv
<1>7. CASE Payloads!AskController \/ Payloads!AskDirect \/ Payloads!AskInCell
  BY <1>6, <1>7
     DEF Payloads!AskController, Payloads!AskDirect, Payloads!AskInCell, Kinds, Closed
<1>8. CASE Payloads!CallReturns
  <2>1. PICK response \in {"terminal", "incomplete", "refused", "none"} :
           IF response = "none" THEN step' = "callFails" /\ UNCHANGED <<line, fault, reply>>
           ELSE /\ Payloads!Record("model.response", d,
                      [context |-> Payloads!Context(Payloads!RoleOf(call)), duration_seconds |-> 0,
                       response |-> response])
                /\ step' \in {"callFails"}
                          \union IF response = "refused" THEN {} ELSE {Payloads!AfterCall(response)}
                /\ fault' = IF step' = "fault" THEN "model_output" ELSE fault
                /\ IF step' = "reply" THEN reply' \in Payloads!Outputs ELSE reply' = <<>>
    BY <1>8 DEF Payloads!CallReturns
  <2>2. /\ step = "asked" /\ UNCHANGED <<controllerModel, branches, call>> /\ d \in Nat
        /\ call \in Kinds \union {"direct"} /\ branches # <<>>
    BY <1>0, <1>8 DEF Payloads!CallReturns, PayInv, Closed
  <2>3. Payloads!RoleOf(call) \in Kinds
    BY <2>2 DEF Payloads!RoleOf, Kinds
  <2>4. CASE response = "none"
    <3>1. ReplyRead'
      BY <1>2, <2>1, <2>2, <2>4 DEF Looked
    <3> QED
      BY <1>0, <2>1, <2>2, <2>4, <3>1 DEF PayInv, Closed, Readable, Payloads!Readable
  <2>5. CASE response # "none"
    <3>1. Readable'
      BY <2>1, <2>2, <2>3, <2>5, CallReads, Recorded DEF Payloads!Context
    <3>2. ReplyRead'
      BY <2>1, <2>5 DEF ReplyRead, Looked
    <3>3. step' # "asked"
      BY <2>1, <2>5 DEF Payloads!AfterCall
    <3> QED
      BY <1>0, <2>2, <3>1, <3>2, <3>3 DEF PayInv
  <2> QED
    BY <2>4, <2>5
<1>9. CASE Payloads!CallFails
  <2>1. /\ step = "callFails" /\ UNCHANGED <<controllerModel, branches, call, reply>> /\ d \in Nat
        /\ step' \in {"acting", "failing"} /\ branches # <<>> /\ call \in Kinds \union {"direct"} /\ ReplyRead'
    BY <1>0, <1>2, <1>9 DEF Payloads!CallFails, PayInv, Closed, Looked
  <2>2. Payloads!RoleOf(call) \in Kinds
    BY <2>1 DEF Payloads!RoleOf, Kinds
  <2>3. Readable'
    BY <1>9, <2>1, <2>2, CallReads, Recorded DEF Payloads!CallFails, Payloads!Context
  <2> QED
    BY <1>0, <2>1, <2>3 DEF PayInv, Closed
<1>10. CASE Payloads!Parse
  <2> DEFINE code == Payloads!ParsedReply(reply)
  <2>1. /\ step = "reply" /\ UNCHANGED <<controllerModel, branches, call, reply>> /\ d \in Nat /\ branches # <<>>
    BY <1>0, <1>10 DEF Payloads!Parse, Closed
  <2>2. reply # <<>> => reply \in Payloads!Outputs /\ code # <<>>
    BY <1>0, ParsedIsTheOne DEF PayInv, ReplyRead
  <2>3. CASE code = Payloads!Rejected
    <3>1. step' = "fault" /\ UNCHANGED line
      BY <1>10, <2>3 DEF Payloads!Parse
    <3>2. ReplyRead'
      BY <2>1, <2>2, <2>3, <3>1 DEF ReplyRead, Looked
    <3> QED
      BY <1>0, <2>1, <3>1, <3>2 DEF PayInv, Closed, Readable, Payloads!Readable
  <2>4. CASE code # Payloads!Rejected
    <3>1. step' = "acting" /\ Payloads!Record("controller.action", d, [code |-> code])
      BY <1>10, <2>4 DEF Payloads!Parse
    <3>2. reply # <<>>
      BY <2>4, NoReply
    <3> HIDE DEF code
    <3>3. Readable'
      BY <2>1, <2>2, <3>1, <3>2, TurnReads, Recorded
    <3>4. line'.payload.code = code
      BY <3>1 DEF Payloads!Record
    <3>5. ReplyRead'
      BY <2>1, <2>2, <2>4, <3>1, <3>2, <3>4 DEF ReplyRead, Looked, code
    <3> QED
      BY <1>0, <2>1, <3>1, <3>3, <3>5 DEF PayInv, Closed
  <2> QED
    BY <2>3, <2>4
<1>11. CASE Payloads!Recurse
  <2>1. /\ step = "acting" /\ step' = "run" /\ reply' = <<>> /\ ReplyRead'
        /\ UNCHANGED <<controllerModel, call, line>>
        /\ branches # <<>> /\ Payloads!Top \in Branches
    BY <1>0, <1>1, <1>11 DEF Payloads!Recurse, Closed
  <2>2. PICK b \in {[Payloads!Top EXCEPT !.turn = 1]}
                   \union {Payloads!Branch(r) : r \in {q \in Payloads!Requests : Payloads!ValidRequest(q)}} :
           branches' = Append(branches, b)
    BY <1>11 DEF Payloads!Recurse
  <2>3. b \in Branches
    <3>1. [Payloads!Top EXCEPT !.turn = 1] \in Branches
      BY <2>1 DEF Branches
    <3>2. \A r \in Payloads!Requests : Payloads!ValidRequest(r) => Payloads!Branch(r) \in Branches
      BY DEF Payloads!Branch, Branches, Payloads!ValidRequest, Payloads!Requests
    <3> QED
      BY <2>2, <3>1, <3>2
  <2>4. branches' \in Seq(Branches) /\ branches' # <<>>
    BY <1>0, <2>2, <2>3, AppendProperties
  <2> QED
    BY <1>0, <2>1, <2>4 DEF PayInv, Readable, Payloads!Readable
<1>12. CASE Payloads!CellEnds
  <2>1. /\ step = "acting" /\ step' \in {"failing", "fault", "submitted", "observe"} /\ reply' = <<>> /\ ReplyRead'
        /\ UNCHANGED <<controllerModel, branches, call>> /\ d \in Nat /\ branches # <<>>
    BY <1>0, <1>1, <1>12 DEF Payloads!CellEnds, Closed
  <2>2. <<"code">> # <<>>
    OBVIOUS
  <2>3. Readable'
    BY <1>12, <2>1, <2>2, TurnReads, Recorded DEF Payloads!CellEnds
  <2> QED
    BY <1>0, <2>1, <2>3 DEF PayInv
<1>13. CASE Payloads!CellLost
  <2>1. /\ step = "acting" /\ step' = "failing" /\ UNCHANGED <<controllerModel, branches, call, reply, line>>
    BY <1>13 DEF Payloads!CellLost
  <2>2. ReplyRead'
    BY <2>1 DEF PayInv, ReplyRead, Looked
  <2> QED
    BY <1>0, <2>1, <2>2 DEF PayInv, Closed, Readable, Payloads!Readable
<1>14. CASE Payloads!Observe
  <2>1. /\ step = "observe" /\ step' = "turn" /\ Payloads!NextTurn /\ UNCHANGED <<controllerModel, call, reply>>
        /\ d \in Nat /\ branches # <<>> /\ ReplyRead'
    BY <1>0, <1>2, <1>14 DEF Payloads!Observe, Closed, Looked
  <2>2. <<"code">> # <<>>
    OBVIOUS
  <2>3. Readable'
    BY <1>14, <2>1, <2>2, TurnReads, Recorded DEF Payloads!Observe
  <2>4. branches' \in Seq(Branches) /\ branches' # <<>>
    BY <1>0, <2>1, NextTurnIs
  <2> QED
    BY <1>0, <2>1, <2>3, <2>4 DEF PayInv
<1>15. CASE Payloads!Final
  <2>1. /\ step = "submitted" /\ UNCHANGED <<controllerModel, call, reply>>
        /\ d \in Nat /\ branches # <<>> /\ ReplyRead' /\ Payloads!Top.model = "text"
    BY <1>0, <1>2, <1>15 DEF Payloads!Final, Closed, Looked
  <2>2. CASE Payloads!Submittable(frame.submission)
    <3>1. /\ Payloads!Record("branch.completed", d,
                [stop_reason |-> "text", response |-> Payloads!ResponseOf(frame.submission)])
          /\ IF d = 0 THEN step' = "end" /\ UNCHANGED branches
             ELSE step' = "acting" /\ branches' = Payloads!Front(branches)
      BY <1>15, <2>2 DEF Payloads!Final
    <3>2. Payloads!ResponseOf(frame.submission) = "terminal"
      BY <2>1, <2>2 DEF Payloads!Submittable, Payloads!ResponseOf, Payloads!Texts
    <3>3. Readable'
      BY <2>1, <3>1, <3>2, EndReads, Recorded
    <3>4. branches' \in Seq(Branches) /\ branches' # <<>>
      BY <1>0, <2>1, <3>1, ParentIs
    <3> QED
      BY <1>0, <2>1, <3>1, <3>3, <3>4 DEF PayInv
  <2>3. CASE ~Payloads!Submittable(frame.submission)
    <3>1. step' = "fault" /\ UNCHANGED <<branches, line>>
      BY <1>15, <2>3 DEF Payloads!Final
    <3> QED
      BY <1>0, <2>1, <3>1 DEF PayInv, Readable, Payloads!Readable
  <2> QED
    BY <2>2, <2>3
<1>16. CASE Payloads!Decide
  <2>1. /\ step = "fault" /\ step' \in {"repair", "failing"} /\ UNCHANGED <<controllerModel, branches, call, reply>>
        /\ d \in Nat /\ branches # <<>> /\ Payloads!Top.turn \in Nat
    BY <1>0, <1>16 DEF Payloads!Decide, Closed
  <2>2. <<"code">> # <<>>
    OBVIOUS
  <2>3. Readable'
    BY <1>16, <2>1, <2>2, TurnReads, Recorded DEF Payloads!Decide
  <2>4. ReplyRead'
    BY <2>1 DEF PayInv, ReplyRead, Looked
  <2> QED
    BY <1>0, <2>1, <2>3, <2>4 DEF PayInv
<1>17. CASE Payloads!Repair
  <2>1. /\ step = "repair" /\ step' = "turn" /\ Payloads!NextTurn /\ UNCHANGED <<controllerModel, call>>
        /\ d \in Nat /\ branches # <<>> /\ Payloads!Top.turn \in Nat /\ ReplyRead'
    BY <1>0, <1>1, <1>17 DEF Payloads!Repair, Closed
  <2>2. <<"code">> # <<>>
    OBVIOUS
  <2>3. Readable'
    BY <1>17, <2>1, <2>2, TurnReads, Recorded DEF Payloads!Repair
  <2>4. branches' \in Seq(Branches) /\ branches' # <<>>
    BY <1>0, <2>1, NextTurnIs
  <2> QED
    BY <1>0, <2>1, <2>3, <2>4 DEF PayInv
<1>18. CASE Payloads!OutOfTurns
  <2>1. /\ step = "turn" /\ step' = "failing" /\ UNCHANGED <<controllerModel, branches, call, reply, line>> /\ ReplyRead'
    BY <1>2, <1>18 DEF Payloads!OutOfTurns, Looked
  <2> QED
    BY <1>0, <2>1 DEF PayInv, Closed, Readable, Payloads!Readable
<1>19. CASE Payloads!Complete
  <2>1. /\ step \in {"end", "directEnd"} /\ step' = "done" /\ UNCHANGED <<controllerModel, branches, call, reply>>
        /\ branches # <<>> /\ ReplyRead'
    BY <1>0, <1>2, <1>19 DEF Payloads!Complete, Looked, Closed
  <2>2. Readable'
    BY <1>19, EndReads, Recorded DEF Payloads!Complete
  <2> QED
    BY <1>0, <2>1, <2>2 DEF PayInv
<1>20. CASE Payloads!Fail
  <2>1. /\ step = "failing" /\ UNCHANGED <<controllerModel, call>> /\ reply' = <<>> /\ ReplyRead'
        /\ d \in Nat /\ branches # <<>>
        /\ IF d > 0 THEN step' = "acting" /\ branches' = Payloads!Front(branches) /\ UNCHANGED line
           ELSE /\ step' = "done" /\ UNCHANGED branches
                /\ Payloads!Record("run.failed", 0, [error |-> "record"])
    BY <1>0, <1>1, <1>20 DEF Payloads!Fail, Closed
  <2>2. Readable'
    <3>1. CASE d > 0
      BY <2>1, <3>1 DEF PayInv, Readable, Payloads!Readable
    <3>2. CASE ~(d > 0)
      BY <2>1, <3>2, EndReads, Recorded
    <3> QED
      BY <3>1, <3>2
  <2>3. branches' \in Seq(Branches) /\ branches' # <<>>
    BY <1>0, <2>1, ParentIs
  <2> QED
    BY <1>0, <2>1, <2>2, <2>3 DEF PayInv
<1> QED
  BY <1>3, <1>4, <1>5, <1>7, <1>8, <1>9, <1>10, <1>11, <1>12, <1>13, <1>14, <1>15, <1>16,
     <1>17, <1>18,
     <1>19, <1>20 DEF Payloads!Next, payloadVars

\* What the reader asks for, and the one cell.
LEMMA PaySound == PayInv => PayloadsSound
<1> SUFFICES ASSUME PayInv PROVE Readable /\ OneCell
  BY DEF PayloadsSound
<1>1. Readable
  BY DEF PayInv
<1>2. ASSUME reply # <<>>, step \in {"acting", "fault"}
      PROVE  (IF Payloads!OneMessage(reply) THEN Payloads!CellsOf(Payloads!TextOf(reply)) ELSE {})
                = IF step = "acting" THEN {line.payload.code} ELSE {}
  <2>1. reply \in Payloads!Outputs /\ MaxLines \in Nat
    BY <1>2, PayloadsAssumption DEF PayInv, ReplyRead
  <2>2. (IF Payloads!OneMessage(reply) THEN Payloads!CellsOf(Payloads!TextOf(reply)) ELSE {}) =
           IF Payloads!ParsedReply(reply) = Payloads!Rejected THEN {} ELSE {Payloads!ParsedReply(reply)}
    BY <2>1, ParsedIsTheOne
  <2>3. CASE step = "acting"
    <3>1. Payloads!ParsedReply(reply) # Payloads!Rejected /\ line.payload.code = Payloads!ParsedReply(reply)
      BY <1>2, <2>3 DEF PayInv, ReplyRead
    <3> QED
      BY <2>2, <2>3, <3>1
  <2>4. CASE step = "fault"
    <3>1. Payloads!ParsedReply(reply) = Payloads!Rejected
      BY <1>2, <2>4 DEF PayInv, ReplyRead
    <3> QED
      BY <2>2, <2>4, <3>1
  <2> QED
    BY <1>2, <2>3, <2>4
<1> QED
  BY <1>1, <1>2 DEF OneCell, Payloads!OneCell

\* Only its own scenario writes payloads.
LEMMA PayRests ==
    ASSUME [ScenarioNext]_allVars
    PROVE  [Payloads!Next]_payloadVars
BY DEF ScenarioNext, allVars, FilesStep, PayloadsStep, OneRunStep, TwoRunsStep, PayloadsOver

\* protocol.py:107-147, trace.py:61-210, trace_reader.py:284-419.  Whatever a caller,
\* a provider, a controller and a cell send, for any number of turns, depths and
\* lines of a reply: every line that is written passes the reader, and what is run
\* is the one cell of the one message of the reply, which is never refused.
THEOREM PayloadsAlwaysSound == ScenarioSpec => []PayloadsSound
<1>1. ScenarioInit => PayInv
  BY PayBegins DEF ScenarioInit
<1>2. PayInv /\ [ScenarioNext]_allVars => PayInv'
  BY PayRests, PayContinues
<1> QED
  BY <1>1, <1>2, PaySound, PTL DEF ScenarioSpec

=============================================================================
