-------------------------- MODULE ObservationProofs --------------------------
(***************************************************************************)
(* Proofs about Observation, for any candidates, lengths and budgets.      *)
(*                                                                         *)
(* EncodedLength is never looked into: what holds of the search holds      *)
(* whatever the characters, the entries and the digits of the counts take, *)
(* and although taking more of a text does not always take more room.      *)
(***************************************************************************)
EXTENDS Observation, TLAPS

\* What lies below the lower bound was tried and fits; what lies above the
\* upper one was tried and does not.
SearchTried ==
    phase = "search" =>
        LET c == Candidates[next]
        IN  /\ next <= Len(Candidates)
            /\ low > 0 => Fits(c, low)
            /\ high < length[c] => ~Fits(c, high + 1)

InputsOK == length \in [Names -> Nat]

EncodingInv ==
    /\ InputsOK
    /\ TypeOK
    /\ AlwaysFits
    /\ NothingLost
    /\ SearchTried

-----------------------------------------------------------------------------
(* What the operators return *)

\* A candidate is one of the names, and the next one may be asked for.
LEMMA CandidateIsName ==
    ASSUME NEW i \in 1..(Len(Candidates) + 1), i <= Len(Candidates)
    PROVE  Candidates[i] \in Names /\ i + 1 \in 1..(Len(Candidates) + 1)
BY CandidatesAssumption DEF Names

\* The middle of the search lies above the lower bound and not above the upper.
LEMMA MiddleBetween ==
    ASSUME low \in Nat, high \in Nat, low < high
    PROVE  Middle \in Nat /\ low < Middle /\ Middle <= high /\ Middle - 1 \in Nat
BY DEF Middle

\* Retaining n characters of a candidate loses none of them.
LEMMA AcceptKeeps ==
    ASSUME EncodingInv, NEW c \in Names, NEW n \in 0..length[c], Accept(c, n),
           UNCHANGED length
    PROVE  retained' \in [Names -> Nat] /\ omitted' \in [Names -> Nat] /\ NothingLost'
<1>1. length[c] \in Nat /\ n \in Nat /\ length[c] - n \in Nat
    BY DEF EncodingInv, InputsOK
<1>2. CASE n = 0
    BY <1>2 DEF Accept, EncodingInv, TypeOK, NothingLost
<1>3. CASE n # 0
    <2>1. /\ retained' = [retained EXCEPT ![c] = n]
          /\ omitted' = [omitted EXCEPT ![c] = length[c] - n]
        BY <1>3 DEF Accept, RetainedWith, OmittedWith
    <2> QED  BY <1>1, <2>1 DEF EncodingInv, TypeOK, NothingLost
<1> QED  BY <1>2, <1>3

\* The observation still fits if the candidate is left out, or was found to fit.
LEMMA AcceptFits ==
    ASSUME EncodingInv, NEW c, NEW n, Accept(c, n), UNCHANGED inputVars,
           phase \in {"candidates", "search"}, n # 0 => Fits(c, n)
    PROVE  AlwaysFits'
<1>1. CASE n = 0
    BY <1>1 DEF Accept, EncodingInv, AlwaysFits, inputVars
<1>2. CASE n # 0
    BY <1>2 DEF Accept, EncodingInv, AlwaysFits, Fits, inputVars
<1> QED  BY <1>1, <1>2

-----------------------------------------------------------------------------
\* Nothing is retained at first.
LEMMA InitEstablishes == Init => EncodingInv
<1> SUFFICES ASSUME Init PROVE EncodingInv
    OBVIOUS
<1>1. InputsOK
    BY InputsAssumption DEF Init, InputsOK
<1>2. Len(Candidates) \in Nat
    BY CandidatesAssumption
<1> QED  BY <1>1, <1>2 DEF Init, EncodingInv, TypeOK, InputsOK, AlwaysFits, NothingLost, SearchTried

\* A candidate is left behind with what was retained of it.
LEMMA AcceptPreserves ==
    ASSUME EncodingInv, phase \in {"candidates", "search"}, next <= Len(Candidates),
           NEW n \in 0..length[Candidates[next]], Accept(Candidates[next], n),
           n # 0 => Fits(Candidates[next], n), UNCHANGED <<inputVars, low, high>>
    PROVE  EncodingInv'
<1> DEFINE c == Candidates[next]
<1>1. c \in Names /\ next + 1 \in 1..(Len(Candidates) + 1)
    BY CandidateIsName DEF EncodingInv, TypeOK
<1>2. retained' \in [Names -> Nat] /\ omitted' \in [Names -> Nat] /\ NothingLost'
    BY <1>1, AcceptKeeps DEF inputVars
<1>3. AlwaysFits'
    BY AcceptFits
<1>4. phase' = "candidates" /\ next' = next + 1
    BY DEF Accept
<1> QED  BY <1>1, <1>2, <1>3, <1>4 DEF EncodingInv, InputsOK, TypeOK, SearchTried, inputVars

\* Every step keeps the invariant.
LEMMA StepPreserves ==
    ASSUME EncodingInv, [Next]_vars PROVE EncodingInv'
<1> DEFINE c == Candidates[next]
<1>1. Len(Candidates) \in Nat
    BY CandidatesAssumption
<1>2. AtCandidate => c \in Names /\ length[c] \in Nat
    BY CandidateIsName DEF AtCandidate, EncodingInv, TypeOK, InputsOK
<1>3. CASE Structure
    BY <1>3 DEF Structure, EncodingInv, InputsOK, TypeOK, AlwaysFits, NothingLost,
                SearchTried, inputVars
<1>4. CASE Empty
    BY <1>2, <1>4, AcceptPreserves DEF Empty, AtCandidate
<1>5. CASE Whole
    <2> DEFINE n == IF Fits(c, length[c]) THEN length[c] ELSE 0
    <2>1. n \in 0..length[c] /\ (n # 0 => Fits(c, n))
        BY <1>2, <1>5 DEF Whole
    <2>2. Accept(c, n) /\ UNCHANGED <<inputVars, low, high>> /\ AtCandidate
        BY <1>5 DEF Whole
    <2> HIDE DEF n
    <2> QED  BY <2>1, <2>2, AcceptPreserves DEF AtCandidate
<1>6. CASE BeginSearch
    BY <1>2, <1>6 DEF BeginSearch, AtCandidate, EncodingInv, InputsOK, TypeOK, AlwaysFits,
                      NothingLost, SearchTried, inputVars, Fits, RetainedWith, OmittedWith
<1>7. CASE Probe
    <2>1. /\ low \in Nat /\ high \in Nat /\ low < high /\ c \in Names
          /\ high <= length[c] /\ length[c] \in Nat
        BY <1>7, CandidateIsName DEF Probe, EncodingInv, TypeOK, InputsOK, SearchTried
    <2>2. Middle \in Nat /\ low < Middle /\ Middle <= high /\ Middle - 1 \in Nat
        BY <2>1, MiddleBetween
    <2>3. /\ UNCHANGED <<inputVars, phase, next, retained, omitted>>
          /\ phase = "search" /\ next <= Len(Candidates)
        BY <1>7 DEF Probe, EncodingInv, SearchTried
    <2>4. InputsOK' /\ AlwaysFits' /\ NothingLost'
        BY <2>3 DEF EncodingInv, InputsOK, AlwaysFits, NothingLost, inputVars
    <2>5. CASE Fits(c, Middle)
        <3>1. low' = Middle /\ high' = high
            BY <1>7, <2>5 DEF Probe
        <3>2. TypeOK'
            BY <2>1, <2>2, <2>3, <3>1 DEF EncodingInv, TypeOK, inputVars
        <3>3. SearchTried'
            BY <2>1, <2>2, <2>3, <2>5, <3>1
               DEF EncodingInv, SearchTried, inputVars, Fits, RetainedWith, OmittedWith
        <3> QED  BY <2>4, <3>2, <3>3 DEF EncodingInv
    <2>6. CASE ~Fits(c, Middle)
        <3>1. low' = low /\ high' = Middle - 1
            BY <1>7, <2>6 DEF Probe
        <3>2. TypeOK'
            BY <2>1, <2>2, <2>3, <3>1 DEF EncodingInv, TypeOK, inputVars
        <3>3. high' + 1 = Middle
            BY <2>2, <3>1
        <3>4. SearchTried'
            BY <2>1, <2>2, <2>3, <2>6, <3>1, <3>3
               DEF EncodingInv, SearchTried, inputVars, Fits, RetainedWith, OmittedWith
        <3> QED  BY <2>4, <3>2, <3>4 DEF EncodingInv
    <2> QED  BY <2>5, <2>6
<1>8. CASE EndSearch
    <2>1. low \in 0..length[c] /\ (low # 0 => Fits(c, low)) /\ next <= Len(Candidates)
        BY <1>8 DEF EndSearch, EncodingInv, TypeOK, SearchTried
    <2> QED  BY <1>8, <2>1, AcceptPreserves DEF EndSearch
<1>9. CASE Finish
    BY <1>9 DEF Finish, EncodingInv, InputsOK, TypeOK, AlwaysFits, NothingLost,
                SearchTried, inputVars
<1>10. CASE UNCHANGED vars
    BY <1>10 DEF vars, EncodingInv, InputsOK, TypeOK, AlwaysFits, NothingLost,
                 SearchTried, inputVars, Fits, RetainedWith, OmittedWith
<1> QED  BY <1>3, <1>4, <1>5, <1>6, <1>7, <1>8, <1>9, <1>10 DEF Next, Step, Ended

-----------------------------------------------------------------------------
\* observation.py:83-163.  The invariant that the theorem below is read from.
THEOREM InvariantHolds == Spec => []EncodingInv
BY InitEstablishes, StepPreserves, PTL DEF Spec

\* observation.py:86-149.  For any texts and any budget: from the structure on the
\* observation fits, every character is retained or counted as omitted, and the
\* prefix that the search settles on cannot be longer by one character.
THEOREM EncodingAlwaysExact == Spec => []EncodingExact
<1>1. EncodingInv => PrefixTight
    BY DEF EncodingInv, SearchTried, TypeOK, InputsOK, PrefixTight
<1>2. EncodingInv => EncodingExact
    BY <1>1 DEF EncodingInv, EncodingExact
<1> QED  BY <1>2, InvariantHolds, PTL

\* A probe leaves less to search, within the bounds of the one before: the search
\* cannot go on for ever (observation.py:133-148).
ProbeNarrows ==
    [][Probe => low <= low' /\ high' <= high /\ high' - low' < high - low]_vars

\* The binary search of the encoder (observation.py): every probe leaves fewer
\* lengths to search than the one before, so that it cannot go on for ever.
THEOREM EveryProbeNarrows == Spec => ProbeNarrows
<1>1. ASSUME EncodingInv, Probe
      PROVE  low <= low' /\ high' <= high /\ high' - low' < high - low
    <2>1. low \in Nat /\ high \in Nat /\ low < high
        BY <1>1 DEF Probe, EncodingInv, TypeOK
    <2>2. Middle \in Nat /\ low < Middle /\ Middle <= high
        BY <2>1, MiddleBetween
    <2>3. CASE low' = Middle /\ high' = high
        BY <2>1, <2>2, <2>3
    <2>4. CASE low' = low /\ high' = Middle - 1
        BY <2>1, <2>2, <2>4
    <2> QED  BY <1>1, <2>3, <2>4 DEF Probe
<1> QED  BY <1>1, InvariantHolds, PTL DEF Spec, ProbeNarrows
=============================================================================
