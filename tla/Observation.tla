----------------------------- MODULE Observation -----------------------------
(***************************************************************************)
(* controller_observation of src/src/rlm/observation.py: what a cell left  *)
(* behind is told to the controller in at most max_chars of JSON.  The     *)
(* structure comes first; then the candidates, in order, each taken whole  *)
(* or, if it is a text, as the longest prefix a binary search finds.  What *)
(* is left out is counted, and the counts are part of what must fit.       *)
(*                                                                         *)
(* A candidate is a number of characters, all of which take the same room  *)
(* in JSON; the structure with nothing omitted takes none.                 *)
(***************************************************************************)
EXTENDS Integers, Sequences, FiniteSets, FiniteSetsExt

CONSTANTS
    Candidates,     \* the candidates, in order
    Structured,     \* those that are never cut
    EntryChars,     \* what the entry of a candidate takes, but for its text
    CountChars,     \* what its entry in truncation.fields takes, but for digits
    Lengths,        \* the lengths a candidate is tried with
    Widths,         \* the room a character is tried with: 1, or more if escaped
    Budgets         \* the budgets tried, the structure already taken off

Names == {Candidates[i] : i \in DOMAIN Candidates}

ASSUME CandidatesAssumption ==
    /\ Candidates \in Seq(Names) /\ Cardinality(Names) = Len(Candidates)
    /\ Structured \subseteq Names
ASSUME CharsAssumption == EntryChars \in [Names -> Nat] /\ CountChars \in [Names -> Nat]
ASSUME InputsAssumption == Lengths \subseteq Nat /\ Widths \subseteq Nat /\ Budgets \subseteq Int

VARIABLES
    length, width, budget,  \* the input
    phase,
    next,           \* the index of the candidate at hand
    low, high,      \* the bounds of the binary search
    retained,       \* characters retained of each candidate
    omitted         \* characters omitted of each; an entry is there if positive

inputVars == <<length, width, budget>>
vars == <<inputVars, phase, next, low, high, retained, omitted>>

TypeOK ==
    /\ phase \in {"structure", "candidates", "search", "done", "refused"}
    /\ next \in 1..(Len(Candidates) + 1)
    /\ low \in Nat /\ high \in Nat
    /\ retained \in [Names -> Nat] /\ omitted \in [Names -> Nat]
    /\ phase = "search" =>
          /\ Candidates[next] \notin Structured
          /\ low <= high /\ high <= length[Candidates[next]]

Init ==
    /\ length \in [Names -> Lengths]
    /\ width \in Widths
    /\ budget \in Budgets
    /\ phase = "structure"
    /\ next = 1 /\ low = 0 /\ high = 0
    /\ retained = [c \in Names |-> 0]
    /\ omitted = length

-----------------------------------------------------------------------------
Sum(f) == MapThenSumSet(LAMBDA c : f[c], Names)

Digits(n) == IF n < 10 THEN 1 ELSE IF n < 100 THEN 2 ELSE 3

\* The entries of truncation.fields, with the commas between them.
FieldsChars(om) ==
    LET counted == {c \in Names : om[c] > 0}
    IN  MapThenSumSet(LAMBDA c : CountChars[c] + Digits(om[c]), counted)
            + (IF counted = {} THEN 0 ELSE Cardinality(counted) - 1)

\* A text is escaped; a value that is not a text is the JSON it was,
\* or, a float, may be shorter.  A character takes the room w.
TextChars(w, c, n) == IF c \in Structured THEN n ELSE w * n

EncodedLength(w, ret, om) ==
    MapThenSumSet(LAMBDA c : EntryChars[c] + TextChars(w, c, ret[c]), {c \in Names : ret[c] > 0})
        + FieldsChars(om) + Digits(Sum(om))

\* The candidate at hand with n of its characters retained.
RetainedWith(c, n) == [retained EXCEPT ![c] = n]
OmittedWith(c, n) == [omitted EXCEPT ![c] = length[c] - n]

\* The room for the counts is not measured.
FitsFault(c, n) == EncodedLength(width, RetainedWith(c, n), [d \in Names |-> 0]) <= budget

Fits(c, n) == EncodedLength(width, RetainedWith(c, n), OmittedWith(c, n)) <= budget

-----------------------------------------------------------------------------
\* Without any text the structure must fit.
Structure ==
    /\ phase = "structure"
    /\ phase' = IF EncodedLength(width, retained, omitted) <= budget THEN "candidates" ELSE "refused"
    /\ UNCHANGED <<inputVars, next, low, high, retained, omitted>>

AtCandidate == phase = "candidates" /\ next <= Len(Candidates)

\* What was cut is forgotten.
AcceptFault(c, n) ==
    /\ retained' = IF n = 0 THEN retained ELSE RetainedWith(c, n)
    /\ omitted' = IF n = 0 THEN omitted ELSE OmittedWith(c, length[c])
    /\ next' = next + 1
    /\ phase' = "candidates"

\* n characters of the candidate are retained, if any.
Accept(c, n) ==
    /\ retained' = IF n = 0 THEN retained ELSE RetainedWith(c, n)
    /\ omitted' = IF n = 0 THEN omitted ELSE OmittedWith(c, n)
    /\ next' = next + 1
    /\ phase' = "candidates"

Empty ==
    /\ AtCandidate
    /\ length[Candidates[next]] = 0
    /\ Accept(Candidates[next], 0)
    /\ UNCHANGED <<inputVars, low, high>>

\* All of it or nothing.
Whole ==
    /\ AtCandidate
    /\ LET c == Candidates[next]
       IN  /\ c \in Structured /\ length[c] > 0
           /\ Accept(c, IF Fits(c, length[c]) THEN length[c] ELSE 0)
    /\ UNCHANGED <<inputVars, low, high>>

\* The upper bound is past the end of the text.
BeginSearchFault ==
    /\ AtCandidate
    /\ LET c == Candidates[next]
       IN  /\ c \notin Structured /\ length[c] > 0
           /\ low' = 0 /\ high' = length[c] + 1
    /\ phase' = "search"
    /\ UNCHANGED <<inputVars, next, retained, omitted>>

BeginSearch ==
    /\ AtCandidate
    /\ LET c == Candidates[next]
       IN  /\ c \notin Structured /\ length[c] > 0
           /\ low' = 0 /\ high' = length[c]
    /\ phase' = "search"
    /\ UNCHANGED <<inputVars, next, retained, omitted>>

\* Rounded down, the search can stand still.
MiddleFault == (low + high) \div 2

Middle == (low + high + 1) \div 2

\* A middle that does not fit is tried again.
ProbeFault ==
    /\ phase = "search"
    /\ low < high
    /\ IF Fits(Candidates[next], Middle) THEN low' = Middle /\ UNCHANGED high
                                         ELSE high' = Middle - 2 /\ UNCHANGED low
    /\ UNCHANGED <<inputVars, phase, next, retained, omitted>>

Probe ==
    /\ phase = "search"
    /\ low < high
    /\ IF Fits(Candidates[next], Middle) THEN low' = Middle /\ UNCHANGED high
                                         ELSE high' = Middle - 1 /\ UNCHANGED low
    /\ UNCHANGED <<inputVars, phase, next, retained, omitted>>

EndSearch ==
    /\ phase = "search"
    /\ low >= high
    /\ Accept(Candidates[next], low)
    /\ UNCHANGED <<inputVars, low, high>>

Finish ==
    /\ phase = "candidates"
    /\ next > Len(Candidates)
    /\ phase' = "done"
    /\ UNCHANGED <<inputVars, next, low, high, retained, omitted>>

\* The observation is returned, or refused for its budget.
Ended == phase \in {"done", "refused"} /\ UNCHANGED vars

Step == Structure \/ Empty \/ Whole \/ BeginSearch \/ Probe \/ EndSearch \/ Finish

Next == Step \/ Ended

Spec == Init /\ [][Next]_vars

\* One call of a function that does not wait.
FairSpec == Spec /\ WF_vars(Step)

-----------------------------------------------------------------------------
(* Properties *)

\* observation.py:114-120, test_observation.py:29-30.  From the structure on, the
\* observation fits at every step, although retaining a text changes the digits
\* and the entries of the counts, and the omitted count of every other text.
AlwaysFits == phase \notin {"structure", "refused"} => EncodedLength(width, retained, omitted) <= budget

\* observation.py:86-112.  Every character is retained or counted as omitted, so
\* the omitted_chars told to the controller is exactly what it does not see.
NothingLost == \A c \in Names : retained[c] + omitted[c] = length[c]

\* observation.py:125-149.  The prefix found cannot be longer by one character.
\* It need not be the longest that fits: the whole text, whose count goes away,
\* may take less room than a part of it.
PrefixTight ==
    phase = "search" /\ low >= high =>
        LET c == Candidates[next]
        IN  /\ low > 0 => Fits(c, low)
            /\ low < length[c] => ~Fits(c, low + 1)

\* The observation fits, tells exactly what it leaves out, and leaves out no
\* more than the search for a prefix has to.
EncodingExact == AlwaysFits /\ NothingLost /\ PrefixTight

\* observation.py:133-148.  The search ends, and so does the encoding.
Ends == <>(phase \in {"done", "refused"})
=============================================================================
