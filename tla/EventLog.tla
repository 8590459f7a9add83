------------------------------ MODULE EventLog ------------------------------
(***************************************************************************)
(* One event-log task of the selective recursion study, from the draw to   *)
(* the grade: make_task, _answer and verify of                             *)
(* src/experiments/selective_recursion_20261019/taskgen.py; the fixed      *)
(* policy of run_sweep.py, which extracts events chunk by chunk and        *)
(* aggregates them; and the library of skills/, with what was learned for  *)
(* the held-out questions.                                                 *)
(*                                                                         *)
(* A helper reads a chunk of lines rightly, or its answer cannot be        *)
(* parsed.  The text of a log is left out, but for its day numbers, which  *)
(* are one more than an event's day, and the form of the question.         *)
(***************************************************************************)
EXTENDS Integers, FiniteSets, Sequences, SequencesExt

CONSTANTS
    People,         \* numbers, for the alphabetical order of names
    Days,           \* number of days
    Quantities,     \* the quantities drawn, of which the largest is the limit of the code
    N,              \* n_records
    Planted         \* how many events of each kind are made sure of: 3 in the code

QUESTION_TYPES == {"count_buyers", "both_items", "net_units", "bought_then_returned", "lookup_day"}
HELDOUT_TYPES == {"top_buyer", "purchase_span", "busiest_day", "same_day_cross"}
Types == QUESTION_TYPES \cup HELDOUT_TYPES

VARIABLES
    stage,          \* "drawn", "made", "graded"
    type,           \* of the question
    asked,          \* the person of a lookup_day question
    events,
    extracted,      \* what the chunks gave, with the day as in the text
    parseFailures,
    fixed, library, \* the answers of the two policies
    correct         \* and how they were graded

vars == <<stage, type, asked, events, extracted, parseFailures, fixed, library, correct>>

a == "a"
b == "b"
Buy(p, item, q, d) == [kind |-> "buy", person |-> p, item |-> item, qty |-> q, day |-> d]
Return(p, item, q, d) == [kind |-> "return", person |-> p, item |-> item, qty |-> q, day |-> d]
Noise == [kind |-> "other", person |-> 0, item |-> "other", qty |-> 0, day |-> 0]

DaySet == 0..(Days - 1)
Limit == CHOOSE q \in Quantities : \A r \in Quantities : r <= q

-----------------------------------------------------------------------------
(* What events come to                                                     *)

Buys(es, item) == SelectSeq(es, LAMBDA e : e.kind = "buy" /\ e.item = item)
Returns(es, item) == SelectSeq(es, LAMBDA e : e.kind = "return" /\ e.item = item)
Who(es) == {es[i].person : i \in DOMAIN es}
DaysOf(es) == {es[i].day : i \in DOMAIN es}
Units(es) == FoldLeft(LAMBDA total, e : total + e.qty, 0, es)
By(es, p) == SelectSeq(es, LAMBDA e : e.person = p)
On(es, d) == SelectSeq(es, LAMBDA e : e.day = d)
Smallest(S) == CHOOSE x \in S : \A y \in S : x <= y
Greatest(S) == CHOOSE x \in S : \A y \in S : y <= x

\* An answer in the form that verify compares.  No one is the set of no names.
Number(n) == [int |-> n, names |-> {}, known |-> TRUE]
Names(S) == [int |-> 0, names |-> S, known |-> TRUE]
Unknown == [int |-> 0, names |-> {}, known |-> FALSE]

Leaders(es) == {p \in Who(es) : \A r \in Who(es) : Units(By(es, r)) <= Units(By(es, p))}
BusyDays(es) == {d \in DaysOf(es) : \A r \in DaysOf(es) : Units(On(es, r)) <= Units(On(es, d))}

ReturnedLater(es) ==
    {p \in Who(Returns(es, a)) \cap Who(Buys(es, a)) :
        \E d \in DaysOf(By(Returns(es, a), p)) : d > Smallest(DaysOf(By(Buys(es, a), p)))}

CrossDay(es) ==
    {p \in Who(Buys(es, a)) :
        \E d \in DaysOf(By(Buys(es, a), p)) : Who(On(Returns(es, a), d)) \ {p} # {}}

\* _answer, of the events themselves.
Gold(es) ==
    CASE type = "count_buyers" -> Number(Cardinality(Who(Buys(es, a))))
      [] type = "both_items" -> Names(Who(Buys(es, a)) \cap Who(Buys(es, b)))
      [] type = "net_units" -> Number(Units(Buys(es, a)) - Units(Returns(es, a)))
      [] type = "lookup_day" -> Number(By(Buys(es, a), asked)[1].day + 1)
      [] type = "bought_then_returned" -> Names(ReturnedLater(es))
      [] type = "top_buyer" -> Names({Smallest(Leaders(Buys(es, a)))})
      [] type = "purchase_span" -> Number(Greatest(DaysOf(Buys(es, a))) - Smallest(DaysOf(Buys(es, a))))
      [] type = "busiest_day" -> Number(Smallest(BusyDays(Buys(es, a))) + 1)
      [] type = "same_day_cross" -> Names(CrossDay(es))

-----------------------------------------------------------------------------
(* make_task                                                               *)

ItemsOf(t) == IF t = "both_items" THEN {a, b} ELSE {a}
AnyEvent(t) ==
    {Noise} \cup [kind : {"buy", "return"}, person : People, item : ItemsOf(t), qty : Quantities, day : DaySet]
AnyBuy(item) == [kind : {"buy"}, person : People, item : {item}, qty : Quantities, day : DaySet]

\* The draw, with what is made sure of for every question and for both_items.
Drawn(t) ==
    {es \in [1..N -> AnyEvent(t)] :
        /\ \A k \in 1..Planted : es[k] \in AnyBuy(a)
        /\ t = "both_items" => \A k \in (Planted + 1)..(2 * Planted) : k \in 1..N => es[k] \in AnyBuy(b)}

Init ==
    /\ stage = "drawn"
    /\ type \in Types
    /\ asked = 0
    /\ events \in Drawn(type)
    /\ extracted = <<>> /\ parseFailures = 0
    /\ fixed = Unknown /\ library = Unknown
    /\ correct = [fixed |-> FALSE, library |-> FALSE]

\* One purchase of a by the person asked for.  The seeded mistake leaves the
\* others that person made.
OneHitFault(p, buyer, q, d) == [events EXCEPT ![1] = Buy(p, a, q, d)]
OneHit(p, buyer, q, d) ==
    [k \in 1..N |-> IF k = 1 THEN Buy(p, a, q, d)
                    ELSE IF events[k].kind = "buy" /\ events[k].item = a /\ events[k].person = p
                         THEN [events[k] EXCEPT !.person = buyer] ELSE events[k]]

\* One unit more for the first of several leaders, in an event of his or in one
\* more event.
BreakTie(d) ==
    LET leaders == Leaders(Buys(events, a))
        first == Smallest(leaders)
        k == Smallest({i \in 1..N : events[i].kind = "buy" /\ events[i].item = a /\ events[i].person = first})
    IN  IF Cardinality(leaders) = 1 THEN events
        ELSE IF events[k].qty < Limit THEN [events EXCEPT ![k].qty = @ + 1]
        ELSE Append(events, Buy(first, a, 1, d))

\* A return of a by someone else, on the day of a purchase.
CrossPair(other, q) ==
    [k \in 1..N |-> IF k \in (Planted + 1)..(2 * Planted) THEN Return(other, a, q, events[k - Planted].day) ELSE events[k]]

\* A return by a buyer, later, if the calendar goes on.  The seeded mistake goes on
\* without it.
LaterReturnFault(after) ==
    [k \in 1..N |-> IF k \in (2 * Planted + 1)..(3 * Planted)
                    THEN Return(events[k - 2 * Planted].person, a, 1, events[k - 2 * Planted].day + after)
                    ELSE events[k]]
LaterReturn(after) ==
    [k \in 1..N |-> IF k \in (2 * Planted + 1)..(3 * Planted)
                    THEN Return(events[k - 2 * Planted].person, a, 1,
                                Smallest({Days - 1, events[k - 2 * Planted].day + after}))
                    ELSE events[k]]

Make ==
    /\ stage = "drawn"
    /\ stage' = "made"
    /\ \/ /\ type = "lookup_day"
          /\ \E p \in People, q \in Quantities, d \in DaySet : \E buyer \in People \ {p} :
                asked' = p /\ events' = OneHit(p, buyer, q, d)
       \/ /\ type = "top_buyer"
          /\ \E d \in DaySet : events' = BreakTie(d)
          /\ asked' = asked
       \/ /\ type = "same_day_cross"
          /\ \E q \in Quantities : \E other \in People \ {events[1].person} : events' = CrossPair(other, q)
          /\ asked' = asked
       \/ /\ type = "bought_then_returned"
          /\ \E after \in 1..2 : events' = LaterReturn(after)
          /\ asked' = asked
       \/ /\ type \notin {"lookup_day", "top_buyer", "same_day_cross", "bought_then_returned"}
          /\ UNCHANGED <<events, asked>>
    /\ UNCHANGED <<type, extracted, parseFailures, fixed, library, correct>>

-----------------------------------------------------------------------------
(* The policies                                                            *)

\* aggregate of run_sweep.py; any other type is a ValueError.
Aggregate(es) ==
    CASE type = "lookup_day" ->
            LET hits == DaysOf(By(Buys(es, a), asked)) IN IF hits = {} THEN Unknown ELSE Number(Smallest(hits))
      [] type = "count_buyers" -> Number(Cardinality(Who(Buys(es, a))))
      [] type = "both_items" -> Names(Who(Buys(es, a)) \cap Who(Buys(es, b)))
      [] type = "net_units" -> Number(Units(Buys(es, a)) - Units(Returns(es, a)))
      [] type = "bought_then_returned" -> Names(ReturnedLater(es))
      [] OTHER -> Unknown

\* The patterns of answer_eventlog that are found in a question of a type: the
\* one for buyers is found in a question about both items too, with its b.
Found(t) ==
    CASE t = "both_items" -> {"both", "buyers"}
      [] t = "count_buyers" -> {"buyers"}
      [] t = "net_units" -> {"units"}
      [] t = "lookup_day" -> {"lookup"}
      [] t = "bought_then_returned" -> {"later"}
      [] OTHER -> {}
OneItem == IF type = "both_items" THEN b ELSE a

\* The first pattern found.  The seeded mistake tries the one for buyers first.
PatternFault == SelectSeq(<<"lookup", "buyers", "both", "units", "later">>, LAMBDA p : p \in Found(type))
Pattern == SelectSeq(<<"lookup", "both", "buyers", "units", "later">>, LAMBDA p : p \in Found(type))

AnswerEventlog(es) ==
    IF Pattern = <<>> THEN Unknown
    ELSE CASE Head(Pattern) = "buyers" -> Number(Cardinality(Who(Buys(es, OneItem))))
           [] OTHER -> Aggregate(es)

\* The skills that were learned for the held-out questions.  max takes the first
\* of its dictionary, the earliest leader to buy.
AnswerTopBuyer(buys) ==
    IF buys = <<>> THEN Names({})
    ELSE Names({buys[Smallest({i \in DOMAIN buys : buys[i].person \in Leaders(buys)})].person})
AnswerBusiestDay(buys) == IF buys = <<>> THEN Unknown ELSE Number(Smallest(BusyDays(buys)))
AnswerPurchaseSpan(buys) ==
    IF buys = <<>> THEN Number(0) ELSE Number(Greatest(DaysOf(buys)) - Smallest(DaysOf(buys)))
AnswerSameDayCross(es) ==
    IF Buys(es, a) = <<>> \/ Returns(es, a) = <<>> THEN Unknown ELSE Names(CrossDay(es))

Library(es) ==
    CASE type = "top_buyer" -> AnswerTopBuyer(Buys(es, a))
      [] type = "busiest_day" -> AnswerBusiestDay(Buys(es, a))
      [] type = "purchase_span" -> AnswerPurchaseSpan(Buys(es, a))
      [] type = "same_day_cross" -> AnswerSameDayCross(es)
      [] OTHER -> AnswerEventlog(es)

\* A purchase or return as a helper reads it.  The seeded mistake takes over the
\* day of the event, which counts from zero.
ReadFault(e) == e
Read(e) == [e EXCEPT !.day = @ + 1]

\* The chunks, of which lost came back as no array.  The seeded mistake counts
\* only a chunk that gave no text.
CountFault(lost) == 0
Count(lost) == Cardinality(lost)

Events(lost) ==
    LET kept == SelectSeq([k \in DOMAIN events |-> [e |-> events[k], k |-> k]], LAMBDA r : r.k \notin lost /\ r.e.kind # "other")
    IN  [i \in DOMAIN kept |-> Read(kept[i].e)]

\* verify: both sides in their normal form.
Verify(answer) == answer.known /\ answer = Gold(events)

Solve ==
    /\ stage = "made"
    /\ stage' = "graded"
    /\ \E lost \in {{}} \cup {{k} : k \in DOMAIN events} :
          /\ extracted' = Events(lost)
          /\ parseFailures' = Count(lost)
    /\ fixed' = Aggregate(extracted')
    /\ library' = Library(extracted')
    /\ correct' = [fixed |-> Verify(fixed'), library |-> Verify(library')]
    /\ UNCHANGED <<type, asked, events>>

\* What a distractor line may name where an item belongs: dist_item is drawn from
\* a, b and one more item, and b is a person in a question about a day.
Distractors ==
    {<<"item", a>>, <<"item", "other">>}
    \cup (IF type = "both_items" THEN {<<"item", b>>} ELSE {})
    \cup (IF asked # 0 THEN {<<"person", asked>>} ELSE {})

Graded == stage = "graded" /\ UNCHANGED vars

Next == Make \/ Solve \/ Graded
Spec == Init /\ [][Next]_vars

-----------------------------------------------------------------------------
(* Properties                                                              *)

TypeOK ==
    /\ stage \in {"drawn", "made", "graded"}
    /\ type \in Types
    /\ asked \in People \cup {0}
    /\ Len(events) \in N..(N + 1)
    /\ \A k \in DOMAIN events : events[k].qty \in 0..Limit /\ events[k].day \in DaySet
    /\ parseFailures \in Nat

\* OneAnswer: a question has one answer: a purchase to look up, a single
\* top buyer, and a purchase at all; and someone answers the question about
\* pairs (the repairs that make_task makes to its draw).
OneAnswer ==
    stage # "drawn" =>
        /\ Buys(events, a) # <<>>
        /\ type = "lookup_day" => Len(By(Buys(events, a), asked)) = 1
        /\ type = "top_buyer" => Cardinality(Leaders(Buys(events, a))) = 1
        /\ type = "same_day_cross" => CrossDay(events) # {}

\* ExactWhenRead: with every chunk read, the fixed policy is right about each
\* type it takes, and the library about all of them, although three programs
\* compute the answer and days are counted from zero in one of them.
ExactWhenRead ==
    stage = "graded" /\ parseFailures = 0 =>
        /\ type \in QUESTION_TYPES => correct.fixed
        /\ correct.library

\* WrongIsKnown: the fixed policy is never wrong of a question it takes without
\* a failure to parse in its row.
WrongIsKnown ==
    stage = "graded" /\ type \in QUESTION_TYPES /\ ~correct.fixed => parseFailures > 0

\* EveryQuestionType: answer_eventlog alone answers every type of question, as
\* the skill's own summary has it ("exact aggregation in Python for every
\* question type, lookups included", skills/eventlog.py:5).
EveryQuestionType ==
    stage = "graded" /\ parseFailures = 0 => AnswerEventlog(extracted).known

\* DistractorsNameItems: a distractor mentions an item where its template has one
\* ("distractors mention a person and an item", taskgen.py:61).
DistractorsNameItems == \A d \in Distractors : d[1] = "item"

=============================================================================
