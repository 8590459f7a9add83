--------------------------- MODULE StrictJSON ---------------------------
(***************************************************************************)
(* The JSON contract of every boundary, src/src/rlm/json.py: which Python  *)
(* values are strict JSON, and what is read back of what is written.       *)
(*                                                                         *)
(* A value is a graph: containers, known by their identity, hold leaves    *)
(* and containers, the same one several times or one that holds them.  A   *)
(* document is a tree.  Of the leaves only this is kept: whether they can  *)
(* be written (a number that is not finite, a lone surrogate and a foreign *)
(* object cannot).  The depth at which Python's stack ends is left out.    *)
(***************************************************************************)
EXTENDS Naturals, Sequences, FiniteSets, SequencesExt

CONSTANTS
    Ids,            \* identities of the containers
    MaxItems        \* bound on the items of a container

VARIABLES
    heap,           \* the containers of the value; it is the one named Root
    verdict,        \* json_compatibility_error: "none" if it is strict JSON
    document,       \* what strict_json_dumps wrote, or what a peer sent
    decoded,        \* what strict_json_loads made of it
    step

vars == <<heap, verdict, document, decoded, step>>

Root == CHOOSE i \in Ids : TRUE
GoodLeaf == [kind |-> "leaf", good |-> TRUE]
BadLeaf == [kind |-> "leaf", good |-> FALSE]
Ref(i) == [kind |-> "ref", id |-> i]
Nothing == [kind |-> "nothing"]
Children == {GoodLeaf, BadLeaf} \union {Ref(i) : i \in Ids}

\* A key is a text, or something that is no key of JSON.
Keys == {"k", "l", "not a text"}
Index == "index"

Lists == {[kind |-> "list", items |-> s] :
             s \in {[i \in DOMAIN t |-> <<Index, t[i]>>] : t \in BoundedSeq(Children, MaxItems)}}
Dicts == {[kind |-> "dict", items |-> s] :
             s \in {t \in BoundedSeq(Keys \X Children, MaxItems) :
                      \A i, j \in DOMAIN t : t[i][1] = t[j][1] => i = j}}

-----------------------------------------------------------------------------
(* The code                                                                *)

RECURSIVE ErrorOf(_, _)

\* _container_error and _object_error: active holds the containers being
\* visited, and a container leaves it when its items have been.
\* The seeded mistake forgets to remove a container that has been visited:
\* what it holds counts as active for the items after it.
RECURSIVE Held(_, _)
Held(i, active) ==
    {i} \union UNION {IF heap[i].items[n][2].kind = "ref" /\ heap[i].items[n][2].id \notin active
                      THEN Held(heap[i].items[n][2].id, active \union {i}) ELSE {} :
                        n \in DOMAIN heap[i].items}

ItemErrorFault(items, n, active) ==
    LET before == {items[k][2].id : k \in {m \in 1..(n - 1) : items[m][2].kind = "ref"}}
    IN  IF items[n][1] = "not a text" THEN "key"
        ELSE ErrorOf(items[n][2], active \union UNION {Held(i, active) : i \in before})

ItemError(items, n, active) ==
    IF items[n][1] = "not a text" THEN "key" ELSE ErrorOf(items[n][2], active)

\* The first error in the order of the items.
FirstError(items, active) ==
    LET bad == {n \in DOMAIN items : ItemError(items, n, active) # "none"}
    IN  IF bad = {} THEN "none"
        ELSE ItemError(items, CHOOSE n \in bad : \A k \in bad : n <= k, active)

ErrorOf(v, active) ==
    IF v.kind = "leaf" THEN (IF v.good THEN "none" ELSE "leaf")
    ELSE IF v.id \in active THEN "cycle"
    ELSE FirstError(heap[v.id].items, active \union {v.id})

\* json.dumps of a value without error: its unfolding into a tree.
RECURSIVE Written(_)
Written(v) ==
    IF v.kind = "leaf" THEN v
    ELSE [kind |-> heap[v.id].kind,
          items |-> [n \in DOMAIN heap[v.id].items |->
                       <<heap[v.id].items[n][1], Written(heap[v.id].items[n][2])>>]]

\* json.loads: a dictionary keeps the last of the pairs with the same key.
\* The seeded mistake drops the object_pairs_hook.
RefusedFault(t) == FALSE

Refused(t) == t.kind = "dict" /\ \E i, j \in DOMAIN t.items : i # j /\ t.items[i][1] = t.items[j][1]

Pairs(items) ==
    SelectSeq([n \in DOMAIN items |-> <<n, items[n]>>],
              LAMBDA p : \A m \in DOMAIN items : m > p[1] => items[m][1] # p[2][1])
RECURSIVE Read(_)
Read(t) ==
    IF t.kind = "leaf" THEN (IF t.good THEN t ELSE Nothing)
    ELSE IF Refused(t) \/ \E n \in DOMAIN t.items : Read(t.items[n][2]) = Nothing THEN Nothing
    ELSE IF t.kind = "list"
         THEN [kind |-> "list", items |-> [n \in DOMAIN t.items |-> <<Index, Read(t.items[n][2])>>]]
         ELSE [kind |-> "dict",
               items |-> [n \in DOMAIN Pairs(t.items) |->
                            <<Pairs(t.items)[n][2][1], Read(Pairs(t.items)[n][2][2])>>]]

-----------------------------------------------------------------------------
Init ==
    /\ heap \in [Ids -> Lists \union Dicts]
    /\ verdict = "unknown"
    /\ document = Nothing
    /\ decoded = Nothing
    /\ step = "check"

\* The seeded mistake lets a value pass that json.dumps can write although it
\* is no JSON, such as NaN.
CheckFault ==
    /\ step = "check"
    /\ verdict' = ErrorOf(Ref(Root), {})
    /\ step' = IF verdict' \in {"none", "leaf"} THEN "dump" ELSE "end"
    /\ UNCHANGED <<heap, document, decoded>>

Check ==
    /\ step = "check"
    /\ verdict' = ErrorOf(Ref(Root), {})
    /\ step' = IF verdict' = "none" THEN "dump" ELSE "end"
    /\ UNCHANGED <<heap, document, decoded>>

\* strict_json_dumps raises on an error, and writes the value otherwise.
Dump ==
    /\ step = "dump"
    /\ document' = Written(Ref(Root))
    /\ step' = "load"
    /\ UNCHANGED <<heap, verdict, decoded>>

\* A peer's document is like ours but may repeat a key.
Repeated(t) ==
    {t} \union IF t.kind # "dict" THEN {}
               ELSE {[t EXCEPT !.items = Append(@, <<t.items[n][1], GoodLeaf>>)] : n \in DOMAIN t.items}

Load ==
    /\ step = "load"
    /\ \E t \in Repeated(document) :
          /\ document' = t
          /\ decoded' = Read(t)
    /\ step' = "end"
    /\ UNCHANGED <<heap, verdict>>

Next == Check \/ Dump \/ Load

Spec == Init /\ [][Next]_vars

-----------------------------------------------------------------------------
(* Properties                                                              *)

HeldBy(i) == {heap[i].items[n][2].id : n \in {m \in DOMAIN heap[i].items : heap[i].items[m][2].kind = "ref"}}

\* What can be reached from the value, from the definition of reachability.
Closed(S) == \A i \in S : HeldBy(i) \subseteq S
Reachable(i) == CHOOSE S \in SUBSET Ids : HeldBy(i) \subseteq S /\ Closed(S)
                  /\ \A T \in SUBSET Ids : HeldBy(i) \subseteq T /\ Closed(T) => S \subseteq T
Visited == {Root} \union Reachable(Root)

TypeOK ==
    /\ verdict \in {"unknown", "none", "leaf", "key", "cycle"}
    /\ step \in {"dump", "load"} => verdict = "none"
    /\ step = "load" => document.kind \in {"list", "dict"}
    /\ step = "end" /\ verdict = "none" => document # Nothing

\* A value is refused exactly when some container it reaches holds itself, or
\* an item or key that cannot be written.  One that is only held twice is not.
VerdictExact ==
    verdict # "unknown" =>
       (verdict = "none" <=>
          \A i \in Visited :
             /\ i \notin Reachable(i)
             /\ \A n \in DOMAIN heap[i].items : heap[i].items[n][1] # "not a text"
                                                /\ heap[i].items[n][2] # BadLeaf)

\* What is accepted of a document is all of it: nothing that was written is
\* dropped on reading, and a document that says two things of a key is refused.
NothingDropped ==
    step = "end" /\ verdict = "none" =>
       decoded = IF document = Written(Ref(Root)) THEN document ELSE Nothing
=============================================================================
