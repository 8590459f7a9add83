-------------------------- MODULE RunLedgerProofs --------------------------
(***************************************************************************)
(* Proofs about RunLedger, for every number of callers and every limit     *)
(* that RunLimits admits.                                                  *)
(*                                                                         *)
(* The slot properties are counts of callers in a part of the call; the    *)
(* one fact about counting that each step needs is CountMoves.             *)
(***************************************************************************)
EXTENDS RunLedger, FiniteSetTheorems, TLAPS

\* A caller that joins a set of callers, or leaves it, changes its size by one.
LEMMA CountMoves ==
    ASSUME NEW A \in SUBSET Threads, NEW t \in Threads
    PROVE  /\ Cardinality(A) \in Nat
           /\ t \notin A => Cardinality(A \cup {t}) = Cardinality(A) + 1
           /\ t \in A => Cardinality(A \ {t}) = Cardinality(A) - 1
<1>1. IsFiniteSet(A)
    BY ThreadsAssumption, FS_Subset
<1>2. Cardinality(A) \in Nat
    BY <1>1, FS_CardinalityType
<1>3. ASSUME t \notin A
      PROVE  Cardinality(A \cup {t}) = Cardinality(A) + 1
    BY <1>1, <1>3, FS_AddElement
<1>4. ASSUME t \in A
      PROVE  Cardinality(A \ {t}) = Cardinality(A) - 1
    BY <1>1, <1>4, FS_RemoveElement
<1> QED  BY <1>2, <1>3, <1>4

\* What moving a caller does to the three counts of the invariants.
LEMMA GotoCounts ==
    ASSUME TypeOK, NEW t \in Threads, NEW from \in Where, NEW to \in Where,
           Goto(t, from, to)
    PROVE  /\ pc' \in [Threads -> Where]
           /\ pc[t] = from
           /\ \A u \in Threads : pc'[u] = IF u = t THEN to ELSE pc[u]
           /\ Cardinality(Holders) \in Nat /\ Cardinality(Holders)' \in Nat
           /\ Cardinality(Entered) \in Nat /\ Cardinality(Entered)' \in Nat
           /\ Cardinality(Open) \in Nat /\ Cardinality(Open)' \in Nat
           /\ to \in WithPermit /\ from \notin WithPermit =>
                Cardinality(Holders)' = Cardinality(Holders) + 1
           /\ to \notin WithPermit /\ from \in WithPermit =>
                Cardinality(Holders)' = Cardinality(Holders) - 1
           /\ (to \in WithPermit <=> from \in WithPermit) => Holders' = Holders
           /\ to \in InSlot /\ from \notin InSlot =>
                /\ Entered' = Entered \cup {t}
                /\ Cardinality(Entered)' = Cardinality(Entered) + 1
           /\ to \notin InSlot /\ from \in InSlot =>
                /\ Entered' = Entered \ {t}
                /\ Cardinality(Entered)' = Cardinality(Entered) - 1
           /\ (to \in InSlot <=> from \in InSlot) => Entered' = Entered
           /\ to \in InCall /\ from \notin InCall =>
                /\ Open' = Open \cup {t}
                /\ Cardinality(Open)' = Cardinality(Open) + 1
           /\ to \notin InCall /\ from \in InCall =>
                /\ Open' = Open \ {t}
                /\ Cardinality(Open)' = Cardinality(Open) - 1
           /\ (to \in InCall <=> from \in InCall) => Open' = Open
<1>1. /\ pc \in [Threads -> Where] /\ pc' \in [Threads -> Where]
      /\ pc' = [pc EXCEPT ![t] = to] /\ pc[t] = from
      /\ \A u \in Threads : pc'[u] = IF u = t THEN to ELSE pc[u]
    BY DEF TypeOK, Goto
<1>2. /\ Cardinality(Holders) \in Nat /\ Cardinality(Holders)' \in Nat
      /\ to \in WithPermit /\ from \notin WithPermit =>
            Cardinality(Holders)' = Cardinality(Holders) + 1
      /\ to \notin WithPermit /\ from \in WithPermit =>
            Cardinality(Holders)' = Cardinality(Holders) - 1
      /\ (to \in WithPermit <=> from \in WithPermit) => Holders' = Holders
    <2>1. Holders \in SUBSET Threads /\ Holders' \in SUBSET Threads
        BY DEF Holders
    <2>2. to \in WithPermit /\ from \notin WithPermit =>
              t \notin Holders /\ Holders' = Holders \cup {t}
        BY <1>1 DEF Holders
    <2>3. to \notin WithPermit /\ from \in WithPermit =>
              t \in Holders /\ Holders' = Holders \ {t}
        BY <1>1 DEF Holders
    <2>4. (to \in WithPermit <=> from \in WithPermit) => Holders' = Holders
        BY <1>1 DEF Holders
    <2> QED  BY <2>1, <2>2, <2>3, <2>4, CountMoves
<1>3. /\ Cardinality(Entered) \in Nat /\ Cardinality(Entered)' \in Nat
      /\ to \in InSlot /\ from \notin InSlot =>
            /\ Entered' = Entered \cup {t}
            /\ Cardinality(Entered)' = Cardinality(Entered) + 1
      /\ to \notin InSlot /\ from \in InSlot =>
            /\ Entered' = Entered \ {t}
            /\ Cardinality(Entered)' = Cardinality(Entered) - 1
      /\ (to \in InSlot <=> from \in InSlot) => Entered' = Entered
    <2>1. Entered \in SUBSET Threads /\ Entered' \in SUBSET Threads
        BY DEF Entered
    <2>2. to \in InSlot /\ from \notin InSlot =>
              t \notin Entered /\ Entered' = Entered \cup {t}
        BY <1>1 DEF Entered
    <2>3. to \notin InSlot /\ from \in InSlot =>
              t \in Entered /\ Entered' = Entered \ {t}
        BY <1>1 DEF Entered
    <2>4. (to \in InSlot <=> from \in InSlot) => Entered' = Entered
        BY <1>1 DEF Entered
    <2> QED  BY <2>1, <2>2, <2>3, <2>4, CountMoves
<1>4. /\ Cardinality(Open) \in Nat /\ Cardinality(Open)' \in Nat
      /\ to \in InCall /\ from \notin InCall =>
            /\ Open' = Open \cup {t}
            /\ Cardinality(Open)' = Cardinality(Open) + 1
      /\ to \notin InCall /\ from \in InCall =>
            /\ Open' = Open \ {t}
            /\ Cardinality(Open)' = Cardinality(Open) - 1
      /\ (to \in InCall <=> from \in InCall) => Open' = Open
    <2>1. Open \in SUBSET Threads /\ Open' \in SUBSET Threads
        BY DEF Open
    <2>2. to \in InCall /\ from \notin InCall =>
              t \notin Open /\ Open' = Open \cup {t}
        BY <1>1 DEF Open
    <2>3. to \notin InCall /\ from \in InCall =>
              t \in Open /\ Open' = Open \ {t}
        BY <1>1 DEF Open
    <2>4. (to \in InCall <=> from \in InCall) => Open' = Open
        BY <1>1 DEF Open
    <2> QED  BY <2>1, <2>2, <2>3, <2>4, CountMoves
<1> QED  BY <1>1, <1>2, <1>3, <1>4

-----------------------------------------------------------------------------
(* The inductive invariant                                                 *)

\* NoLateSuccess with what keeps it: an answer is stamped with a tick that has
\* come, it is recorded only if stamped in time, and no call is already ok.
Punctual ==
    /\ \A t \in Threads : arrived[t] <= clock
    /\ \A t \in Threads : pc[t] = "recording" => arrived[t] < Deadline
    /\ \A t \in Threads : pc[t] # "idle" => outcome[t] # "ok"
    /\ NoLateSuccess

LedgerInv ==
    /\ TypeOK
    /\ PermitsConserved
    /\ CeilingHeld
    /\ StatsAcceptable
    /\ Punctual

\* The invariant holds when the ledger is created: no caller is anywhere.
LEMMA InitEstablishes == Init => LedgerInv
<1> SUFFICES ASSUME Init PROVE LedgerInv
    OBVIOUS
<1>1. Holders = {} /\ Entered = {} /\ Open = {}
    BY DEF Init, Holders, Entered, Open, WithPermit, InSlot, InCall
<1>2. Cardinality(Holders) = 0 /\ Cardinality(Entered) = 0 /\ Cardinality(Open) = 0
    BY <1>1, FS_EmptySet
<1>3. TypeOK
    BY LimitsAssumption
    DEF Init, LedgerInit, TypeOK, LedgerTypeOK, Where, Outcomes
<1>4. PermitsConserved /\ CeilingHeld /\ StatsAcceptable
    BY <1>2, LimitsAssumption
    DEF Init, LedgerInit, PermitsConserved, CeilingHeld, StatsAcceptable
<1>5. Punctual
    BY LimitsAssumption DEF Init, LedgerInit, Punctual, NoLateSuccess
<1> QED  BY <1>3, <1>4, <1>5 DEF LedgerInv

\* A step that touches neither the ledger nor the counts.
LEMMA MovePreserves ==
    ASSUME LedgerInv, NEW t \in Threads, NEW from \in InCall, NEW to \in InCall,
           from \in WithPermit <=> to \in WithPermit,
           from \in InSlot <=> to \in InSlot,
           to = "recording" => ~Expired,
           Move(t, from, to)
    PROVE  LedgerInv'
<1> USE DEF LedgerInv
<1>0. from \in Where /\ to \in Where /\ Goto(t, from, to)
    BY DEF InCall, Move
<1>1. /\ pc' \in [Threads -> Where] /\ pc[t] = from
      /\ \A u \in Threads : pc'[u] = IF u = t THEN to ELSE pc[u]
      /\ Holders' = Holders /\ Entered' = Entered /\ Open' = Open
    BY <1>0, GotoCounts
<1>2. UNCHANGED <<ledgerVars, wait, outcome, arrived>>
    BY DEF Move
<1>3. TypeOK'
    BY <1>1, <1>2 DEF TypeOK, LedgerTypeOK, ledgerVars, counters
<1>4. PermitsConserved' /\ CeilingHeld' /\ StatsAcceptable'
    BY <1>1, <1>2 DEF PermitsConserved, CeilingHeld, StatsAcceptable, ledgerVars, counters
<1>5. Punctual'
    BY <1>1, <1>2, LimitsAssumption
    DEF Punctual, NoLateSuccess, Expired, ledgerVars, counters, TypeOK, LedgerTypeOK, InCall
<1> QED  BY <1>3, <1>4, <1>5

\* A call that fails where it holds no permit.
LEMMA FailPreserves ==
    ASSUME LedgerInv, NEW t \in Threads, NEW from \in Where \ WithPermit,
           NEW error \in Outcomes \ {"ok"},
           FailCall(t, from, error)
    PROVE  LedgerInv'
<1> USE DEF LedgerInv
<1>0. /\ from \in Where /\ "idle" \in Where /\ Goto(t, from, "idle")
      /\ from \notin WithPermit /\ from \notin InSlot
      /\ "idle" \notin WithPermit /\ "idle" \notin InSlot /\ "idle" \notin InCall
    BY DEF FailCall, Where, WithPermit, InSlot, InCall
<1>1. /\ pc' \in [Threads -> Where] /\ pc[t] = from
      /\ \A u \in Threads : pc'[u] = IF u = t THEN "idle" ELSE pc[u]
      /\ Holders' = Holders /\ Entered' = Entered
      /\ Cardinality(Open) \in Nat /\ Cardinality(Open)' \in Nat
      /\ Cardinality(Open)' <= Cardinality(Open)
    <2>1. CASE from \in InCall
        BY <1>0, <2>1, GotoCounts
    <2>2. CASE from \notin InCall
        BY <1>0, <2>2, GotoCounts
    <2> QED  BY <2>1, <2>2
<1>2. /\ UNCHANGED <<ledgerVars, wait, arrived>>
      /\ outcome' = [outcome EXCEPT ![t] = error]
    BY DEF FailCall, Raise
<1>3. TypeOK'
    BY <1>1, <1>2 DEF TypeOK, LedgerTypeOK, ledgerVars, counters
<1>4. PermitsConserved' /\ CeilingHeld'
    BY <1>1, <1>2 DEF PermitsConserved, CeilingHeld, ledgerVars, counters
<1>5. StatsAcceptable'
    BY <1>1, <1>2, LimitsAssumption
    DEF StatsAcceptable, ledgerVars, counters, TypeOK, LedgerTypeOK
<1>6. Punctual'
    BY <1>1, <1>2 DEF Punctual, NoLateSuccess, ledgerVars, counters, TypeOK
<1> QED  BY <1>3, <1>4, <1>5, <1>6
\* A reserved call is open from here on: both sides of StatsAcceptable grow.
LEMMA BeginCallPreserves ==
    ASSUME LedgerInv, NEW t \in Threads, BeginCall(t)
    PROVE  LedgerInv'
<1> USE DEF LedgerInv
<1>0. /\ "idle" \in Where /\ "reserved" \in Where /\ Goto(t, "idle", "reserved")
      /\ "idle" \notin WithPermit \cup InSlot \cup InCall
      /\ "reserved" \notin WithPermit \cup InSlot /\ "reserved" \in InCall
    BY DEF BeginCall, Where, WithPermit, InSlot, InCall
<1>1. /\ pc' \in [Threads -> Where]
      /\ \A u \in Threads : pc'[u] = IF u = t THEN "reserved" ELSE pc[u]
      /\ Holders' = Holders /\ Entered' = Entered
      /\ Cardinality(Open) \in Nat /\ Cardinality(Open)' = Cardinality(Open) + 1
    BY <1>0, GotoCounts
<1>2. /\ ~Expired /\ modelCalls < MaxModelCalls /\ modelCalls' = modelCalls + 1
      /\ UNCHANGED <<clock, subcalls, permits, active, peak, tokens, unreported, wait>>
      /\ outcome' = [outcome EXCEPT ![t] = "pending"]
      /\ arrived' = [arrived EXCEPT ![t] = 0]
    BY DEF BeginCall, CanReserveModelCall, ReserveModelCall, Raise
<1>3. TypeOK'
    BY <1>1, <1>2 DEF TypeOK, LedgerTypeOK, Outcomes
<1>4. PermitsConserved' /\ CeilingHeld'
    BY <1>1, <1>2 DEF PermitsConserved, CeilingHeld
<1>5. StatsAcceptable'
    BY <1>1, <1>2, LimitsAssumption DEF StatsAcceptable, TypeOK, LedgerTypeOK
<1>6. Punctual'
    BY <1>1, <1>2 DEF Punctual, NoLateSuccess, TypeOK, LedgerTypeOK
<1> QED  BY <1>3, <1>4, <1>5, <1>6

\* ReadRemaining and BeginWait only write the caller's wait.
LEMMA WaitPreserves ==
    ASSUME LedgerInv, NEW t \in Threads, NEW n \in Nat,
           NEW from \in InCall \ WithPermit, NEW to \in InCall \ WithPermit,
           to # "recording", Goto(t, from, to), wait' = [wait EXCEPT ![t] = n],
           UNCHANGED <<ledgerVars, outcome, arrived>>
    PROVE  LedgerInv'
<1> USE DEF LedgerInv
<1>0. from \in Where /\ to \in Where /\ from \notin InSlot /\ to \notin InSlot
    BY DEF InCall, WithPermit
<1>1. /\ pc' \in [Threads -> Where] /\ pc[t] = from
      /\ \A u \in Threads : pc'[u] = IF u = t THEN to ELSE pc[u]
      /\ Holders' = Holders /\ Entered' = Entered /\ Open' = Open
    BY <1>0, GotoCounts
<1>2. TypeOK'
    BY <1>1 DEF TypeOK, LedgerTypeOK, ledgerVars, counters
<1>3. PermitsConserved' /\ CeilingHeld' /\ StatsAcceptable'
    BY <1>1 DEF PermitsConserved, CeilingHeld, StatsAcceptable, ledgerVars, counters
<1>4. Punctual'
    BY <1>1 DEF Punctual, NoLateSuccess, ledgerVars, counters, TypeOK, InCall
<1> QED  BY <1>2, <1>3, <1>4

\* The permit leaves the semaphore and reaches a holder in the same step.
LEMMA AcquirePreserves ==
    ASSUME LedgerInv, NEW t \in Threads, NEW from \in InCall \ WithPermit,
           Acquire(t, from)
    PROVE  LedgerInv'
<1> USE DEF LedgerInv
<1>0. /\ from \in Where /\ from \notin WithPermit /\ from \notin InSlot
      /\ "acquired" \in Where /\ "acquired" \in WithPermit /\ "acquired" \notin InSlot
      /\ from \in InCall /\ "acquired" \in InCall /\ Goto(t, from, "acquired")
    BY DEF Acquire, Where, WithPermit, InSlot, InCall
<1>1. /\ pc' \in [Threads -> Where] /\ pc[t] = from
      /\ \A u \in Threads : pc'[u] = IF u = t THEN "acquired" ELSE pc[u]
      /\ Cardinality(Holders) \in Nat
      /\ Cardinality(Holders)' = Cardinality(Holders) + 1
      /\ Entered' = Entered /\ Open' = Open
    BY <1>0, GotoCounts
<1>2. /\ permits > 0 /\ permits' = permits - 1
      /\ UNCHANGED <<clock, modelCalls, subcalls, active, peak, tokens, unreported,
                     wait, outcome, arrived>>
    BY DEF Acquire, TakePermit
<1>3. TypeOK'
    BY <1>1, <1>2 DEF TypeOK, LedgerTypeOK
<1>4. PermitsConserved'
    BY <1>1, <1>2, LimitsAssumption DEF PermitsConserved, TypeOK, LedgerTypeOK
<1>5. CeilingHeld' /\ StatsAcceptable'
    BY <1>1, <1>2 DEF CeilingHeld, StatsAcceptable
<1>6. Punctual'
    BY <1>0, <1>1, <1>2 DEF Punctual, NoLateSuccess, InCall
<1> QED  BY <1>3, <1>4, <1>5, <1>6

\* The step that raises the active count: the caller already holds a permit and
\* is not among the callers that count, so the count was below the ceiling.
LEMMA EnterPreserves ==
    ASSUME LedgerInv, NEW t \in Threads, EnterSlot, Goto(t, "acquired", "entered"),
           UNCHANGED <<wait, outcome, arrived>>
    PROVE  LedgerInv'
<1> USE DEF LedgerInv
<1>0. /\ "acquired" \in Where /\ "entered" \in Where
      /\ "acquired" \in WithPermit /\ "entered" \in WithPermit
      /\ "acquired" \notin InSlot /\ "entered" \in InSlot
      /\ "acquired" \in InCall /\ "entered" \in InCall
    BY DEF Where, WithPermit, InSlot, InCall
<1>1. /\ pc' \in [Threads -> Where] /\ pc[t] = "acquired"
      /\ \A u \in Threads : pc'[u] = IF u = t THEN "entered" ELSE pc[u]
      /\ Holders' = Holders /\ Open' = Open
      /\ Cardinality(Holders) \in Nat /\ Cardinality(Entered) \in Nat
      /\ Cardinality(Entered)' = Cardinality(Entered) + 1
      /\ Entered' = Entered \cup {t}
    BY <1>0, GotoCounts
<1>2. /\ active' = active + 1
      /\ peak' = IF active + 1 > peak THEN active + 1 ELSE peak
      /\ UNCHANGED <<clock, modelCalls, subcalls, permits, tokens, unreported,
                     wait, outcome, arrived>>
    BY DEF EnterSlot
<1>3. Cardinality(Entered)' <= Cardinality(Holders)
    <2>1. Holders \in SUBSET Threads /\ Entered' \in SUBSET Holders
        BY <1>0, <1>1 DEF Holders, Entered, WithPermit
    <2> QED  BY <2>1, ThreadsAssumption, FS_Subset
<1>4. TypeOK'
    BY <1>1, <1>2 DEF TypeOK, LedgerTypeOK
<1>5. PermitsConserved' /\ StatsAcceptable'
    BY <1>1, <1>2 DEF PermitsConserved, StatsAcceptable
<1>6. CeilingHeld'
    <2>1. active' <= MaxParallel
        BY <1>1, <1>2, <1>3, LimitsAssumption
        DEF PermitsConserved, CeilingHeld, TypeOK, LedgerTypeOK
    <2>2. active' = Cardinality(Entered)' /\ active' <= peak' /\ peak' <= MaxParallel
        BY <1>1, <1>2, <2>1, LimitsAssumption DEF CeilingHeld, TypeOK, LedgerTypeOK
    <2> QED  BY <2>2 DEF CeilingHeld
<1>7. Punctual'
    BY <1>1, <1>2 DEF Punctual, NoLateSuccess
<1> QED  BY <1>4, <1>5, <1>6, <1>7
\* A refusal or an answer while the caller holds its permit: it is on its way
\* out but still counted.
LEMMA AnswerPreserves ==
    ASSUME LedgerInv, NEW t \in Threads,
           NEW from \in WithPermit, NEW to \in WithPermit,
           from \in InSlot <=> to \in InSlot, Goto(t, from, to),
           NEW error \in Outcomes \ {"ok"},
           \/ UNCHANGED outcome
           \/ outcome' = [outcome EXCEPT ![t] = error],
           \/ UNCHANGED arrived
           \/ arrived' = [arrived EXCEPT ![t] = clock],
           UNCHANGED <<ledgerVars, wait>>
    PROVE  LedgerInv'
<1> USE DEF LedgerInv
<1>0. /\ from \in Where /\ to \in Where /\ from \in InCall /\ to \in InCall
      /\ to # "recording" /\ from # "idle"
    BY DEF Where, WithPermit, InSlot, InCall
<1>1. /\ pc' \in [Threads -> Where] /\ pc[t] = from
      /\ \A u \in Threads : pc'[u] = IF u = t THEN to ELSE pc[u]
      /\ Holders' = Holders /\ Entered' = Entered /\ Open' = Open
    BY <1>0, GotoCounts
<1>2. TypeOK'
    BY <1>1 DEF TypeOK, LedgerTypeOK, ledgerVars, counters
<1>3. PermitsConserved' /\ CeilingHeld' /\ StatsAcceptable'
    BY <1>1 DEF PermitsConserved, CeilingHeld, StatsAcceptable, ledgerVars, counters
<1>4. Punctual'
    <2>1. \A u \in Threads : outcome'[u] = outcome[u] \/ (u = t /\ outcome'[u] # "ok")
        BY DEF TypeOK
    <2>2. \A u \in Threads : arrived'[u] = arrived[u] \/ (u = t /\ arrived'[u] = clock)
        BY DEF TypeOK
    <2>3. outcome[t] # "ok" /\ outcome'[t] # "ok"
        BY <1>0, <1>1, <2>1 DEF Punctual
    <2>4. clock \in Nat /\ clock' = clock
        BY DEF TypeOK, LedgerTypeOK, ledgerVars
    <2> QED  BY <1>0, <1>1, <2>1, <2>2, <2>3, <2>4 DEF Punctual, NoLateSuccess
<1> QED  BY <1>2, <1>3, <1>4

\* The active count falls with the caller that leaves, and cannot be zero then.
LEMMA ExitPreserves ==
    ASSUME LedgerInv, NEW t \in Threads, ExitSlot(t)
    PROVE  LedgerInv'
<1> USE DEF LedgerInv
<1>0. /\ "exiting" \in Where /\ "releasing" \in Where /\ Goto(t, "exiting", "releasing")
      /\ "exiting" \in WithPermit /\ "releasing" \in WithPermit
      /\ "exiting" \in InSlot /\ "releasing" \notin InSlot
      /\ "exiting" \in InCall /\ "releasing" \in InCall
    BY DEF ExitSlot, Where, WithPermit, InSlot, InCall
<1>1. /\ pc' \in [Threads -> Where] /\ pc[t] = "exiting"
      /\ \A u \in Threads : pc'[u] = IF u = t THEN "releasing" ELSE pc[u]
      /\ Holders' = Holders /\ Open' = Open
      /\ Cardinality(Entered) \in Nat /\ Cardinality(Entered)' \in Nat
      /\ Cardinality(Entered)' = Cardinality(Entered) - 1
    BY <1>0, GotoCounts
<1>2. /\ active' = active - 1
      /\ UNCHANGED <<clock, modelCalls, subcalls, permits, peak, tokens, unreported,
                     wait, outcome, arrived>>
    BY DEF ExitSlot, LeaveSlot
<1>3. active' = Cardinality(Entered)'
    BY <1>1, <1>2 DEF CeilingHeld
<1>4. TypeOK'
    BY <1>1, <1>2, <1>3 DEF TypeOK, LedgerTypeOK
<1>5. PermitsConserved' /\ StatsAcceptable'
    BY <1>1, <1>2 DEF PermitsConserved, StatsAcceptable
<1>6. CeilingHeld'
    BY <1>2, <1>3 DEF CeilingHeld, TypeOK, LedgerTypeOK
<1>7. Punctual'
    BY <1>1, <1>2 DEF Punctual, NoLateSuccess
<1> QED  BY <1>4, <1>5, <1>6, <1>7

\* The permit goes back whether the caller carries a response or an exception.
LEMMA ReleasePreserves ==
    ASSUME LedgerInv, NEW t \in Threads, ReleaseSlot(t)
    PROVE  LedgerInv'
<1> USE DEF LedgerInv
<1> DEFINE to == IF outcome[t] = "pending" THEN "returned" ELSE "idle"
<1>0. /\ "releasing" \in Where /\ to \in Where /\ Goto(t, "releasing", to)
      /\ "releasing" \in WithPermit /\ to \notin WithPermit
      /\ "releasing" \notin InSlot /\ to \notin InSlot
      /\ "releasing" \in InCall /\ to # "recording"
    BY DEF ReleaseSlot, Where, WithPermit, InSlot, InCall
<1> HIDE DEF to
<1>1. /\ pc' \in [Threads -> Where] /\ pc[t] = "releasing"
      /\ \A u \in Threads : pc'[u] = IF u = t THEN to ELSE pc[u]
      /\ Cardinality(Holders) \in Nat /\ Cardinality(Holders)' \in Nat
      /\ Cardinality(Holders)' = Cardinality(Holders) - 1
      /\ Entered' = Entered
      /\ Cardinality(Open) \in Nat /\ Cardinality(Open)' \in Nat
      /\ Cardinality(Open)' <= Cardinality(Open)
    <2>1. CASE to \in InCall
        BY <1>0, <2>1, GotoCounts
    <2>2. CASE to \notin InCall
        BY <1>0, <2>2, GotoCounts
    <2> QED  BY <2>1, <2>2
<1>2. /\ permits' = permits + 1
      /\ UNCHANGED <<clock, modelCalls, subcalls, active, peak, tokens, unreported,
                     wait, outcome, arrived>>
    BY DEF ReleaseSlot, ReleasePermit
<1>3. TypeOK'
    BY <1>1, <1>2 DEF TypeOK, LedgerTypeOK
<1>4. PermitsConserved'
    BY <1>1, <1>2, LimitsAssumption DEF PermitsConserved, TypeOK, LedgerTypeOK
<1>5. CeilingHeld'
    BY <1>1, <1>2 DEF CeilingHeld
<1>6. StatsAcceptable'
    BY <1>1, <1>2, LimitsAssumption DEF StatsAcceptable, TypeOK, LedgerTypeOK
<1>7. Punctual'
    BY <1>0, <1>1, <1>2 DEF Punctual, NoLateSuccess
<1> QED  BY <1>3, <1>4, <1>5, <1>6, <1>7

\* An unreported response is counted by the step that closes its call.
LEMMA RecordPreserves ==
    ASSUME LedgerInv, NEW t \in Threads, NEW u \in Usages, RecordUsage(t, u)
    PROVE  LedgerInv'
<1> USE DEF LedgerInv
<1>0. /\ "recording" \in Where /\ "idle" \in Where /\ Goto(t, "recording", "idle")
      /\ "recording" \notin WithPermit /\ "idle" \notin WithPermit
      /\ "recording" \notin InSlot /\ "idle" \notin InSlot
      /\ "recording" \in InCall /\ "idle" \notin InCall
    BY DEF RecordUsage, Where, WithPermit, InSlot, InCall
<1>1. /\ pc' \in [Threads -> Where] /\ pc[t] = "recording"
      /\ \A v \in Threads : pc'[v] = IF v = t THEN "idle" ELSE pc[v]
      /\ Holders' = Holders /\ Entered' = Entered
      /\ Cardinality(Open) \in Nat /\ Cardinality(Open)' \in Nat
      /\ Cardinality(Open)' = Cardinality(Open) - 1
    BY <1>0, GotoCounts
<1>2. /\ UNCHANGED <<clock, modelCalls, subcalls, permits, active, peak, wait, arrived>>
      /\ tokens' = tokens \/ tokens' = tokens + u.size
      /\ \/ unreported' = unreported
         \/ unreported' = unreported + 1 /\ ~TokenBudgeted
      /\ outcome' \in [Threads -> Outcomes]
      /\ \A v \in Threads : v # t => outcome'[v] = outcome[v]
    BY DEF RecordUsage, RecordResponse, Accepted, Raise, RecordError, OverBudget,
           TypeOK, Outcomes, Usages
<1>3. u.size \in Nat
    <2>1. CASE u \in [kind : {"reported"}, size : UsageSizes]
        BY <2>1, LimitsAssumption
    <2>2. CASE u \in [kind : {"unreported", "malformed"}, size : {0}]
        BY <2>2
    <2> QED  BY <2>1, <2>2 DEF Usages
<1>4. TypeOK'
    BY <1>1, <1>2, <1>3 DEF TypeOK, LedgerTypeOK
<1>5. PermitsConserved' /\ CeilingHeld'
    BY <1>1, <1>2 DEF PermitsConserved, CeilingHeld
<1>6. StatsAcceptable'
    BY <1>1, <1>2, LimitsAssumption DEF StatsAcceptable, TypeOK, LedgerTypeOK
<1>7. Punctual'
    BY <1>1, <1>2 DEF Punctual, NoLateSuccess
<1> QED  BY <1>4, <1>5, <1>6, <1>7

\* The clock is in no part of the invariant but its type: an answer that
\* arrived in time arrived in time.
LEMMA TickPreserves ==
    ASSUME LedgerInv, Tick
    PROVE  LedgerInv'
<1> USE DEF LedgerInv
<1>1. /\ clock \in Nat /\ clock' = clock + 1
      /\ UNCHANGED <<modelCalls, subcalls, permits, active, peak, tokens, unreported,
                     pc, wait, outcome, arrived>>
      /\ Holders' = Holders /\ Entered' = Entered /\ Open' = Open
    BY DEF Tick, counters, TypeOK, LedgerTypeOK, Holders, Entered, Open
<1>2. TypeOK'
    BY <1>1 DEF TypeOK, LedgerTypeOK
<1>3. PermitsConserved' /\ CeilingHeld' /\ StatsAcceptable'
    BY <1>1 DEF PermitsConserved, CeilingHeld, StatsAcceptable
<1>4. Punctual'
    BY <1>1 DEF Punctual, NoLateSuccess, TypeOK
<1> QED  BY <1>2, <1>3, <1>4

\* reserve_subcalls stays within its limit and touches nothing else.
LEMMA BatchPreserves ==
    ASSUME LedgerInv, NEW t \in Threads, NEW n \in BatchSizes, ReserveBatch(t, n)
    PROVE  LedgerInv'
<1> USE DEF LedgerInv
<1>1. /\ subcalls' = subcalls + n /\ subcalls' <= MaxSubcalls
      /\ UNCHANGED <<clock, modelCalls, permits, active, peak, tokens, unreported,
                     pc, wait, outcome, arrived>>
      /\ Holders' = Holders /\ Entered' = Entered /\ Open' = Open
    BY DEF ReserveBatch, CanReserveSubcalls, ReserveSubcalls, Holders, Entered, Open
<1>2. TypeOK'
    BY <1>1, BatchSizesAssumption DEF TypeOK, LedgerTypeOK
<1>3. PermitsConserved' /\ CeilingHeld' /\ StatsAcceptable'
    BY <1>1 DEF PermitsConserved, CeilingHeld, StatsAcceptable
<1>4. Punctual'
    BY <1>1 DEF Punctual, NoLateSuccess
<1> QED  BY <1>2, <1>3, <1>4

\* Each step of the runtime keeps the invariant, by the lemma of its shape.
LEMMA RuntimePreserves ==
    ASSUME LedgerInv, NEW t \in Threads, RuntimeStep(t)
    PROVE  LedgerInv'
<1> USE DEF Where, WithPermit, InSlot, InCall, Outcomes
<1>1. CASE CheckSlot(t)
    BY <1>1, MovePreserves, FailPreserves DEF CheckSlot
<1>2. CASE ReadRemaining(t)
    <2>1. Remaining \in Nat
        BY LimitsAssumption DEF Remaining, Expired, LedgerInv, TypeOK, LedgerTypeOK
    <2> QED  BY <1>2, <2>1, WaitPreserves DEF ReadRemaining
<1>3. CASE AcquireAtOnce(t)
    BY <1>3, AcquirePreserves DEF AcquireAtOnce
<1>4. CASE BeginWait(t)
    <2> DEFINE n == IF clock + wait[t] < MaxClock THEN clock + wait[t] ELSE MaxClock
    <2>1. n \in Nat
        BY MaxClockAssumption DEF LedgerInv, TypeOK, LedgerTypeOK
    <2> QED  BY <1>4, <2>1, WaitPreserves DEF BeginWait
<1>5. CASE AcquireAfterWait(t)
    BY <1>5, AcquirePreserves DEF AcquireAfterWait
<1>6. CASE WaitTimeout(t)
    BY <1>6, FailPreserves DEF WaitTimeout
<1>7. CASE EnterOrExpire(t)
    BY <1>7, EnterPreserves, AnswerPreserves DEF EnterOrExpire, Raise
<1>8. CASE StartBackend(t)
    BY <1>8, MovePreserves, AnswerPreserves DEF StartBackend, Raise
<1>9. CASE ExitSlot(t)
    BY <1>9, ExitPreserves
<1>10. CASE ReleaseSlot(t)
    BY <1>10, ReleasePreserves
<1>11. CASE RecheckDeadline(t)
    BY <1>11, MovePreserves, FailPreserves DEF RecheckDeadline
<1>12. CASE \E u \in Usages : RecordUsage(t, u)
    BY <1>12, RecordPreserves
<1> QED  BY <1>1, <1>2, <1>3, <1>4, <1>5, <1>6, <1>7, <1>8, <1>9, <1>10, <1>11, <1>12
         DEF RuntimeStep

\* Every step keeps the invariant: the runtime, the backend and the clock.
LEMMA NextPreserves == LedgerInv /\ [Next]_vars => LedgerInv'
<1> SUFFICES ASSUME LedgerInv, [Next]_vars PROVE LedgerInv'
    OBVIOUS
<1>1. CASE Tick
    BY <1>1, TickPreserves
<1>2. ASSUME NEW t \in Threads, NEW n \in BatchSizes, ReserveBatch(t, n)
      PROVE  LedgerInv'
    BY <1>2, BatchPreserves
<1>3. ASSUME NEW t \in Threads, BeginCall(t)
      PROVE  LedgerInv'
    BY <1>3, BeginCallPreserves
<1>4. ASSUME NEW t \in Threads, RefuseCall(t)
      PROVE  LedgerInv'
    BY <1>4, FailPreserves DEF RefuseCall, Where, WithPermit, InSlot, Outcomes
<1>5. ASSUME NEW t \in Threads, RuntimeStep(t)
      PROVE  LedgerInv'
    BY <1>5, RuntimePreserves
<1>6. ASSUME NEW t \in Threads, BackendStep(t)
      PROVE  LedgerInv'
    BY <1>6, AnswerPreserves
    DEF BackendStep, BackendReturns, BackendRaises, Raise, WithPermit, InSlot, Outcomes
<1>7. ASSUME NEW t \in Threads, CellTimeout(t)
      PROVE  LedgerInv'
    BY <1>7, AnswerPreserves, FailPreserves
    DEF CellTimeout, Raise, Where, WithPermit, InSlot, Outcomes
<1>8. ASSUME NEW t \in Threads, RejectResponse(t)
      PROVE  LedgerInv'
    BY <1>8, FailPreserves DEF RejectResponse, Where, WithPermit, InSlot, Outcomes
<1>9. CASE UNCHANGED vars
    BY <1>9
    DEF vars, ledgerVars, counters, LedgerInv, TypeOK, LedgerTypeOK, PermitsConserved,
        CeilingHeld, StatsAcceptable, Punctual, NoLateSuccess, Holders, Entered, Open
<1> QED  BY <1>1, <1>2, <1>3, <1>4, <1>5, <1>6, <1>7, <1>8, <1>9 DEF Next, CallerStep
-----------------------------------------------------------------------------
(* The theorems                                                            *)

\* The inductive invariant holds in every reachable state.
LEMMA LedgerInvariant == Spec => []LedgerInv
<1> QED  BY InitEstablishes, NextPreserves, PTL DEF Spec

\* Type correctness.  It needs the slot counts: that _active_model_calls never
\* goes below zero is a fact about the callers inside the slot.
THEOREM TypeCorrect == Spec => []TypeOK
<1>1. LedgerInv => TypeOK
    BY DEF LedgerInv
<1> QED  BY <1>1, LedgerInvariant, PTL

\* model_slot never loses a permit or releases one twice (ledger.py:96-127).
THEOREM SlotsConserved == Spec => []PermitsConserved
<1>1. LedgerInv => PermitsConserved
    BY DEF LedgerInv
<1> QED  BY <1>1, LedgerInvariant, PTL

\* The active count is exact and, like its peak, never above
\* max_parallel_model_calls (ledger.py:112-127).
THEOREM CeilingNeverExceeded == Spec => []CeilingHeld
<1>1. LedgerInv => CeilingHeld
    BY DEF LedgerInv
<1> QED  BY <1>1, LedgerInvariant, PTL

\* Every snapshot of the counters satisfies what trace_reader.py:560-569 asks
\* of a manifest.
THEOREM StatsAlwaysAcceptable == Spec => []StatsAcceptable
<1>1. LedgerInv => StatsAcceptable
    BY DEF LedgerInv
<1> QED  BY <1>1, LedgerInvariant, PTL

\* No call whose answer came after the run deadline succeeds (engine.py:805-806).
THEOREM LateAnswersRejected == Spec => []NoLateSuccess
<1>1. LedgerInv => NoLateSuccess
    BY DEF LedgerInv, Punctual
<1> QED  BY <1>1, LedgerInvariant, PTL

\* A call succeeds only while the token total is within the budget
\* (ledger.py:142-160): only record_response ends a call well.
THEOREM SuccessImpliesBudget == Spec => SuccessWithinBudget
<1> DEFINE Kept == \A t \in Threads :
                      TokenBudgeted /\ outcome[t] # "ok" /\ outcome'[t] = "ok"
                          => tokens' <= MaxTotalTokens
<1>1. ASSUME LedgerInv, [Next]_vars PROVE [Kept]_vars
    <2> SUFFICES ASSUME NEW t \in Threads, TokenBudgeted,
                        outcome[t] # "ok", outcome'[t] = "ok"
                 PROVE  tokens' <= MaxTotalTokens
        OBVIOUS
    <2>1. PICK v \in Threads, u \in Usages : RecordUsage(v, u)
        <3> USE DEF LedgerInv, TypeOK, Raise
        <3>1. ~Tick /\ ~UNCHANGED vars
            BY DEF Tick, vars
        <3>2. ASSUME NEW v \in Threads PROVE
                /\ \A n \in BatchSizes : ~ReserveBatch(v, n)
                /\ ~BeginCall(v) /\ ~RefuseCall(v) /\ ~BackendStep(v)
                /\ ~CellTimeout(v) /\ ~RejectResponse(v)
            BY <1>1 DEF ReserveBatch, BeginCall, RefuseCall, FailCall, BackendStep,
                   BackendReturns, BackendRaises, CellTimeout, RejectResponse
        <3>3. ASSUME NEW v \in Threads PROVE
                /\ ~CheckSlot(v) /\ ~ReadRemaining(v) /\ ~BeginWait(v) /\ ~WaitTimeout(v)
                /\ ~AcquireAtOnce(v) /\ ~AcquireAfterWait(v) /\ ~EnterOrExpire(v)
            BY <1>1 DEF CheckSlot, ReadRemaining, BeginWait, WaitTimeout, AcquireAtOnce,
                   AcquireAfterWait, Acquire, EnterOrExpire, Move, FailCall
        <3>4. ASSUME NEW v \in Threads PROVE
                ~StartBackend(v) /\ ~ExitSlot(v) /\ ~ReleaseSlot(v) /\ ~RecheckDeadline(v)
            BY <1>1 DEF StartBackend, ExitSlot, ReleaseSlot, RecheckDeadline, Move, FailCall
        <3> QED  BY <1>1, <3>1, <3>2, <3>3, <3>4 DEF Next, CallerStep, RuntimeStep
    <2>2. RecordError(u) = "none" /\ tokens' = tokens + u.size
        BY <1>1, <2>1
        DEF RecordUsage, RecordResponse, RecordError, Accepted, Raise, LedgerInv, TypeOK
    <2>3. tokens' \in Nat
        BY <1>1, <2>1, RecordPreserves DEF LedgerInv, TypeOK, LedgerTypeOK
    <2> QED  BY <2>2, <2>3, LimitsAssumption DEF RecordError, OverBudget
<1>2. LedgerInv /\ [Next]_vars => [Kept]_vars
    BY <1>1
<1> QED  BY <1>2, LedgerInvariant, PTL DEF Spec, SuccessWithinBudget

-----------------------------------------------------------------------------
(* RunLedger implements CallGate                                           *)

\* A fresh ledger is a fresh gate.
LEMMA GateInit == Init => Gate!Init
<1> QED  BY DEF Init, LedgerInit, Gate!Init, Open, Entered, InSlot, InCall

\* A caller that moves inside a part of the call the gate cannot see.
LEMMA GateStutter ==
    ASSUME TypeOK, NEW t \in Threads, NEW from \in Where, NEW to \in Where,
           Goto(t, from, to), UNCHANGED modelCalls,
           from \in InSlot <=> to \in InSlot, from \in InCall <=> to \in InCall
    PROVE  UNCHANGED <<modelCalls, Open, Entered>>
<1> QED  BY GotoCounts

\* A caller outside the slot ends its call, or had none.
LEMMA GateFinish ==
    ASSUME TypeOK, NEW t \in Threads, NEW from \in Where \ InSlot,
           Goto(t, from, "idle"), UNCHANGED modelCalls
    PROVE  Gate!Finish(t) \/ UNCHANGED <<modelCalls, Open, Entered>>
<1>0. "idle" \in Where /\ "idle" \notin InSlot /\ "idle" \notin InCall
    BY DEF Where, InSlot, InCall
<1>1. CASE from \in InCall
    <2>1. Open' = Open \ {t} /\ Entered' = Entered /\ pc[t] = from
        BY <1>0, <1>1, GotoCounts
    <2>2. t \in Open \ Entered
        BY <1>1, <2>1 DEF Open, Entered
    <2> QED  BY <2>1, <2>2 DEF Gate!Finish
<1>2. CASE from \notin InCall
    BY <1>0, <1>2, GateStutter
<1> QED  BY <1>1, <1>2
\* The instance has its own name for the one Cardinality of FiniteSets.
LEMMA GateCardinality ==
    ASSUME NEW S
    PROVE  Gate!Cardinality(S) = Cardinality(S)
<1> QED  BY DEF Gate!Cardinality, Cardinality

\* A step of the runtime is Enter, Leave, Finish or a stutter of the gate.
LEMMA GateRuntime ==
    ASSUME LedgerInv, NEW t \in Threads, RuntimeStep(t)
    PROVE  [Gate!Next]_(Gate!gateVars)
<1> USE DEF Gate!gateVars
<1> DEFINE Hidden == UNCHANGED <<modelCalls, Open, Entered>>
<1> SUFFICES Gate!Enter(t) \/ Gate!Leave(t) \/ Gate!Finish(t) \/ Hidden
    BY DEF Gate!Next
<1>0. TypeOK
    BY DEF LedgerInv
<1> USE DEF Where, WithPermit, InSlot, InCall, ledgerVars, counters
<1>1. CASE CheckSlot(t)
    BY <1>0, <1>1, GateStutter, GateFinish DEF CheckSlot, Move, FailCall
<1>2. CASE ReadRemaining(t)
    BY <1>0, <1>2, GateStutter DEF ReadRemaining
<1>3. CASE AcquireAtOnce(t)
    BY <1>0, <1>3, GateStutter DEF AcquireAtOnce, Acquire, TakePermit
<1>4. CASE BeginWait(t)
    BY <1>0, <1>4, GateStutter DEF BeginWait
<1>5. CASE AcquireAfterWait(t)
    BY <1>0, <1>5, GateStutter DEF AcquireAfterWait, Acquire, TakePermit
<1>6. CASE WaitTimeout(t)
    BY <1>0, <1>6, GateFinish DEF WaitTimeout, FailCall
<1>7. CASE EnterOrExpire(t)
    <2>1. CASE Expired
        BY <1>0, <1>7, <2>1, GateStutter DEF EnterOrExpire
    <2>2. CASE ~Expired
        <3>1. /\ EnterSlot /\ Goto(t, "acquired", "entered")
              /\ UNCHANGED <<wait, outcome, arrived>>
            BY <1>7, <2>2 DEF EnterOrExpire
        <3>2. /\ Entered' = Entered \cup {t} /\ Open' = Open /\ pc[t] = "acquired"
              /\ Cardinality(Entered) \in Nat
              /\ Cardinality(Entered)' = Cardinality(Entered) + 1
            BY <1>0, <3>1, GotoCounts
        <3>3. t \in Open \ Entered
            BY <3>2 DEF Open, Entered
        <3>4. CeilingHeld'
            BY <3>1, EnterPreserves DEF LedgerInv
        <3>5. Cardinality(Entered) < MaxParallel
            BY <3>2, <3>4, EnterPreserves, <3>1, LimitsAssumption
            DEF CeilingHeld, LedgerInv, TypeOK, LedgerTypeOK
        <3>6. UNCHANGED <<modelCalls, Open>>
            BY <3>1, <3>2 DEF EnterSlot
        <3>7. Gate!Enter(t)
            BY <3>2, <3>3, <3>5, <3>6, GateCardinality DEF Gate!Enter
        <3> QED  BY <3>7
    <2> QED  BY <2>1, <2>2
<1>8. CASE StartBackend(t)
    BY <1>0, <1>8, GateStutter DEF StartBackend, Move
<1>9. CASE ExitSlot(t)
    <2>1. /\ Goto(t, "exiting", "releasing") /\ UNCHANGED modelCalls
        BY <1>9 DEF ExitSlot, LeaveSlot
    <2>2. Entered' = Entered \ {t} /\ Open' = Open /\ pc[t] = "exiting"
        BY <1>0, <2>1, GotoCounts
    <2>3. t \in Entered
        BY <2>2 DEF Entered
    <2> QED  BY <2>1, <2>2, <2>3 DEF Gate!Leave
<1>10. CASE ReleaseSlot(t)
    <2>1. CASE outcome[t] = "pending"
        BY <1>0, <1>10, <2>1, GateStutter DEF ReleaseSlot, ReleasePermit
    <2>2. CASE outcome[t] # "pending"
        BY <1>0, <1>10, <2>2, GateFinish DEF ReleaseSlot, ReleasePermit
    <2> QED  BY <2>1, <2>2
<1>11. CASE RecheckDeadline(t)
    BY <1>0, <1>11, GateStutter, GateFinish DEF RecheckDeadline, Move, FailCall
<1>12. CASE \E u \in Usages : RecordUsage(t, u)
    BY <1>0, <1>12, GateFinish DEF RecordUsage, RecordResponse
<1> QED  BY <1>1, <1>2, <1>3, <1>4, <1>5, <1>6, <1>7, <1>8, <1>9, <1>10, <1>11, <1>12
         DEF RuntimeStep

\* Every step is a step or a stutter of the gate; only BeginCall is Start.
LEMMA GateNext == LedgerInv /\ [Next]_vars => [Gate!Next]_(Gate!gateVars)
<1> SUFFICES ASSUME LedgerInv, [Next]_vars PROVE [Gate!Next]_(Gate!gateVars)
    OBVIOUS
<1> USE DEF Gate!gateVars, ledgerVars, counters
<1>0. TypeOK
    BY DEF LedgerInv
<1>1. CASE Tick \/ UNCHANGED vars
    BY <1>1 DEF Tick, vars, Open, Entered
<1>2. ASSUME NEW t \in Threads, NEW n \in BatchSizes, ReserveBatch(t, n)
      PROVE  [Gate!Next]_(Gate!gateVars)
    BY <1>2 DEF ReserveBatch, ReserveSubcalls, Open, Entered
<1>3. ASSUME NEW t \in Threads, BeginCall(t)
      PROVE  [Gate!Next]_(Gate!gateVars)
    <2>0. "idle" \in Where /\ "reserved" \in Where
          /\ "idle" \notin InSlot \cup InCall
          /\ "reserved" \notin InSlot /\ "reserved" \in InCall
        BY DEF Where, InSlot, InCall
    <2>1. /\ Goto(t, "idle", "reserved") /\ modelCalls < MaxModelCalls
          /\ modelCalls' = modelCalls + 1
        BY <1>3 DEF BeginCall, CanReserveModelCall, ReserveModelCall
    <2>2. Open' = Open \cup {t} /\ Entered' = Entered /\ pc[t] = "idle"
        BY <1>0, <2>0, <2>1, GotoCounts
    <2>3. t \notin Open
        BY <2>0, <2>2 DEF Open
    <2>4. Gate!Start(t)
        BY <2>1, <2>2, <2>3 DEF Gate!Start
    <2> QED  BY <2>4 DEF Gate!Next
<1>4. ASSUME NEW t \in Threads, RefuseCall(t)
      PROVE  [Gate!Next]_(Gate!gateVars)
    <2>1. Gate!Finish(t) \/ UNCHANGED <<modelCalls, Open, Entered>>
        BY <1>0, <1>4, GateFinish DEF RefuseCall, FailCall, Where, InSlot
    <2> QED  BY <2>1 DEF Gate!Next
<1>5. ASSUME NEW t \in Threads, RuntimeStep(t)
      PROVE  [Gate!Next]_(Gate!gateVars)
    BY <1>5, GateRuntime
<1>6. ASSUME NEW t \in Threads, BackendStep(t)
      PROVE  [Gate!Next]_(Gate!gateVars)
    <2>1. UNCHANGED <<modelCalls, Open, Entered>>
        BY <1>0, <1>6, GateStutter
        DEF BackendStep, BackendReturns, BackendRaises, Where, InSlot, InCall
    <2> QED  BY <2>1
<1>7. ASSUME NEW t \in Threads, CellTimeout(t)
      PROVE  [Gate!Next]_(Gate!gateVars)
    <2>1. Gate!Finish(t) \/ UNCHANGED <<modelCalls, Open, Entered>>
        BY <1>0, <1>7, GateStutter, GateFinish
        DEF CellTimeout, FailCall, Where, InSlot, InCall
    <2> QED  BY <2>1 DEF Gate!Next
<1>8. ASSUME NEW t \in Threads, RejectResponse(t)
      PROVE  [Gate!Next]_(Gate!gateVars)
    <2>1. Gate!Finish(t) \/ UNCHANGED <<modelCalls, Open, Entered>>
        BY <1>0, <1>8, GateFinish DEF RejectResponse, FailCall, Where, InSlot
    <2> QED  BY <2>1 DEF Gate!Next
<1> QED  BY <1>1, <1>2, <1>3, <1>4, <1>5, <1>6, <1>7, <1>8 DEF Next, CallerStep

\* The ledger keeps what its docstrings promise (ledger.py:16-30, 97-104): at
\* most max_model_calls calls, at most max_parallel_model_calls of them inside a
\* backend, none inside that was not reserved.
THEOREM ImplementsCallGate == Spec => GateSpec
<1> QED  BY GateInit, GateNext, LedgerInvariant, PTL DEF Spec, GateSpec, Gate!Spec
=============================================================================
