------------------------------ MODULE Shutdown ------------------------------
(***************************************************************************)
(* Who closes the backends of an RLM, and when: RLM.close and the context  *)
(* manager in src/src/rlm/engine.py, BackendCloseError in errors.py, the   *)
(* lifespan of the server in server.py, and the start of the serve command *)
(* in cli.py.  The requests of the server run in a pool of threads.        *)
(*                                                                         *)
(* What uvicorn does at the end of serving is external: it lets open       *)
(* requests finish and then ends the lifespan.                             *)
(***************************************************************************)
EXTENDS Naturals, Sequences, SequencesExt

CONSTANTS
    Setups,         \* who made the RLM, of which backends, see MCHttpBridge
    Closeable,      \* the backends that have a close
    Name,           \* backend -> its label, which two backends may share
    Requests

VARIABLES
    setup,
    phase,          \* "starting", "using", "closing" (by the lifespan),
                    \* "leaving" the block of "with", "exiting", "ended"
    running,        \* request -> the backend it is calling, or NoBackend
    todo,           \* what the loop of close has not looked at
    seen,
    failures,       \* the backends whose close raised, in order
    firstError,
    closes,         \* backend -> how often its close was called
    blockRaised,    \* did the block of "with" raise?
    raised          \* what leaves: the error and those it came from, newest first

vars == <<setup, phase, running, todo, seen, failures, firstError, closes, blockRaised, raised>>
loop == <<todo, seen, failures, firstError>>

NoBackend == "none"
Backends == UNION {{s.public, s.controller} : s \in Setups}
Usage == "usage"
Interrupt == "interrupt"
BlockError == "block error"
CloseError(names) == <<"backend_close_error", names>>

Init ==
    /\ setup \in Setups
    /\ phase = "starting"
    /\ running = [r \in Requests |-> NoBackend]
    /\ todo = <<>> /\ seen = {} /\ failures = <<>>
    /\ firstError = NoBackend
    /\ closes = [b \in Backends |-> 0]
    /\ blockRaised = FALSE
    /\ raised = <<>>

-----------------------------------------------------------------------------
(* Starting and serving                                                    *)

\* OpenAIEndpoint refuses its timeout, which main reports as an error of the
\* command line: there is nothing to close yet.
EndpointRefused ==
    /\ phase = "starting" /\ setup.owner = "serve"
    /\ phase' = "ended" /\ raised' = <<Usage>>
    /\ UNCHANGED <<setup, running, loop, closes, blockRaised>>

\* _build_model: the endpoint is there, and an interrupt comes before the RLM is.
BuildInterrupted ==
    /\ phase = "starting" /\ setup.owner = "serve"
    /\ closes' = [closes EXCEPT ![setup.public] = @ + 1]
    /\ phase' = "ended" /\ raised' = <<Interrupt>>
    /\ UNCHANGED <<setup, running, loop, blockRaised>>

Build ==
    /\ phase = "starting"
    /\ phase' = "using"
    /\ UNCHANGED <<setup, running, loop, closes, blockRaised, raised>>

\* A request is in a thread of the pool, and calls one backend at a time.
Call(r) ==
    /\ phase = "using" /\ running[r] = NoBackend
    /\ \E b \in {setup.public, setup.controller} : running' = [running EXCEPT ![r] = b]
    /\ UNCHANGED <<setup, phase, loop, closes, blockRaised, raised>>

Return(r) ==
    /\ running[r] # NoBackend
    /\ running' = [running EXCEPT ![r] = NoBackend]
    /\ UNCHANGED <<setup, phase, loop, closes, blockRaised, raised>>

-----------------------------------------------------------------------------
(* The end                                                                 *)

Drained == \A r \in Requests : running[r] = NoBackend

Closing == phase \in {"closing", "exiting"}
StartClose == todo' = <<setup.public, setup.controller>> /\ seen' = {}

\* close_on_shutdown.  The seeded mistake closes an RLM its caller closes too.
OnShutdownFault(owner) == TRUE
OnShutdown(owner) == owner \in {"serve", "app"}

\* The lifespan ends.  The seeded mistake closes as soon as uvicorn is told to stop.
LifespanEndsFault ==
    /\ phase = "using"
    /\ IF OnShutdown(setup.owner) THEN phase' = "closing" /\ StartClose
       ELSE phase' = "leaving" /\ UNCHANGED <<todo, seen>>
    /\ UNCHANGED <<setup, running, failures, firstError, closes, blockRaised, raised>>

LifespanEnds ==
    /\ phase = "using" /\ Drained
    /\ IF OnShutdown(setup.owner) THEN phase' = "closing" /\ StartClose
       ELSE phase' = "leaving" /\ UNCHANGED <<todo, seen>>
    /\ UNCHANGED <<setup, running, failures, firstError, closes, blockRaised, raised>>

\* __exit__, whether or not the block raised.
Exit ==
    /\ phase = "leaving"
    /\ blockRaised' \in BOOLEAN
    /\ phase' = "exiting" /\ StartClose
    /\ UNCHANGED <<setup, running, failures, firstError, closes, raised>>

\* One backend of the loop.  The seeded mistake tells backends by their label.
SkipFault(b) == (\E s \in seen : Name[s] = Name[b]) \/ b \notin Closeable
Skip(b) == b \in seen \/ b \notin Closeable

Advance == todo' = Tail(todo) /\ seen' = seen \cup {Head(todo)}

CloseSkips ==
    /\ Closing /\ todo # <<>> /\ Skip(Head(todo))
    /\ Advance
    /\ UNCHANGED <<setup, phase, running, failures, firstError, closes, blockRaised, raised>>

\* The seeded mistake forgets the error of a backend after the first.
CloseCallsFault(raises) ==
    /\ Closing /\ todo # <<>> /\ ~Skip(Head(todo))
    /\ closes' = [closes EXCEPT ![Head(todo)] = @ + 1]
    /\ Advance
    /\ failures' = IF raises THEN Append(failures, Head(todo)) ELSE failures
    /\ firstError' = IF raises /\ seen = {} THEN Head(todo) ELSE firstError
    /\ UNCHANGED <<setup, phase, running, blockRaised, raised>>

CloseCalls(raises) ==
    /\ Closing /\ todo # <<>> /\ ~Skip(Head(todo))
    /\ closes' = [closes EXCEPT ![Head(todo)] = @ + 1]
    /\ Advance
    /\ failures' = IF raises THEN Append(failures, Head(todo)) ELSE failures
    /\ firstError' = IF raises /\ firstError = NoBackend THEN Head(todo) ELSE firstError
    /\ UNCHANGED <<setup, phase, running, blockRaised, raised>>

\* close catches Exception only: an interrupt leaves the loop at once.
CloseInterrupted ==
    /\ Closing /\ todo # <<>> /\ ~Skip(Head(todo))
    /\ closes' = [closes EXCEPT ![Head(todo)] = @ + 1]
    /\ phase' = "ended"
    /\ raised' = <<Interrupt>>
    /\ UNCHANGED <<setup, running, loop, blockRaised>>

\* What close ends with.  The error of the block stays behind the new one, as
\* its context.  The seeded mistake reports the first error only.
ReportFault == <<CloseError(<<Name[firstError]>>), firstError>>
Report == <<CloseError([i \in DOMAIN failures |-> Name[failures[i]]]), firstError>>

CloseEnds ==
    /\ Closing /\ todo = <<>>
    /\ phase' = IF phase = "closing" /\ setup.owner = "with" THEN "leaving" ELSE "ended"
    /\ raised' = (IF failures = <<>> THEN <<>> ELSE Report) \o (IF blockRaised THEN <<BlockError>> ELSE <<>>)
    /\ UNCHANGED <<setup, running, loop, closes, blockRaised>>

Ended == phase = "ended" /\ UNCHANGED vars

Next ==
    \/ EndpointRefused \/ BuildInterrupted \/ Build
    \/ \E r \in Requests : Call(r) \/ Return(r)
    \/ LifespanEnds \/ Exit
    \/ CloseSkips \/ CloseInterrupted \/ \E raises \in BOOLEAN : CloseCalls(raises)
    \/ CloseEnds
    \/ Ended

Spec == Init /\ [][Next]_vars

-----------------------------------------------------------------------------
(* Properties                                                              *)

TypeOK ==
    /\ setup \in Setups
    /\ phase \in {"starting", "using", "closing", "leaving", "exiting", "ended"}
    /\ running \in [Requests -> Backends \cup {NoBackend}]
    /\ seen \subseteq Backends /\ Range(failures) \subseteq Backends
    /\ firstError \in Backends \cup {NoBackend}
    /\ failures # <<>> => firstError # NoBackend
    /\ closes \in [Backends -> Nat]
    /\ blockRaised \in BOOLEAN

Mine == {setup.public, setup.controller} \cap Closeable

\* Closed: once an RLM was made and its owner has gone, every backend of it that
\* can be closed was closed exactly once, whether the two roles share one, the
\* first one failed, or their labels are equal (RLM.close).  An interrupt inside
\* a close ends the loop; RLM.close does not claim otherwise.
Closed ==
    phase = "ended" /\ raised \notin {<<Usage>>, <<Interrupt>>} =>
        \A b \in Mine : closes[b] = 1

\* AllSurfaced: the error that leaves names every backend that failed, in
\* order, comes from the first of them, and hides no error of the block.
AllSurfaced ==
    phase = "ended" /\ raised \notin {<<Usage>>, <<Interrupt>>} =>
        /\ failures # <<>> =>
              raised[1] = CloseError([i \in DOMAIN failures |-> Name[failures[i]]]) /\ raised[2] = failures[1]
        /\ blockRaised => BlockError \in Range(raised)

\* NeverUnderACall: no backend is closed while a request of the server is
\* calling it (the lifespan in create_app, and the owner of the RLM after it).
NeverUnderACall ==
    [][\A b \in Backends : closes'[b] > closes[b] => \A r \in Requests : running[r] # b]_vars

=============================================================================
