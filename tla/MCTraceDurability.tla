------------------------- MODULE MCTraceDurability -------------------------
(***************************************************************************)
(* What a run leaves on disk, for TLC: the files under failing writes,     *)
(* interrupts, kills and power losses (TraceDurability), the payloads of   *)
(* their lines and the reader's validators (TracePayloads), and what they  *)
(* say of the harness and the options the run had (RunProvenance), of one  *)
(* run and of two that overlap.  A behaviour follows one of them, which    *)
(* `scenario` names; the others rest where they start.                     *)
(***************************************************************************)
EXTENDS TraceDurability, TLC

CONSTANTS MaxTurns, MaxDepth, MaxLines,
          Run,          \* a run on its own, with what its caller has:
          Harnesses, Abis, Options, OwnedOptions, Models,
          Twins,        \* runs that overlap, and what theirs has:
          TwinHarnesses, TwinAbis, TwinOptions, TwinOwnedOptions, TwinModels, TwinDepth,
          Bare, Drop,   \* no prelude, and one
          NoModel, Nothing, Unsendable

\* HarnessSpec is a frozen dataclass (specs.py:164-200): made by create or by
\* hand, a harness has its fields and no others.
ASSUME HarnessAssumption ==
    \A h \in Harnesses \union TwinHarnesses :
        h = [prompt |-> h.prompt, abi |-> h.abi, prelude |-> h.prelude, rendered |-> h.rendered]

\* max_turns and max_depth are checked to be numbers (config.py:149-195); the
\* length of a reply is a bound.
ASSUME PayloadsAssumption == {MaxTurns, MaxDepth, MaxLines} \subseteq Nat

VARIABLES
    scenario,       \* "files", "payloads", "one run" or "two runs"
    step, controllerModel, branches, call, reply, frame, fault, line,
    cfg, installed, run, sent, trace, attestation, decoded

payloadVars == <<step, controllerModel, branches, call, reply, frame, fault, line>>
provenanceVars == <<cfg, installed, run, sent, trace, attestation, decoded>>
allVars == <<scenario, vars, payloadVars, provenanceVars>>

TwinSymmetry == Permutations(Twins)

Payloads == INSTANCE TracePayloads WITH pc <- step

\* Two environments of one version, and harnesses that were made by hand.
abi == [version |-> 2, digest |-> "d1"]
later == [version |-> 2, digest |-> "d2"]
prompt == [name |-> "p", text |-> "text"]

Harness(prelude) ==
    [prompt |-> prompt, abi |-> abi, prelude |-> prelude,
     rendered |-> [b \in BOOLEAN |->
                     [text |-> prompt.text, abi |-> abi, recursion |-> b, prelude |-> prelude]]]

Plain == Harness(Bare)
Extended == Harness(Drop)
\* The prelude was changed without rendering again; in the second only the
\* prompt for branches that may recurse was forgotten.
Unrendered == [Plain EXCEPT !.prelude = Drop]
HalfRendered == [Extended EXCEPT !.rendered[TRUE] = Plain.rendered[TRUE]]

MCHarnesses == {Plain, Extended, Unrendered, HalfRendered}
MCTwinHarnesses == {Plain, Extended}
MCAbis == {abi, later}
MCTwinAbis == {abi}

Model(name) == [text |-> name, wire |-> name]
MCModels == {Model("m"), Model("n")}
MCTwinModels == {Model("m")}

Single == INSTANCE RunProvenance WITH Runs <- {Run}, NoPrelude <- Bare

Double == INSTANCE RunProvenance WITH
    Runs <- Twins, Harnesses <- TwinHarnesses, Abis <- TwinAbis, Options <- TwinOptions,
    OwnedOptions <- TwinOwnedOptions, Models <- TwinModels, MaxDepth <- TwinDepth,
    NoPrelude <- Bare

ProvenanceAtRest ==
    /\ cfg = [harness |-> Plain, model |-> NoModel, options |-> "cold", depth |-> 0]
    /\ installed = abi

ScenarioInit ==
    /\ scenario \in {"files", "payloads", "one run", "two runs"}
    /\ Init
    /\ scenario = "payloads" \/ controllerModel = "null"
    /\ Payloads!Init
    /\ IF scenario = "one run" THEN Single!Init
       ELSE /\ scenario = "two runs" \/ ProvenanceAtRest
            /\ Double!Init

FilesStep == scenario = "files" /\ Next /\ UNCHANGED <<scenario, payloadVars, provenanceVars>>
PayloadsStep == scenario = "payloads" /\ Payloads!Next /\ UNCHANGED <<scenario, vars, provenanceVars>>
OneRunStep == scenario = "one run" /\ Single!Next /\ UNCHANGED <<scenario, vars, payloadVars>>
TwoRunsStep == scenario = "two runs" /\ Double!Next /\ UNCHANGED <<scenario, vars, payloadVars>>

\* A run whose payloads are followed is over, or a bound of it is reached.
PayloadsOver == scenario = "payloads" /\ UNCHANGED allVars

ScenarioNext == FilesStep \/ PayloadsStep \/ OneRunStep \/ TwoRunsStep \/ PayloadsOver

ScenarioSpec == ScenarioInit /\ [][ScenarioNext]_allVars

-----------------------------------------------------------------------------
(* Properties of the components, of the behaviours that follow them        *)

\* Whatever a caller, a provider, a controller and a cell send, the reader takes
\* every line the recorder has written.
Readable == Payloads!Readable

\* What runs is the one cell of the one message, whole and alone.
OneCell == Payloads!OneCell

\* What is recorded can be read, and what is run was read rightly.
PayloadsSound == Readable /\ OneCell

\* What the artifacts agree on is what the controllers of the run were given,
\* whatever became of the directory.
AgreedIsTrue == scenario = "one run" => Single!AgreedIsTrue

\* A harness that does not fit the environment stops the run before its first
\* event, never between two branches.
RefusedBeforeStart == scenario = "one run" => Single!RefusedBeforeStart

\* What a run is said to have been given is what it was given.
ProvenanceTrue == AgreedIsTrue /\ RefusedBeforeStart

\* Two completed runs with the same identity gave their controllers the same.
SameIdentitySameRun == scenario = "two runs" => Double!SameIdentitySameRun
=============================================================================
