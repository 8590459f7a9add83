--------------------------- MODULE RunProvenance ---------------------------
(***************************************************************************)
(* The identity of a run, from the configuration a caller holds to the     *)
(* artifacts he checks afterwards: the snapshot of src/src/rlm/config.py,  *)
(* the contract of a harness with the installed environment (specs.py,     *)
(* prompts.py, abi.py), the provenance written to the trace and read back  *)
(* (engine.py, trace_reader.py), and the attestation of a completed run,   *)
(* in process and over HTTP (attestation.py, run_artifacts.py).            *)
(*                                                                         *)
(* A digest is modelled by what it is the digest of.  Of a prompt its name *)
(* (which no controller sees) and its text are kept; of the installed      *)
(* environment its version and the digest of its helpers.                  *)
(***************************************************************************)
EXTENDS Naturals, FiniteSets

CONSTANTS
    Runs,           \* runs of one RLM object, which may overlap
    Harnesses,      \* the harness objects the caller has
    Abis,           \* the environments that may be installed, one after another
    Options,        \* controller options
    OwnedOptions,   \* those that replace a protocol field, or are unsupported
    Models,         \* names of models: [text, wire], where wire is what a peer
                    \* reads of the name in a header
    MaxDepth,       \* limits.max_depth of the caller's configuration
    NoPrelude, NoModel, Nothing, Unsendable

VARIABLES
    cfg,            \* RLM.config, which the caller may change between runs
    installed,      \* ENVIRONMENT_ABI of this process
    run,            \* of each run: phase, snapshot and the caller's request
    sent,           \* the controller requests each run made
    trace,          \* its directory
    attestation,    \* RunAttestation.from_result of a completed run
    decoded         \* what a client of the server decodes from the headers

vars == <<cfg, installed, run, sent, trace, attestation, decoded>>

Branch == 0..MaxDepth

-----------------------------------------------------------------------------
(* Harnesses                                                               *)

\* The text a controller gets: name and version of the prompt are not in it.
Render(prompt, allowRecursion, abi, prelude) ==
    [text |-> prompt.text, abi |-> abi, recursion |-> allowRecursion, prelude |-> prelude]

Made(prompt, abi, prelude) ==
    [prompt |-> prompt, abi |-> abi, prelude |-> prelude,
     rendered |-> [b \in BOOLEAN |-> Render(prompt, b, abi, prelude)]]

\* A harness without a prelude keeps the snapshot it had before there were any.
Encode(h) ==
    [f \in {"prompt", "abi", "rendered"} \union (IF h.prelude = NoPrelude THEN {} ELSE {"prelude"}) |-> h[f]]
Decode(d) ==
    [prompt |-> d.prompt, abi |-> d.abi, rendered |-> d.rendered,
     prelude |-> IF "prelude" \in DOMAIN d THEN d.prelude ELSE NoPrelude]

\* The seeded mistake has what was written by hand for the identity.
FingerprintFault(h) == [f \in {"prompt", "abi"} |-> h[f]]
Fingerprint(h) == Encode(h)

\* The seeded mistake looks at the variant without recursion only.
ContractFault(h) ==
    /\ h.abi = installed
    /\ Render(h.prompt, FALSE, installed, h.prelude) = h.rendered[FALSE]
Contract(h) ==
    /\ h.abi.version = installed.version
    /\ h.abi.digest = installed.digest
    /\ \A b \in BOOLEAN : Render(h.prompt, b, installed, h.prelude) = h.rendered[b]

\* The seeded mistake lets any option pass.
AcceptedOptionsFault(o) == o \in Options
AcceptedOptions(o) == o \notin OwnedOptions

\* RLMConfig.to_dict and the RLMConfig rebuilt from it.
ConfigDict(c) == [harness |-> Encode(c.harness), model |-> c.model, options |-> c.options, depth |-> c.depth]
FromDict(d) == [harness |-> Decode(d.harness), model |-> d.model, options |-> d.options, depth |-> d.depth]

ModelOf(config, request) == IF config.model = NoModel THEN request ELSE config.model

-----------------------------------------------------------------------------
(* A run                                                                   *)

Idle == [phase |-> "idle", config |-> Nothing, request |-> Nothing]

Init ==
    /\ cfg \in [harness : Harnesses, model : Models \union {NoModel}, options : Options \ OwnedOptions, depth : {MaxDepth}]
    /\ installed \in Abis
    /\ run = [r \in Runs |-> Idle]
    /\ sent = [r \in Runs |-> {}]
    /\ trace = [r \in Runs |-> Nothing]
    /\ attestation = [r \in Runs |-> Nothing]
    /\ decoded = [r \in Runs |-> Nothing]

\* The dictionary of options is the caller's to change; of the rest, which is
\* frozen, he may put another in its place.
Mutate ==
    /\ \E o \in Options, h \in Harnesses : cfg' = [cfg EXCEPT !.options = o, !.harness = h]
    /\ UNCHANGED <<installed, run, sent, trace, attestation, decoded>>

Provenance(config) ==
    [harness |-> Encode(config.harness), fingerprint |-> Fingerprint(config.harness),
     config |-> ConfigDict(config), abi |-> installed]

Start(r, request) ==
    /\ run[r].phase = "idle"
    /\ LET config == FromDict(ConfigDict(cfg)) IN
         IF ~AcceptedOptions(cfg.options) \/ ~Contract(config.harness)
         THEN /\ run' = [run EXCEPT ![r].phase = "refused"]
              /\ UNCHANGED trace
         ELSE /\ run' = [run EXCEPT ![r] = [phase |-> "running", config |-> config, request |-> request]]
              /\ trace' = [trace EXCEPT ![r] = [started |-> Provenance(config), request |-> request,
                                                branches |-> {}, manifest |-> Nothing]]
    /\ UNCHANGED <<cfg, installed, sent, attestation, decoded>>

\* The seeded mistake announces recursion at the deepest branch.
BranchPromptFault(config, d) ==
    Render(config.harness.prompt, d <= config.depth, installed, config.harness.prelude)
BranchPrompt(config, d) ==
    Render(config.harness.prompt, d < config.depth, installed, config.harness.prelude)

\* _run_branch up to its first turn; a child's request may name another model.
\* render_prompt compares the text with the harness once more.
StartBranch(r, d, request) ==
    LET config == run[r].config IN
    /\ run[r].phase = "running"
    /\ d = Cardinality(trace[r].branches)
    /\ d = 0 => request = run[r].request
    /\ d <= config.depth
    /\ IF BranchPrompt(config, d) \notin {config.harness.rendered[b] : b \in BOOLEAN}
       THEN /\ run' = [run EXCEPT ![r].phase = "stale"]
            /\ UNCHANGED trace
       ELSE /\ trace' = [trace EXCEPT ![r].branches = @ \union
                  {[depth |-> d, request |-> request, model |-> ModelOf(config, request), prompt |-> BranchPrompt(config, d),
                    harness |-> Encode(config.harness), fingerprint |-> Fingerprint(config.harness)]}]
            /\ UNCHANGED run
    /\ UNCHANGED <<cfg, installed, sent, attestation, decoded>>

\* A turn of the controller of branch b.  The seeded mistake takes the options
\* from the object the caller holds.
TurnFault(r, b) ==
    /\ run[r].phase = "running"
    /\ sent' = [sent EXCEPT ![r] = @ \union
          {[depth |-> b.depth, model |-> b.model, instructions |-> b.prompt, options |-> cfg.options]}]
    /\ UNCHANGED <<cfg, installed, run, trace, attestation, decoded>>

Turn(r, b) ==
    /\ run[r].phase = "running"
    /\ sent' = [sent EXCEPT ![r] = @ \union
          {[depth |-> b.depth, model |-> b.model, instructions |-> b.prompt, options |-> run[r].config.options]}]
    /\ UNCHANGED <<cfg, installed, run, trace, attestation, decoded>>

\* ControllerRunIdentity, RunResult and RunAttestation.from_result.
Attest(config, request) ==
    [model |-> ModelOf(config, request), options |-> config.options, fingerprint |-> Fingerprint(config.harness)]

\* The manifest, the result and its attestation.
Finish(r, status) ==
    LET config == run[r].config IN
    /\ run[r].phase = "running"
    /\ status = "completed" => sent[r] # {}
    /\ run' = [run EXCEPT ![r].phase = status]
    /\ trace' = [trace EXCEPT ![r].manifest = Provenance(config)]
    /\ attestation' = IF status = "completed"
                      THEN [attestation EXCEPT ![r] = Attest(config, run[r].request)]
                      ELSE attestation
    /\ UNCHANGED <<cfg, installed, sent, decoded>>

\* The seeded mistake sends the model the caller asked for.
AnswerFault(r) ==
    /\ run[r].phase = "completed" /\ decoded[r] = Nothing
    /\ decoded' = [decoded EXCEPT ![r] = [attestation[r] EXCEPT !.model = run[r].request]]
    /\ UNCHANGED <<cfg, installed, run, sent, trace, attestation>>

\* The headers of a successful answer of the server, and what a client decodes.
Answer(r) ==
    /\ run[r].phase = "completed" /\ decoded[r] = Nothing
    /\ decoded' = [decoded EXCEPT ![r] =
          IF attestation[r].model.wire = Unsendable THEN Unsendable
          ELSE [attestation[r] EXCEPT !.model.text = attestation[r].model.wire]]
    /\ UNCHANGED <<cfg, installed, run, sent, trace, attestation>>

\* Another version of the package reads the directories later.
Upgrade ==
    /\ \A r \in Runs : run[r].phase # "running"
    /\ \E a \in Abis : installed' = a
    /\ UNCHANGED <<cfg, run, sent, trace, attestation, decoded>>

-----------------------------------------------------------------------------
(* The reader and the agreement of artifacts                               *)

\* _decode_harness: what is read must be what would be written.
Readable(d) == Encode(Decode(d)) = d /\ Contract(Decode(d))

\* The seeded mistake expects recursion at the deepest branch.
BranchReadsFault(t, b) ==
    LET config == FromDict(t.manifest.config) IN
    b.prompt = Render(config.harness.prompt, b.depth <= config.depth, installed, config.harness.prelude)
BranchReads(t, b) ==
    LET config == FromDict(t.manifest.config) IN
    /\ b.harness = t.manifest.harness /\ b.fingerprint = t.manifest.fingerprint
    /\ b.prompt = Render(config.harness.prompt, b.depth < config.depth, installed, config.harness.prelude)
    /\ b.model = ModelOf(config, b.request)

\* load_trace, of what it demands of the provenance.
\* The seeded mistake does not look at run.started.
LoadsFault(t) ==
    /\ Readable(t.manifest.harness)
    /\ Fingerprint(Decode(t.manifest.harness)) = t.manifest.fingerprint
    /\ Readable(t.manifest.config.harness)
    /\ AcceptedOptions(t.manifest.config.options)
    /\ t.manifest.config.harness = t.manifest.harness
    /\ t.manifest.abi = installed
    /\ \A b \in t.branches : BranchReads(t, b)
Loads(t) ==
    /\ Readable(t.manifest.harness)
    /\ Fingerprint(Decode(t.manifest.harness)) = t.manifest.fingerprint
    /\ Readable(t.manifest.config.harness)
    /\ AcceptedOptions(t.manifest.config.options)
    /\ t.manifest.config.harness = t.manifest.harness
    /\ t.manifest.abi = installed
    /\ t.started = t.manifest
    /\ \A b \in t.branches : BranchReads(t, b)

\* validate_run_artifacts, of a completed run.
\* The seeded mistake compares no fingerprints.
AgreesFault(a, t) ==
    /\ Loads(t)
    /\ ModelOf(t.manifest.config, t.request) = a.model
    /\ t.manifest.config.options = a.options
Agrees(a, t) ==
    /\ Loads(t)
    /\ t.manifest.fingerprint = a.fingerprint
    /\ ModelOf(t.manifest.config, t.request) = a.model
    /\ t.manifest.config.options = a.options

\* Someone writes another provenance over a finished directory: in one place,
\* or everywhere.
Rewritten(t) ==
    LET others == {Encode(h) : h \in Harnesses}
        p(h) == [t.manifest EXCEPT !.harness = h, !.fingerprint = h, !.config.harness = h]
    IN  {[t EXCEPT !.manifest.harness = h] : h \in others}
        \union {[t EXCEPT !.manifest = p(h), !.started = p(h)] : h \in others}
        \union {[t EXCEPT !.manifest = p(h),
                          !.branches = {[b EXCEPT !.harness = h, !.fingerprint = h] : b \in t.branches}] : h \in others}
        \union {[t EXCEPT !.manifest = p(h), !.started = p(h),
                          !.branches = {[b EXCEPT !.harness = h, !.fingerprint = h] : b \in t.branches}] : h \in others}
        \union {[t EXCEPT !.manifest.config.options = o, !.started.config.options = o] : o \in Options}
        \union {[t EXCEPT !.branches = {[b EXCEPT !.model = m] : b \in t.branches}] : m \in Models}

Rewrite(r) ==
    /\ run[r].phase \in {"completed", "failed"}
    /\ \E t \in Rewritten(trace[r]) : t # trace[r] /\ trace' = [trace EXCEPT ![r] = t]
    /\ run' = [run EXCEPT ![r].phase = "rewritten"]
    /\ UNCHANGED <<cfg, installed, sent, attestation, decoded>>

Next ==
    \/ Mutate \/ Upgrade
    \/ \E r \in Runs :
          \/ \E m \in Models : Start(r, m)
          \/ \E d \in Branch, m \in Models : StartBranch(r, d, m)
          \/ trace[r] # Nothing /\ \E b \in trace[r].branches : Turn(r, b)
          \/ \E s \in {"completed", "failed"} : Finish(r, s)
          \/ Answer(r) \/ Rewrite(r)

Spec == Init /\ [][Next]_vars

-----------------------------------------------------------------------------
(* Properties                                                              *)

Written(r) == trace[r] # Nothing /\ trace[r].manifest # Nothing

TypeOK ==
    /\ cfg.harness \in Harnesses /\ cfg.options \in Options
    /\ installed \in Abis
    /\ \A r \in Runs :
          /\ run[r].phase \in {"idle", "refused", "running", "completed", "failed", "rewritten", "stale"}
          /\ run[r].phase \in {"idle", "refused"} <=> trace[r] = Nothing
          /\ run[r].phase \in {"completed", "failed"} => Written(r)
          /\ \A s \in sent[r] : s.options \notin OwnedOptions /\ s.depth \in Branch

\* README: each run takes one owned snapshot before its first model call, so
\* later mutations of the caller cannot alter it.  Every controller of a run
\* gets the instructions of its harness for its depth, and one set of options.
OneSnapshot ==
    \A r \in Runs : \A s, t \in sent[r] :
        /\ s.options = t.options
        /\ s.instructions.prelude = t.instructions.prelude /\ s.instructions.text = t.instructions.text
        /\ s.depth = t.depth => s = t

\* No controller is told of an environment other than the one it is given,
\* nor of a prelude its harness was not rendered with.
PromptMatchesHarness ==
    \A r \in Runs : run[r].phase = "running" =>
        \A s \in sent[r] : /\ s.instructions.abi = installed
                           /\ s.instructions = run[r].config.harness.rendered[s.depth < MaxDepth]

\* The reader accepts what the same installation wrote, of a failed run too,
\* and a completed run's artifacts agree.
OwnTraceLoads ==
    \A r \in Runs : run[r].phase \in {"completed", "failed"} /\ trace[r].manifest.abi = installed =>
        /\ Loads(trace[r])
        /\ attestation[r] # Nothing => Agrees(attestation[r], trace[r])

\* A harness that does not fit the environment stops the run before its first
\* event, never between two branches.
RefusedBeforeStart == \A r \in Runs : run[r].phase # "stale"

\* What agrees tells the truth, whatever became of the directory: these were
\* the options, the model and the instructions of the run's controllers.
AgreedIsTrue ==
    \A r \in Runs : Written(r) /\ attestation[r] # Nothing /\ Agrees(attestation[r], trace[r]) =>
        \A s \in sent[r] :
           /\ s.options = trace[r].manifest.config.options
           /\ trace[r].manifest.harness = Encode(run[r].config.harness)
           /\ \E b \in trace[r].branches : b.depth = s.depth /\ b.model = s.model /\ b.prompt = s.instructions

\* A trace that was tampered with in one place is refused, and after an
\* upgrade of the environment so is every old one.
StaleRefused ==
    \A r \in Runs : Written(r) /\ Loads(trace[r]) =>
        /\ trace[r].manifest.abi = installed
        /\ \A b \in trace[r].branches : b.prompt.abi = installed
        /\ trace[r].started.config.harness = trace[r].manifest.harness
        /\ Fingerprint(Decode(trace[r].started.harness)) = trace[r].started.fingerprint

\* Two completed runs with the same identity gave their controllers the same
\* instructions at the same depth, whoever made their harnesses.
SameIdentitySameRun ==
    \A r, q \in Runs :
        attestation[r] # Nothing /\ attestation[r] = attestation[q] =>
            \A s \in sent[r], t \in sent[q] :
                s.depth = t.depth => s.instructions = t.instructions /\ s.options = t.options

\* README: successful proxy responses carry the metadata of the run, and HTTP
\* clients can decode them.
AttestedOverHttp == \A r \in Runs : decoded[r] # Nothing => decoded[r] = attestation[r]
=============================================================================
