------------------------------ MODULE OnnxEngine -----------------------------
(***************************************************************************)
(* OnnxEmbeddingEngine: threads that load, unload, warm, preflight and     *)
(* embed on one engine.  The state mutex is held for single steps only: a  *)
(* load verifies, reads and builds its candidate without it and publishes  *)
(* it only if no later transition was reserved; an inference works on the  *)
(* snapshot it took.  Meanwhile the files of a model may be altered and    *)
(* put back.                                                               *)
(*                                                                         *)
(* A text is its number of tokens and whether it begins with the prefix; a *)
(* vector is the positions it was pooled from, its width, and the width it *)
(* was normalised over (0 if it was not).                                  *)
(***************************************************************************)
EXTENDS Provisioning

CONSTANTS
    Thread,         \* callers of the engine
    Curated,        \* the manifests that are shipped with the program
    Files,          \* what the bytes with a digest hold
    Extension,      \* the extension of a file name, for those that have one
    Requests,       \* model, texts, task, truncate, dimensions (0: none), normalize
    Epochs,         \* epochs before they repeat, 2^64 in the code
    MaxTransitions, \* loads and unloads
    MaxEmbeds,      \* inferences
    MaxAlterations  \* times a file is altered or put back

ASSUME EngineAssumption ==
    /\ {MaxTransitions, MaxEmbeds, MaxAlterations, Epochs} \subseteq Nat
    /\ MaxTransitions < Epochs
    /\ \A request \in Requests : request.texts \in Seq([tokens : Nat, prefixed : BOOLEAN])

VARIABLES
    epoch,   \* EngineState.epoch
    loaded,  \* EngineState.loaded, with the transition that put it there
    op,      \* what each thread is doing
    altered, \* digests whose file has other bytes at the moment
    tally    \* transitions reserved, the latest that took effect, and counters

engine == <<epoch, loaded, op, altered, tally>>

Nothing == [kind |-> "nothing"]
Idle == [at |-> "idle"]

EngineInit ==
    /\ epoch = 0
    /\ loaded = [turn |-> 0, manifest |-> Nothing, bytes |-> {}]
    /\ op = [t \in Thread |-> Idle]
    /\ altered = {}
    /\ tally = [turns |-> 0, effective |-> 0, embeds |-> 0, alterations |-> 0]

Doing(t, label) == op[t].at = label
Free(t) == op[t].at \in {"idle", "returned"}
Goto(t, label) == op' = [op EXCEPT ![t].at = label]
Stop(t) == op' = [op EXCEPT ![t] = Idle]

-----------------------------------------------------------------------------
(* What the bytes of a model may hold.                                         *)

\* The graphs that the search of reject_external_data_graph pops: the main and
\* the training graphs, those of the functions, and whatever is nested in them.
Reached(file) ==
    LET within[n \in 0 .. Cardinality(DOMAIN file.graphs)] ==
            IF n = 0 THEN file.roots \cup UNION {f.nested : f \in file.functions}
            ELSE within[n - 1] \cup UNION {file.graphs[g].nested : g \in within[n - 1]}
    IN  within[Cardinality(DOMAIN file.graphs)]

\* A tensor of a function or of a graph, dense or sparse, is kept in another file.
UsesExternalData(file) ==
    \/ \E f \in file.functions : f.external
    \/ \E g \in Reached(file) : file.graphs[g].external

\* validate_graph_contract: exactly the declared inputs, all integer matrices,
\* and one declared output, of rank 2 or 3, whose last width is native or open.
MeetsContract(file, m) ==
    /\ Range(file.inputs) = Range(m.runtime.inputs)
    /\ Len(file.inputs) = Len(m.runtime.inputs)
    /\ file.integers
    /\ Cardinality({i \in DOMAIN file.outputs : file.outputs[i] = m.runtime.output}) = 1
    /\ file.rank \in {2, 3} /\ file.width \in {0, m.dimensions.native}

Digest(m, path) == (CHOOSE a \in Range(m.artifacts) : a.path = path).sha
ModelDigest(m) == Digest(m, m.runtime.model)
TokenizerDigest(m) == Digest(m, m.runtime.tokenizer)

\* Whatever a tokenizer file holds, the tokenizer made of it adds some tokens, and cuts
\* at some length if the file says so (beyond every text if it does not).
ASSUME FilesAssumption ==
    \A c \in Catalogs : \A m \in {n \in Range(c.manifests) : Validate(n)} :
        m.runtime # CatalogOnly => /\ Files[TokenizerDigest(m)].added \in Nat
                                   /\ Files[TokenizerDigest(m)].cut \in Nat

HasExtension(path, extension) ==
    LET name == path[Len(path)] IN name \in DOMAIN Extension /\ Extension[name] = extension

-----------------------------------------------------------------------------
(* load and unload.                                                            *)

\* The store hands out a VerifiedModel only for what is installed and trusted.
Loadable(m) == Installed(m) /\ Trusts(CuratedTrust(Curated), m)

\* revalidate_integrity: every artifact on disk is what the manifest says.
Intact(m) == {a.sha : a \in Range(m.artifacts)} \cap altered = {}

\* reserve_transition, as the first step of load
Reserve(t, m) ==
    /\ Free(t) /\ tally.turns < MaxTransitions
    /\ Loadable(m)
    /\ epoch' = (epoch + 1) % Epochs
    /\ tally' = [tally EXCEPT !.turns = @ + 1]
    /\ op' = [op EXCEPT ![t] = [at |-> "verify", manifest |-> m, epoch |-> epoch',
                                turn |-> tally.turns + 1, bytes |-> {}]]
    /\ UNCHANGED <<loaded, altered>>

\* onnx_contract
Executable(m) == m.runtime # CatalogOnly

\* The first revalidate_integrity, and onnx_contract.
Verify(t) ==
    /\ Doing(t, "verify")
    /\ IF Intact(op[t].manifest) /\ Executable(op[t].manifest)
       THEN Goto(t, "model")
       ELSE Stop(t)
    /\ UNCHANGED <<epoch, loaded, altered, tally>>

\* Mutant: the bytes that are read are not hashed again.
ArtifactUnhashed(t, sha, label) ==
    LET read == IF sha \in altered THEN "altered" ELSE sha
    IN  op' = [op EXCEPT ![t] = [@ EXCEPT !.at = label, !.bytes = op[t].bytes \cup {read}]]

\* artifact_bytes: one handle, and the digest of the very bytes it returns.
ArtifactBytes(t, sha, label) ==
    IF sha \in altered
    THEN Stop(t)
    ELSE op' = [op EXCEPT ![t] = [@ EXCEPT !.at = label, !.bytes = op[t].bytes \cup {sha}]]

ReadModel(t) ==
    /\ Doing(t, "model")
    /\ LET m == op[t].manifest IN
       IF HasExtension(m.runtime.model, "onnx") /\ ~UsesExternalData(Files[ModelDigest(m)])
       THEN ArtifactBytes(t, ModelDigest(m), "tokenizer")
       ELSE Stop(t)
    /\ UNCHANGED <<epoch, loaded, altered, tally>>

ReadTokenizer(t) ==
    /\ Doing(t, "tokenizer")
    /\ LET m == op[t].manifest IN
       IF HasExtension(m.runtime.tokenizer, "json")
       THEN ArtifactBytes(t, TokenizerDigest(m), "build")
       ELSE Stop(t)
    /\ UNCHANGED <<epoch, loaded, altered, tally>>

\* Tokenizer and session are built from those bytes, the session is held against
\* the contract, and the files are verified once more.
Build(t) ==
    /\ Doing(t, "build")
    /\ LET m == op[t].manifest IN
       IF /\ Files[TokenizerDigest(m)].added <= m.tokenizer.maxTokens
          /\ MeetsContract(Files[ModelDigest(m)], m)
          /\ Intact(m)
       THEN Goto(t, "publish")
       ELSE Stop(t)
    /\ UNCHANGED <<epoch, loaded, altered, tally>>

\* Mutant: a load that was overtaken publishes all the same.
AcceptsAny(e) == TRUE

\* EngineState::accepts
Accepts(e) == epoch = e

\* The last step of load.
Publish(t) ==
    /\ Doing(t, "publish")
    /\ IF Accepts(op[t].epoch)
       THEN /\ loaded' = [turn |-> op[t].turn, manifest |-> op[t].manifest, bytes |-> op[t].bytes]
            /\ tally' = [tally EXCEPT !.effective = Max({@, op[t].turn})]
            /\ op' = [op EXCEPT ![t] = [at |-> "warm"]]
       ELSE Stop(t) /\ UNCHANGED <<loaded, tally>>
    /\ UNCHANGED <<epoch, altered>>

\* unload reserves its transition and takes effect in one step.
Unload ==
    /\ tally.turns < MaxTransitions
    /\ epoch' = (epoch + 1) % Epochs
    /\ loaded' = [turn |-> tally.turns + 1, manifest |-> Nothing, bytes |-> {}]
    /\ tally' = [tally EXCEPT !.turns = @ + 1, !.effective = tally.turns + 1]
    /\ UNCHANGED <<op, altered>>

\* The bytes of a file change under the engine, or come back.
Alter(sha) ==
    /\ tally.alterations < MaxAlterations
    /\ altered' = IF sha \in altered THEN altered \ {sha} ELSE altered \cup {sha}
    /\ tally' = [tally EXCEPT !.alterations = @ + 1]
    /\ UNCHANGED <<epoch, loaded, op>>

-----------------------------------------------------------------------------
(* Tokens, tensors and vectors.                                                *)

\* prefix_for: an empty prefix is none.
HasPrefix(m, task) == m.prefixes[task] # "blank"

\* apply_prefix and the tokenizer: a text that begins with the prefix is left
\* alone, any other one gets the prefix, which is a token.
FullLength(m, request, text) ==
    text.tokens + Files[TokenizerDigest(m)].added
    + (IF HasPrefix(m, request.task) /\ ~text.prefixed THEN 1 ELSE 0)

\* encode: the truncating tokenizer cuts at max_tokens, the other one where the file of
\* the tokenizer says.  A file that also pads is left out.
Encoded(m, request, text) ==
    IF request.truncate
    THEN Min({FullLength(m, request, text), m.tokenizer.maxTokens})
    ELSE Min({FullLength(m, request, text), Files[TokenizerDigest(m)].cut})

Encodings(m, request) == [i \in DOMAIN request.texts |-> Encoded(m, request, request.texts[i])]

\* The checks of preflight and embed: the model is the one asked for, the width
\* is native or declared (0: none asked for), and every text fits.
Serves(m, request) == m # Nothing /\ m.id = request.model

Encodable(m, request) ==
    /\ request.dimensions \in {0, m.dimensions.native} \cup Range(m.dimensions.matryoshka)
    /\ \A n \in Range(Encodings(m, request)) : n <= m.tokenizer.maxTokens

Longest(lengths) == Max({1} \cup Range(lengths))

\* Mutant: the prefix is not counted.
CostUnprefixed(m, request) ==
    LET lengths == [i \in DOMAIN request.texts |->
                       Encoded(m, request, [request.texts[i] EXCEPT !.prefixed = TRUE])]
    IN  [items |-> Len(lengths),
         tokens |-> CheckedSum([i \in DOMAIN lengths |-> Max({1, lengths[i]})]),
         longest |-> Longest(lengths)]

\* EmbeddingBatchCost as preflight fills it: no row costs less than a token.
Cost(m, request) ==
    LET lengths == Encodings(m, request) IN
    [items |-> Len(lengths),
     tokens |-> CheckedSum([i \in DOMAIN lengths |-> Max({1, lengths[i]})]),
     longest |-> Longest(lengths)]

ValidCost(cost) ==
    /\ cost.tokens # Overflow
    /\ cost.items > 0 /\ cost.longest > 0 /\ cost.tokens <= cost.items * cost.longest

\* A row of the attention mask, padded to the longest row: a tokenizer that does not pad
\* marks every token it gives.
Mask(lengths, row) == [c \in 1 .. Longest(lengths) |-> c <= lengths[row]]

\* pool_tokens: the positions that go into the vector.
Pooled(mask, pooling) ==
    LET indices == {c \in DOMAIN mask : mask[c]} IN
    CASE pooling = "cls" -> {Min(indices)}
      [] pooling = "last_token" -> {Max(indices)}
      [] pooling = "mean" -> indices

\* l2_normalize: length one over the width the vector has now.
Normalized(vector) == [vector EXCEPT !.unit = vector.width]

\* The end of run: truncation comes before normalisation.
Finish(vector, dimensions, normalize) ==
    LET cut == IF dimensions = 0 THEN vector ELSE [vector EXCEPT !.width = dimensions]
    IN  IF normalize THEN Normalized(cut) ELSE cut

Normalizes(m, request) ==
    IF request.normalize = "model" THEN m.runtime.normalize ELSE request.normalize = "yes"

\* What the session may answer: a width that the graph leaves open is seen here
\* for the first time.  External.
Widths(m) ==
    LET declared == Files[ModelDigest(m)].width
    IN  IF declared = 0 THEN {m.dimensions.native, m.dimensions.native + 1} ELSE {declared}

\* valid_runtime_output_shape
ValidShape(m, hidden) == hidden = m.dimensions.native

\* LoadedModel::run when the session answers with this width: the vectors, or
\* Nothing if the shape is wrong or a row has no token to pool.
Vectors(m, request, lengths, hidden) ==
    LET rank == Files[ModelDigest(m)].rank IN
    IF ~ValidShape(m, hidden) \/ (rank = 3 /\ 0 \in Range(lengths))
    THEN Nothing
    ELSE [i \in DOMAIN lengths |->
            Finish([positions |-> IF rank = 2 THEN {} ELSE Pooled(Mask(lengths, i), m.pooling),
                    width |-> hidden, unit |-> 0],
                   request.dimensions, Normalizes(m, request))]

-----------------------------------------------------------------------------
(* The read side: resolved_model_contract, preflight_with_options,             *)
(* embed_with_options and warm.  Each takes the state mutex anew.              *)

\* ResolvedModelIdentity of a model
Identity(m) == [id |-> m.id, revision |-> m.revision, artifacts |-> ArtifactFingerprint(m),
                semantics |-> Fingerprint(m)]

\* warm, which the runtime calls after load: one text, cut if need be, on whatever
\* model is loaded now, for the effect on the session only.
Warm(t) ==
    /\ Doing(t, "warm")
    /\ Stop(t)
    /\ UNCHANGED <<epoch, loaded, altered, tally>>

\* resolved_model_contract
Contract(t, request) ==
    /\ Free(t) /\ tally.embeds < MaxEmbeds
    /\ tally' = [tally EXCEPT !.embeds = @ + 1]
    /\ IF Serves(loaded.manifest, request)
       THEN op' = [op EXCEPT ![t] = [at |-> "contract", request |-> request,
                                     contract |-> [model |-> Identity(loaded.manifest),
                                                   width |-> loaded.manifest.dimensions.native]]]
       ELSE Stop(t)
    /\ UNCHANGED <<epoch, loaded, altered>>

Preflight(t) ==
    /\ Doing(t, "contract")
    /\ LET m == loaded.manifest
           request == op[t].request
       IN  IF Serves(m, request) /\ Encodable(m, request) /\ ValidCost(Cost(m, request))
           THEN op' = [op EXCEPT ![t] = [at |-> "admitted", request |-> request,
                                         contract |-> op[t].contract, cost |-> Cost(m, request)]]
           ELSE Stop(t)
    /\ UNCHANGED <<epoch, loaded, altered, tally>>

\* embed_with_options up to run: ensure_active, the snapshot, the checks, the
\* encodings, the usage.
Snapshot(t) ==
    /\ Doing(t, "admitted")
    /\ LET m == loaded.manifest
           request == op[t].request
       IN  \/ Stop(t)
          \/ /\ Serves(m, request) /\ Encodable(m, request)
             /\ op' = [op EXCEPT ![t] = [at |-> "run", request |-> request, model |-> m,
                                         contract |-> op[t].contract, cost |-> op[t].cost,
                                         usage |-> Encodings(m, request), active |-> TRUE]]
    /\ UNCHANGED <<epoch, loaded, altered, tally>>

\* The control of the inference is cancelled or its deadline passes.
Revoke(t) ==
    /\ op[t].at \in {"run", "deliver"} /\ op[t].active
    /\ op' = [op EXCEPT ![t].active = FALSE]
    /\ UNCHANGED <<epoch, loaded, altered, tally>>

\* ensure_active, and run under the session mutex; the session may fail, a value
\* may not be finite and a norm may be zero.
Run(t) ==
    /\ Doing(t, "run")
    /\ \/ Stop(t)
       \/ /\ op[t].active
          /\ \E hidden \in Widths(op[t].model) :
                 LET vectors == Vectors(op[t].model, op[t].request, op[t].usage, hidden) IN
                 /\ vectors # Nothing
                 /\ op' = [op EXCEPT ![t] = [at |-> "deliver", request |-> op[t].request,
                                             contract |-> op[t].contract, cost |-> op[t].cost,
                                             model |-> op[t].model, usage |-> op[t].usage,
                                             vectors |-> vectors, active |-> TRUE]]
    /\ UNCHANGED <<epoch, loaded, altered, tally>>

Output(t, m) ==
    [at |-> "returned", request |-> op[t].request, contract |-> op[t].contract,
     cost |-> op[t].cost, vectors |-> op[t].vectors, usage |-> op[t].usage, model |-> Identity(m)]

\* Mutant: the output names the model that is loaded by now.
DeliverCurrent(t) ==
    /\ Doing(t, "deliver")
    /\ IF op[t].active /\ loaded.manifest # Nothing
       THEN op' = [op EXCEPT ![t] = Output(t, loaded.manifest)]
       ELSE Stop(t)
    /\ UNCHANGED <<epoch, loaded, altered, tally>>

\* The last ensure_active, and the output.
Deliver(t) ==
    /\ Doing(t, "deliver")
    /\ IF op[t].active
       THEN op' = [op EXCEPT ![t] = Output(t, op[t].model)]
       ELSE Stop(t)
    /\ UNCHANGED <<epoch, loaded, altered, tally>>

EngineNext ==
    \/ Unload
    \/ \E m \in {n \in Range(catalog.manifests) : Installed(n)} :
          \E sha \in {a.sha : a \in Range(m.artifacts)} : Alter(sha)
    \/ \E t \in Thread :
          \/ \E m \in Range(catalog.manifests) : Reserve(t, m)
          \/ \E request \in Requests : Contract(t, request)
          \/ Verify(t) \/ ReadModel(t) \/ ReadTokenizer(t) \/ Build(t) \/ Publish(t) \/ Warm(t)
          \/ Preflight(t) \/ Snapshot(t) \/ Revoke(t) \/ Run(t) \/ Deliver(t)

-----------------------------------------------------------------------------
(* Properties.                                                                 *)

\* Of the loads and unloads that took effect, the one that was asked for last
\* decides what is loaded, however long the others verified and built.
LatestTransitionWins == loaded.turn = tally.effective

\* A model that is loaded was trusted and installed, and its session and
\* tokenizer were built from the bytes its manifest declares, whenever the files
\* were altered, and from no file beside them.
LoadedIsIntact ==
    LET m == loaded.manifest IN
    m # Nothing =>
        /\ Loadable(m)
        /\ loaded.bytes = {ModelDigest(m), TokenizerDigest(m)}
        /\ \A g \in Reached(Files[ModelDigest(m)]) : ~Files[ModelDigest(m)].graphs[g].external

\* What a text gives on its own with this model: the tokens of the text itself,
\* and a vector of the asked width, of length one over that width.
Alone(m, request, text) ==
    LET n == Encoded(m, request, text)
        width == IF request.dimensions = 0 THEN m.dimensions.native ELSE request.dimensions
    IN  [tokens |-> n,
         vector |-> [positions |-> IF Files[ModelDigest(m)].rank = 2 THEN {}
                                   ELSE CASE m.pooling = "cls" -> {1}
                                          [] m.pooling = "last_token" -> {n}
                                          [] m.pooling = "mean" -> 1 .. n,
                     width |-> width,
                     unit |-> IF Normalizes(m, request) THEN width ELSE 0]]

\* An output names the one model it was computed with: its vectors and its usage
\* are those that this model gives every text on its own, whatever the texts
\* beside it and whatever was loaded or unloaded during the inference.
OutputIsOfOneModel ==
    \A t \in {u \in Thread : Doing(u, "returned")} :
        \E m \in Range(catalog.manifests) :
            /\ op[t].model = Identity(m)
            /\ op[t].request.model = m.id
            /\ \A i \in DOMAIN op[t].request.texts :
                   /\ op[t].usage[i] = Alone(m, op[t].request, op[t].request.texts[i]).tokens
                   /\ op[t].vectors[i] = Alone(m, op[t].request, op[t].request.texts[i]).vector

Totals(ns) == LET sum[i \in 0 .. Len(ns)] == IF i = 0 THEN 0 ELSE sum[i - 1] + ns[i] IN sum
Total(ns) == Totals(ns)[Len(ns)]

\* What preflight announced is what the inference takes, if the model is still
\* the one of the contract: as many rows, no more tokens, and a tensor exactly as
\* wide as the cost by which the scheduler combined the batch.
PreflightPredictsRun ==
    \A t \in {u \in Thread : op[u].at \in {"run", "deliver"}} :
        LET cost == op[t].cost IN
        op[t].contract.model = Identity(op[t].model) =>
            /\ Len(op[t].usage) = cost.items
            /\ Total(op[t].usage) <= cost.tokens
            /\ Longest(op[t].usage) = cost.longest
            /\ op[t].contract.width = op[t].model.dimensions.native
=============================================================================
