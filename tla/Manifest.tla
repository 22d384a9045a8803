------------------------------- MODULE Manifest ------------------------------
(***************************************************************************)
(* Model manifests: what validate accepts, the fingerprint that names a    *)
(* cache entry, the trust root, the installer's options and the catalog of *)
(* names.  Operators only; Provisioning, OnnxEngine and Adapters use them. *)
(*                                                                         *)
(* A path is a sequence of components, a URL is its scheme, host and       *)
(* whether it carries credentials, and a text is "ok", "blank" or "long".  *)
(***************************************************************************)
EXTENDS Naturals, Sequences, FiniteSetsExt

CONSTANTS
    MaxU64,       \* the largest u64
    MaxArtifacts, \* MAX_ARTIFACTS
    MaxTotal,     \* MAX_TOTAL_ARTIFACT_BYTES
    MaxWidths,    \* MAX_MATRYOSHKA_DIMENSIONS
    Lower,        \* the components that are not lower case, with their lower case
    Unsafe        \* components with a separator, a dot name, a device name...

ASSUME ManifestAssumption ==
    /\ {MaxU64, MaxArtifacts, MaxTotal} \subseteq Nat
    /\ MaxTotal < MaxU64 /\ MaxArtifacts > 0

\* A checked sum: whatever exceeds MaxU64 is an overflow, which stays one.
Overflow == MaxU64 + 1
CheckedAdd(a, b) == Min({a + b, Overflow})

\* try_fold over the numbers from the first on.
CheckedSums(ns) ==
    LET sum[i \in 0 .. Len(ns)] == IF i = 0 THEN 0 ELSE CheckedAdd(sum[i - 1], ns[i])
    IN  sum
CheckedSum(ns) == CheckedSums(ns)[Len(ns)]

Sizes(artifacts) == [i \in DOMAIN artifacts |-> artifacts[i].size]
TotalSize(artifacts) == CheckedSum(Sizes(artifacts))

-----------------------------------------------------------------------------
(* Paths and URLs.                                                             *)

ManifestFile == <<"manifest.json">>

\* to_ascii_lowercase
Folded(path) ==
    [i \in DOMAIN path |-> IF path[i] \in DOMAIN Lower THEN Lower[path[i]] ELSE path[i]]

ValidPath(path) == path # <<>> /\ Range(path) \cap Unsafe = {}

IsAncestor(parent, child) ==
    Len(parent) < Len(child) /\ SubSeq(child, 1, Len(parent)) = parent

Loopback(url) == url.scheme = "http" /\ url.host = "loopback"

\* HTTPS, or HTTP to this machine; never with credentials.
ValidUrl(url) == (url.scheme = "https" \/ Loopback(url)) /\ ~url.credentials

ValidArtifact(a) ==
    /\ ValidPath(a.path)
    /\ Folded(a.path) # ManifestFile
    /\ ValidUrl(a.url)
    /\ a.sha # "malformed"
    /\ a.size > 0

\* Mutant: paths are compared as they are written.
CaseSensitiveArtifacts(artifacts) ==
    \A i \in DOMAIN artifacts :
        /\ ValidArtifact(artifacts[i])
        /\ \A j \in DOMAIN artifacts \ {i} :
               /\ artifacts[i].path # artifacts[j].path
               /\ ~IsAncestor(artifacts[i].path, artifacts[j].path)

\* No two artifacts need the same file, nor a file where another needs a directory.
ValidArtifacts(artifacts) ==
    \A i \in DOMAIN artifacts :
        /\ ValidArtifact(artifacts[i])
        /\ \A j \in DOMAIN artifacts \ {i} :
               /\ Folded(artifacts[i].path) # Folded(artifacts[j].path)
               /\ ~IsAncestor(Folded(artifacts[i].path), Folded(artifacts[j].path))

-----------------------------------------------------------------------------
(* Manifest::validate.                                                         *)

\* What serde makes of a manifest, before anything is validated.
WellTyped(m) ==
    /\ m.artifacts \in Seq(Range(m.artifacts))
    /\ \A a \in Range(m.artifacts) : a.path \in Seq(STRING) /\ a.size \in 0 .. MaxU64
    /\ m.tokenizer.maxTokens \in Nat /\ m.dimensions.native \in Nat
    /\ m.pooling \in {"cls", "mean", "last_token"}

ValidId(id) == id.text = "ok"

\* validate_bounded_fields, and the emptiness checks of the descriptive fields.
ValidTexts(m) ==
    /\ m.license = "ok"
    /\ {m.evidence, m.tokenizer.kind, m.tensors} \subseteq {"ok"}
    /\ \A p \in Range(m.prefixes) : p # "long"

ValidRevision(m) == m.revision # "malformed"

\* Widths below the native one, each given once, in ascending order.
ValidDimensions(d) ==
    /\ d.native > 0 /\ Len(d.matryoshka) <= MaxWidths
    /\ \A i \in DOMAIN d.matryoshka : d.matryoshka[i] \in 1 .. d.native - 1
    /\ \A i \in 1 .. Len(d.matryoshka) - 1 : d.matryoshka[i] < d.matryoshka[i + 1]

CatalogOnly == [kind |-> "catalog_only"]

\* validate_runtime and validate_runtime_artifacts
ValidRuntime(m) ==
    \/ m.runtime = CatalogOnly
    \/ LET r == m.runtime IN
       /\ ValidPath(r.model) /\ ValidPath(r.tokenizer) /\ r.model # r.tokenizer
       /\ \A i, j \in DOMAIN r.inputs : i # j => r.inputs[i] # r.inputs[j]
       /\ r.inputs # <<>> /\ {"blank", "long"} \cap (Range(r.inputs) \cup {r.output}) = {}
       /\ {r.model, r.tokenizer} \subseteq {a.path : a \in Range(m.artifacts)}

\* Manifest::validate: from_json, to_json, the store and the installer all call it.
Validate(m) ==
    /\ m.schema = 1
    /\ ValidId(m.id)
    /\ ValidTexts(m)
    /\ ValidRevision(m)
    /\ m.tokenizer.maxTokens > 0
    /\ ValidDimensions(m.dimensions)
    /\ Len(m.artifacts) \in 1 .. MaxArtifacts
    /\ TotalSize(m.artifacts) # Overflow /\ TotalSize(m.artifacts) <= MaxTotal
    /\ ValidArtifacts(m.artifacts)
    /\ ValidRuntime(m)

-----------------------------------------------------------------------------
(* Identity and trust.                                                         *)

\* The artifacts in a canonical order, without their URLs.
Contents(m) == {[path |-> a.path, sha |-> a.sha, size |-> a.size] : a \in Range(m.artifacts)}

ArtifactFingerprint(m) == [id |-> m.id, revision |-> m.revision, artifacts |-> Contents(m)]

\* semantic_fingerprint: the whole inference contract; where the artifacts come
\* from and whether the manifest calls itself verified is left out.
Fingerprint(m) ==
    [schema |-> m.schema, id |-> m.id, revision |-> m.revision, tokenizer |-> m.tokenizer,
     pooling |-> m.pooling, prefixes |-> m.prefixes, dimensions |-> m.dimensions,
     tensors |-> m.tensors, runtime |-> m.runtime, artifacts |-> Contents(m)]

\* SemanticTrustRoot::curated and trusts
CuratedTrust(curated) == {Fingerprint(m) : m \in {c \in curated : c.verified}}
Trusts(root, m) == m.verified /\ Fingerprint(m) \in root

-----------------------------------------------------------------------------
(* The installer's policy.                                                     *)

Origin(url) == [scheme |-> url.scheme, host |-> url.host]

\* Installer::new
ValidOptions(o) ==
    /\ {o.maxArtifactBytes, o.maxArtifacts, o.maxTotalBytes} \subseteq Nat \ {0}
    /\ o.allowed # {}
    /\ \A origin \in o.allowed : origin.scheme = "https" \/ Loopback(origin)

\* validate_install_size
FitsOptions(o, m) ==
    /\ Len(m.artifacts) <= o.maxArtifacts
    /\ \A a \in Range(m.artifacts) : a.size <= o.maxArtifactBytes
    /\ TotalSize(m.artifacts) # Overflow /\ TotalSize(m.artifacts) <= o.maxTotalBytes

-----------------------------------------------------------------------------
(* The catalog of names (ModelCatalog): canonical ids and their aliases.       *)

ValidName(name) == name.text = "ok"

ValidCatalog(manifests, aliases) ==
    /\ manifests # <<>>
    /\ \A i \in DOMAIN manifests :
           /\ Validate(manifests[i]) /\ ValidName(manifests[i].id)
           /\ \A j \in DOMAIN manifests \ {i} : manifests[i].id # manifests[j].id
    /\ LET ids == {m.id : m \in Range(manifests)} IN
       \A i \in DOMAIN aliases :
           /\ ValidName(aliases[i].alias)
           /\ aliases[i].alias \notin ids /\ aliases[i].target \in ids
           /\ \A j \in DOMAIN aliases \ {i} : aliases[i].alias # aliases[j].alias

\* The manifests a name stands for: its own, or the one its alias points to.
Resolve(manifests, aliases, name) ==
    IF ~ValidName(name) THEN {}
    ELSE LET target == {name} \cup {a.target : a \in {b \in Range(aliases) : b.alias = name}}
         IN  {m \in Range(manifests) : m.id \in target}
=============================================================================
