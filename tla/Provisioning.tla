----------------------------- MODULE Provisioning ----------------------------
(***************************************************************************)
(* How a model gets from its origin into the cache: the catalog is checked *)
(* once, a name is resolved to a manifest, and Installer::download fetches *)
(* one artifact after the other into staging, hop by hop and chunk by      *)
(* chunk, from servers that may answer anything.  The crash safety of the  *)
(* promotion is ModelStore's; here it is one step.                         *)
(*                                                                         *)
(* Staging is a directory tree of a file system that may ignore case, so   *)
(* it holds folded paths.                                                  *)
(***************************************************************************)
EXTENDS Manifest

CONSTANTS
    Catalogs, \* catalogs the process may be built with: manifests and aliases
    Names,    \* names that are asked for
    Options,  \* InstallOptions
    Elsewhere,\* where a redirect may lead
    MaxJobs   \* installations

ASSUME ProvisioningAssumption ==
    /\ ValidOptions(Options) /\ Options.maxRedirects \in Nat /\ MaxJobs \in Nat
    /\ \A c \in Catalogs : \A m \in Range(c.manifests) : WellTyped(m)

VARIABLES
    catalog, \* the catalog in use, or NoCatalog
    job,     \* the installation that runs
    staging, \* the files of its staging directory
    cache,   \* the manifests of the installed models, one for each fingerprint
    usage    \* what the installation has asked of the network so far

supply == <<catalog, job, staging, cache, usage>>

NoCatalog == [manifests |-> <<>>, aliases |-> <<>>]

Unused == [asked |-> {}, requests |-> 0, bytes |-> 0]

NoJob == [at |-> "closed", manifest |-> <<>>, next |-> 0, url |-> <<>>, redirects |-> 0,
          received |-> 0, authentic |-> TRUE, cancelled |-> FALSE, jobs |-> 0]

ProvisioningInit ==
    /\ catalog = NoCatalog
    /\ job = NoJob
    /\ staging = {}
    /\ cache = {}
    /\ usage = Unused

At(label) == job.at = label
Artifact == job.manifest.artifacts[job.next]

\* ModelCatalog::new; a catalog that is refused ends the process.
OpenCatalog ==
    /\ At("closed")
    /\ \E c \in Catalogs :
           /\ catalog' = c
           /\ job' = [job EXCEPT !.at = IF ValidCatalog(c.manifests, c.aliases)
                                        THEN "idle" ELSE "refused"]
    /\ UNCHANGED <<staging, cache, usage>>

\* The installation is over; what it staged stays until the next one.
End(why) ==
    /\ job' = [NoJob EXCEPT !.at = why, !.jobs = job.jobs]
    /\ usage' = Unused
    /\ UNCHANGED <<catalog, staging, cache>>

\* status_inner: the directory of the fingerprint holds this very manifest.
Installed(m) == m \in cache

\* install_transaction up to the first request: resolve_owned, the limits, the
\* status, offline mode, and prepare_staging.
Begin(name) ==
    /\ job.at \in {"idle", "failed", "installed"} /\ job.jobs < MaxJobs
    /\ \E m \in Resolve(catalog.manifests, catalog.aliases, name) :
           job' = IF ~(Validate(m) /\ FitsOptions(Options, m))
                  THEN [NoJob EXCEPT !.at = "failed", !.jobs = job.jobs + 1]
                  ELSE IF Installed(m)
                  THEN [NoJob EXCEPT !.at = "installed", !.jobs = job.jobs + 1]
                  ELSE IF Options.offline
                  THEN [NoJob EXCEPT !.at = "failed", !.jobs = job.jobs + 1]
                  ELSE [NoJob EXCEPT !.at = "send", !.jobs = job.jobs + 1, !.manifest = m,
                                     !.next = 1, !.url = m.artifacts[1].url]
    /\ staging' = IF job'.at = "send" THEN {} ELSE staging
    /\ UNCHANGED <<catalog, cache, usage>>

\* Somebody cancels: a caller, or the shutdown.
Cancel ==
    /\ job.at \in {"send", "sent", "body", "commit"} /\ ~job.cancelled
    /\ job' = [job EXCEPT !.cancelled = TRUE]
    /\ UNCHANGED <<catalog, staging, cache, usage>>

\* Mutant: only the URL of the manifest is checked, not where it leads.
SendUnchecked ==
    /\ At("send")
    /\ IF job.cancelled \/ (job.redirects = 0 /\ Origin(job.url) \notin Options.allowed)
       THEN End("failed")
       ELSE /\ job' = [job EXCEPT !.at = "sent"]
            /\ usage' = [usage EXCEPT !.asked = @ \cup {Origin(job.url)}, !.requests = @ + 1]
            /\ UNCHANGED <<catalog, staging, cache>>

\* The head of download's loop: ensure_allowed for this hop, then the request.
Send ==
    /\ At("send")
    /\ IF job.cancelled \/ Origin(job.url) \notin Options.allowed
       THEN End("failed")
       ELSE /\ job' = [job EXCEPT !.at = "sent"]
            /\ usage' = [usage EXCEPT !.asked = @ \cup {Origin(job.url)}, !.requests = @ + 1]
            /\ UNCHANGED <<catalog, staging, cache>>

\* A redirect with a usable Location, counted before it is followed.
Redirected ==
    /\ At("sent")
    /\ IF job.redirects >= Options.maxRedirects
       THEN End("failed")
       ELSE /\ \E url \in Elsewhere :
                   job' = [job EXCEPT !.at = "send", !.url = url, !.redirects = @ + 1]
            /\ UNCHANGED <<catalog, staging, cache, usage>>

\* wait_for_cancel wins the select; or the transport fails, the status is not
\* 200, or a redirect has no usable Location.
Broken == job.at \in {"sent", "body"} /\ End("failed")

\* A file or directory that create_contained_parent_directories or
\* create_new_contained_file meets where it needs the other.
Collides(path) ==
    \E file \in staging : file = path \/ IsAncestor(file, path) \/ IsAncestor(path, file)

\* 200: validate_content_length, if a length is given, and the new file in staging.
Accepted(length) ==
    /\ At("sent")
    /\ IF \E n \in length : n > Artifact.size
       THEN End("failed")
       ELSE IF Collides(Folded(Artifact.path))
       THEN End("collision")
       ELSE /\ job' = [job EXCEPT !.at = "body"]
            /\ staging' = staging \cup {Folded(Artifact.path)}
            /\ UNCHANGED <<catalog, cache, usage>>

\* The next n bytes of the body, which are those the digest expects or not.
Chunk(n, authentic) ==
    /\ At("body")
    /\ LET received == CheckedAdd(job.received, n) IN
       IF received = Overflow \/ received > Artifact.size \/ received > Options.maxArtifactBytes
       THEN End("failed")
       ELSE /\ job' = [job EXCEPT !.received = received, !.authentic = @ /\ authentic]
            /\ usage' = [usage EXCEPT !.bytes = @ + n]
            /\ UNCHANGED <<catalog, staging, cache>>

\* The body ends: size and digest decide, then comes the next artifact.
BodyEnds ==
    /\ At("body")
    /\ IF job.received # Artifact.size \/ ~job.authentic
       THEN End("failed")
       ELSE /\ IF job.next = Len(job.manifest.artifacts)
               THEN job' = [job EXCEPT !.at = "commit"]
               ELSE job' = [job EXCEPT !.at = "send", !.next = @ + 1, !.received = 0,
                                       !.redirects = 0,
                                       !.url = job.manifest.artifacts[job.next + 1].url]
            /\ usage' = [usage EXCEPT !.requests = 0]
            /\ UNCHANGED <<catalog, staging, cache>>

\* The last look at the token, begin_commit, manifest.json and the promotion.
Commit ==
    /\ At("commit")
    /\ IF job.cancelled
       THEN End("failed")
       ELSE IF Collides(ManifestFile)
       THEN End("failed")
       ELSE /\ cache' = {m \in cache : Fingerprint(m) # Fingerprint(job.manifest)}
                        \cup {job.manifest}
            /\ job' = [NoJob EXCEPT !.at = "installed", !.jobs = job.jobs]
            /\ staging' = {}
            /\ usage' = Unused
            /\ UNCHANGED catalog

ProvisioningNext ==
    \/ OpenCatalog \/ Cancel \/ Send \/ Redirected \/ Broken \/ BodyEnds \/ Commit
    \/ \E name \in Names : Begin(name)
    \/ At("sent") /\ \E length \in {{}} \cup {{n} : n \in 0 .. Artifact.size + 1} : Accepted(length)
    \/ At("body") /\ \E n \in 1 .. Artifact.size + 1, ok \in BOOLEAN : Chunk(n, ok)

-----------------------------------------------------------------------------
(* Properties.                                                                 *)

\* An installation asks only allowed origins, wherever redirects lead, no more
\* than max_redirects + 1 times for an artifact, and never writes more bytes
\* than the configured total, whatever the servers answer.
DownloadIsBounded ==
    /\ usage.asked \subseteq Options.allowed
    /\ usage.requests <= Options.maxRedirects + 1
    /\ usage.bytes <= Options.maxTotalBytes
    /\ job.at \in {"send", "sent", "body", "commit"} =>
           usage.bytes <= TotalSize(job.manifest.artifacts)

\* What a catalog accepted can be laid out: no artifact finds its place taken by
\* another one, even where the file system ignores case.  manifest.json finds its
\* own taken in one case only, which validate does not refuse: an artifact that
\* is to lie in a directory of that name.
StagingNeverCollides ==
    /\ ~At("collision")
    /\ At("commit") /\ Collides(ManifestFile) =>
           \E a \in Range(job.manifest.artifacts) : IsAncestor(ManifestFile, Folded(a.path))
=============================================================================
