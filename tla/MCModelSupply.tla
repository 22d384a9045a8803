---------------------------- MODULE MCModelSupply ----------------------------
(* Two models that can be served, one whose graph hides a tensor in another   *)
(* file two levels down, and catalogs that have to be refused.                *)
EXTENDS ModelSupply, TLC

MCLower == [c \in {"Model.onnx", "Manifest.json"} |->
                IF c = "Model.onnx" THEN "model.onnx" ELSE "manifest.json"]
MCUnsafe == {"..", "con"}
MCExtension == [c \in {"model.onnx", "Model.onnx", "tokenizer.json"} |->
                    IF c = "tokenizer.json" THEN "json" ELSE "onnx"]

Home == [scheme |-> "https", host |-> "home"]
Cdn == [scheme |-> "https", host |-> "cdn"]
Other == [scheme |-> "https", host |-> "other"]
Plain == [scheme |-> "http", host |-> "home"]
At2(origin) == [scheme |-> origin.scheme, host |-> origin.host, credentials |-> FALSE]

MCOptions == [offline |-> FALSE, allowed |-> {Home, Cdn}, maxRedirects |-> 1,
              maxArtifactBytes |-> 2, maxArtifacts |-> 2, maxTotalBytes |-> 3]
MCElsewhere == {At2(Cdn), At2(Other), At2(Plain)}

File(path, sha, size) == [path |-> path, url |-> At2(Home), sha |-> sha, size |-> size]

Named(name) == [text |-> "ok", name |-> name]

\* The first model: last-token pooling, a width below the native one, a prefix.
Alpha ==
    [schema |-> 1, id |-> Named("alpha"), license |-> "ok", evidence |-> "ok", tensors |-> "ok",
     tokenizer |-> [kind |-> "ok", maxTokens |-> 3],
     prefixes |-> [query |-> "ok", document |-> "blank"],
     revision |-> "r1", dimensions |-> [native |-> 4, matryoshka |-> <<2>>],
     artifacts |-> <<File(<<"model.onnx">>, "a", 2), File(<<"onnx", "tokenizer.json">>, "at", 1)>>,
     runtime |-> [kind |-> "onnx", model |-> <<"model.onnx">>,
                  tokenizer |-> <<"onnx", "tokenizer.json">>,
                  inputs |-> <<"ids", "mask">>, output |-> "hidden", normalize |-> TRUE],
     pooling |-> "last_token", verified |-> TRUE]

Beta == [Alpha EXCEPT !.id = Named("beta"), !.pooling = "mean",
                      !.dimensions = [native |-> 2, matryoshka |-> <<>>],
                      !.artifacts = <<File(<<"model.onnx">>, "b", 1),
                                      File(<<"onnx", "tokenizer.json">>, "bt", 1)>>]

External == [Beta EXCEPT !.artifacts[1].sha = "x"]
Unproven == [Beta EXCEPT !.verified = FALSE]
Listed == [Beta EXCEPT !.runtime = CatalogOnly]
Claimed == [Beta EXCEPT !.pooling = "cls"]
Mirrored == [Beta EXCEPT !.artifacts[1].url = At2(Cdn)]
MCCurated == {Alpha, Beta, External, Unproven, Listed}

\* Manifests that validate refuses.
CaseTwins == [Listed EXCEPT !.artifacts[2].path = <<"Model.onnx">>]
FileAndDirectory == [Listed EXCEPT !.artifacts[1].path = <<"onnx">>]
Overwriting == [Listed EXCEPT !.artifacts[2].path = <<"Manifest.json">>]
Immense == [Beta EXCEPT !.artifacts[1].size = MaxU64]
Escaping == [Beta EXCEPT !.artifacts[1].path = <<"..", "model.onnx">>]
Descending == [Alpha EXCEPT !.dimensions.matryoshka = <<2, 1>>]

\* Two that validate accepts: the installer's limits refuse one, and the other
\* cannot be laid out beside manifest.json.
Beneath == [Listed EXCEPT !.artifacts[2].path = <<"Manifest.json", "tokenizer.json">>]
Large == [Beta EXCEPT !.artifacts[1].size = 3]

Short(target) == [alias |-> Named("short"), target |-> Named(target)]

MCCatalogs ==
    {[manifests |-> <<Alpha, Beta>>, aliases |-> <<Short("alpha")>>],
     [manifests |-> <<Alpha, Alpha>>, aliases |-> <<>>],
     [manifests |-> <<Alpha>>, aliases |-> <<Short("beta")>>],
     [manifests |-> <<Alpha, Beta>>, aliases |-> <<Short("alpha"), Short("beta")>>]}
    \cup {[manifests |-> <<m>>, aliases |-> <<>>] :
              m \in {External, Unproven, Claimed, Listed, Mirrored, Large, Beneath, CaseTwins,
                     FileAndDirectory, Overwriting, Immense, Escaping, Descending}}

MCNames == {Named("short"), Named("beta"), [text |-> "long", name |-> "beta"]}

Graph(external, nested) == [external |-> external, nested |-> nested]
Model(graphs, width) ==
    [graphs |-> graphs, roots |-> {1}, functions |-> {[external |-> FALSE, nested |-> {}]},
     inputs |-> <<"mask", "ids">>, integers |-> TRUE, outputs |-> <<"hidden">>, rank |-> 3,
     width |-> width]

MCFiles ==
    [sha \in {"a", "at", "b", "bt", "x"} |->
        CASE sha = "a" -> Model(<<Graph(FALSE, {})>>, 0)
          [] sha = "b" -> Model(<<Graph(FALSE, {2}), Graph(FALSE, {})>>, 2)
          [] sha = "x" -> Model(<<Graph(FALSE, {2}), Graph(FALSE, {3}), Graph(TRUE, {})>>, 2)
          [] OTHER -> [added |-> IF sha = "at" THEN 1 ELSE 0, cut |-> IF sha = "at" THEN 3 ELSE 9]]

Text(n, prefixed) == [tokens |-> n, prefixed |-> prefixed]
MCRequests ==
    {[model |-> Named("alpha"), texts |-> <<Text(1, FALSE), Text(3, TRUE), Text(1, TRUE)>>,
      task |-> "query", truncate |-> TRUE, dimensions |-> 2, normalize |-> "model"],
     [model |-> Named("alpha"), texts |-> <<Text(3, FALSE), Text(1, FALSE)>>,
      task |-> "document", truncate |-> FALSE, dimensions |-> 0, normalize |-> "model"],
     [model |-> Named("beta"), texts |-> <<Text(4, FALSE)>>,
      task |-> "document", truncate |-> FALSE, dimensions |-> 0, normalize |-> "no"],
     [model |-> Named("beta"), texts |-> <<Text(0, FALSE), Text(1, FALSE)>>,
      task |-> "query", truncate |-> FALSE, dimensions |-> 0, normalize |-> "no"]}

Symmetry == Permutations(Thread)
=============================================================================
