----------------------------- MODULE MCSession -----------------------------
(* An instance of Session for TLC: two inputs, whose references move from   *)
(* one command to the next, manifests with and without a registry, a lock   *)
(* that pins one input, directories, and parameters of each kind.           *)
EXTENDS Session

MCLexical == <<"floxpkgs", "nixpkgs">>
MCNumbers == 0..3
MCTags == 0..1
MCCutTag == [t \in MCTags |-> t]

V(a, b, c) == Dotted("", <<a, b, c>>, 0)

From(ref, subtrees) == [from |-> ref, subtrees |-> subtrees]

MCGARegistry ==
    [NoRegistry EXCEPT !.inputs = "nixpkgs" :> From("np", <<"legacyPackages">>),
                       !.priority = <<"nixpkgs">>]

MCPoints ==
    [s \in 1..MaxSessions |-> ("np" :> (IF s = 1 THEN "np1" ELSE "np2")) @@
                              ("fx" :> (IF s = 1 THEN "fx1" ELSE "fx2"))]

MCFlakeSubtrees == [r \in {"np1", "np2"} |-> <<"legacyPackages">>] @@
                   [r \in {"fx1", "fx2"} |-> <<"packages">>]

Hello(version) == Row("s1", "legacyPackages", <<"hello">>, "hello", version)

MCPackages ==
    ("np1" :> { Hello(V(1, 2, 3)),
                [Row("s1", "legacyPackages", <<"tools", "jq">>, "jq", V(1, 0, 0))
                    EXCEPT !.description = "a hello"],
                Row("s2", "legacyPackages", <<"hello">>, "hello", V(1, 2, 3)) }) @@
    ("np2" :> { Hello(V(1, 3, 0)), [Hello(V(2, 0, 0)) EXCEPT !.unfree = TRUE] }) @@
    ("fx1" :> { Row("s1", "packages", <<"hello">>, "hello", V(1, 2, 3)),
                Hello(V(3, 0, 0)) }) @@
    ("fx2" :> { Row("s1", "packages", <<"jq">>, "jq", None) })

MCAlphabet == ("hello" :> 1) @@ ("jq" :> 2)
MCLikes == {"he"} \X {"hello", "a hello"}

MCCached0 == {{<<"fx1", "legacyPackages", "s1">>, <<"np1", "legacyPackages", "s1">>}}

Both ==
    [inputs |-> ("nixpkgs" :> [from |-> "np"]) @@
                ("floxpkgs" :> From("fx", <<"packages">>)),
     defaults |-> [subtrees |-> <<"legacyPackages">>], priority |-> <<"nixpkgs">>]
Only(name, ref) == [inputs |-> name :> [from |-> ref]]

OneSystem == [systems |-> <<"s1">>, allow |-> [unfree |-> FALSE]]

M1 == [registry |-> Both, options |-> [systems |-> <<"s1", "s2">>]]
M2 == [install |-> "hello" :> None, options |-> OneSystem]
M3 == [registry |-> Only("floxpkgs", "fx")]
G1 == [registry |-> Only("nixpkgs", "np"), options |-> OneSystem]

Lock(reg, manifest) == [manifest |-> manifest, registry |-> reg]
L1 == Lock([NoRegistry EXCEPT !.inputs = "nixpkgs" :> From("np1", <<"legacyPackages">>)],
           [options |-> [allow |-> [broken |-> TRUE, unfree |-> TRUE]]])

\* In the directory d1 are a manifest and a lock, in d2 another manifest, and
\* d3 has no more than a malformed global manifest.
MCFiles0 ==
    LET paths == {"d1", "d2", "d3"} \X
                 {"manifest.json", "manifest.toml", "manifest.yaml", "manifest.lock", "global"}
        full == (<<"d1", "manifest.json">> :> M1) @@ (<<"d1", "manifest.lock">> :> L1) @@
                (<<"d2", "manifest.toml">> :> M2) @@ (<<"d2", "manifest.yaml">> :> M3) @@
                (<<"d2", "global">> :> G1) @@ (<<"d3", "global">> :> Malformed)
    IN  full @@ [p \in paths |-> None]

At(dir, name) == [at |-> <<dir, name>>]
Raw(json) == [raw |-> json]
M1At == At("d1", "manifest.json")

MCParams ==
    { Malformed, [unknown |-> None], [i \in {} |-> None],
      [manifest |-> M1At], [manifest |-> M1At, lockfile |-> At("d1", "manifest.lock")],
      [manifest |-> Raw(M2), globalManifest |-> Raw(G1)],
      [manifest |-> Raw(M3), globalManifest |-> At("d2", "global"), lockfile |-> Raw(L1)],
      [manifest |-> Raw([options |-> [systems |-> <<"s3">>]]), lockfile |-> At("d2", "manifest.lock")],
      [manifest |-> Raw([registry |-> Only("nixpkgs", "indirect")])],
      [manifest |-> M1At, query |-> [pname |-> "hello", version |-> V(1, 2, 3)]],
      [manifest |-> M1At, query |-> [partialMatch |-> "he", semver |-> None]],
      [manifest |-> M1At, query |-> [name |-> <<"hello", V(1, 2, 3)>>]],
      [query |-> [unknown |-> "he"]], [globalManifest |-> None, manifest |-> None, query |-> None] }

MCOptions ==
    [params |-> MCParams, dir |-> {"d1", "d2", "d3"},
     pname |-> {"hello"}, version |-> {V(1, 2, 3)},
     semver |-> {Dotted("^", <<1, 2, 3>>, 0)},
     partialNameMatch |-> {"he"},
     globalManifest |-> {<<"d2", "global">>, <<"d3", "global">>},
     manifest |-> {<<"d1", "manifest.json">>, <<"d2", "manifest.toml">>, <<"d2", "manifest.yaml">>},
     lockfile |-> {<<"d1", "manifest.lock">>, <<"d3", "manifest.lock">>},
     input |-> {"nixpkgs", "floxpkgs"}]
=============================================================================
