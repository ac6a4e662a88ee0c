------------------------------ MODULE MCLookup ------------------------------
(* An instance of Lookup for TLC: two systems, two inputs with different    *)
(* subtrees, a database with the packages that versions, tags, paths, flags *)
(* and licenses tell apart, and entries for each field of a descriptor.     *)
EXTENDS Lookup, TLC

MCNumbers == {0, 1, 2, 3, 4, 9, 10, 23, 30}

\* Tags and words: 1 `alpha', 2 `ne', 3 `next.1' and 4 `next.2', which
\* cleanRange() cuts to `ne', 5 `rc'.
MCTags == 0..5
MCCutTag == [t \in MCTags |-> IF t \in {3, 4} THEN 2 ELSE t]

V(a, b, c) == Dotted("", <<a, b, c>>, 0)
Pre(a, b, c) == Dotted("", <<a, b, c>>, 5)
Date == Text("date", "", <<23, 10, 30>>, FALSE, 0)
Word == Text("word", "", <<>>, FALSE, 5)
Kind(kind) == Text(kind, "", <<>>, FALSE, 0)

(* What node-semver says of some ranges, by its documentation. *)
ASSUME RangeExamples ==
    LET In(v, r) == Satisfies(v, r)
    IN  /\ In(V(1, 9, 0), Dotted("^", <<1, 2, 3>>, 0)) /\ ~In(V(2, 0, 0), Dotted("^", <<1, 2, 3>>, 0))
        /\ In(V(0, 2, 9), Dotted("^", <<0, 2, 3>>, 0)) /\ ~In(V(0, 3, 0), Dotted("^", <<0, 2, 3>>, 0))
        /\ In(V(1, 2, 9), Dotted("~", <<1, 2>>, 0)) /\ ~In(V(1, 3, 0), Dotted("~", <<1, 2>>, 0))
        /\ In(V(1, 9, 0), Dotted("~", <<1>>, 0)) /\ ~In(V(1, 2, 2), Dotted("~", <<1, 2, 3>>, 0))
        /\ In(V(2, 0, 0), Dotted(">", <<1, 2>>, 0)) /\ ~In(V(1, 2, 9), Dotted(">", <<1, 2>>, 0))
        /\ In(Pre(1, 2, 3), Dotted("~", <<1, 2, 3>>, 1)) /\ ~In(Pre(1, 2, 3), Dotted("~", <<1, 2, 3>>, 0))
        /\ In(V(1, 2, 9), Dotted("", <<1, 2>>, 0)) /\ ~In(V(1, 2, 9), Dotted("", <<1, 2, 3>>, 0))

Legacy(path, pname, version) == Row("s1", "legacyPackages", path, pname, version)

MCCatalog ==
    { Legacy(<<"h1">>, "hello", V(1, 2, 3)),
      Legacy(<<"h2">>, "hello", V(1, 9, 0)),
      Legacy(<<"h3">>, "hello", Pre(2, 0, 0)),
      Legacy(<<"h3-rc">>, "hello", Pre(1, 2, 4)),
      Legacy(<<"h3-next">>, "hello", Dotted("", <<1, 2, 3>>, 3)),
      Legacy(<<"h4">>, "hello", V(9, 0, 0)),
      Legacy(<<"h5">>, "hello", Pre(10, 0, 0)),
      Legacy(<<"h6">>, "hello", Date),
      Legacy(<<"h7">>, "hello", Word),
      Legacy(<<"h8">>, "hello", None),
      [Legacy(<<"h9">>, "hello", V(1, 2, 4)) EXCEPT !.broken = TRUE],
      [Legacy(<<"h0">>, "hello", V(3, 0, 0)) EXCEPT !.unfree = TRUE, !.broken = FALSE],
      [Legacy(<<"tools", "hello">>, "hello-tools", V(1, 2, 3)) EXCEPT !.license = "MIT"],
      Row("s1", "packages", <<"hello">>, "hello", V(1, 0, 0)),
      Row("s2", "legacyPackages", <<"h1">>, "hello", V(1, 2, 3)),
      Row("s2", "legacyPackages", <<"tools", "h1">>, "hello", Pre(1, 2, 3)),
      Row("s2", "legacyPackages", <<"more", "h1">>, "hello", Pre(1, 2, 3)) }

MCAlphabet ==
    LET names == <<"h0", "h1", "h2", "h3", "h3-next", "h3-rc", "h4", "h5", "h6", "h7", "h8", "h9",
                   "hello", "hello-tools">>
    IN  [n \in ToSet(names) |-> CHOOSE i \in DOMAIN names : names[i] = n]

MCReg ==
    [inputs |-> ("a" :> [subtrees |-> None, from |-> "flake"]) @@
                ("b" :> [subtrees |-> <<"packages", "legacyPackages">>, from |-> "flake"]),
     defaults |-> [subtrees |-> <<"legacyPackages">>], priority |-> <<>>]

MCLexical == <<"a", "b">>
MCGARegistry ==
    [NoRegistry EXCEPT !.inputs = [n \in {"a"} |-> [subtrees |-> None, from |-> "ga"]],
                       !.priority = <<"a">>]

Versions_ ==
    { V(1, 2, 3), V(2, 0, 0), Pre(10, 0, 0), Date, Word, Kind("star"), Kind("any"), EmptyText,
      Dotted("=", <<1, 2, 3>>, 0), [Date EXCEPT !.op = "="], Dotted("", <<1, 2>>, 0),
      Text("dotted", "", <<1>>, TRUE, 0), Dotted("^", <<1, 2, 3>>, 0),
      Dotted("^", <<1, 9>>, 0), Dotted("~", <<1, 2>>, 0), Dotted("~", <<1, 2, 3>>, 5),
      Dotted("~", <<2>>, 0), Dotted(">", <<1, 2, 3>>, 0) }

TextPath(parts) == [list |-> FALSE, parts |-> parts]
ListPath(parts) == [list |-> TRUE, parts |-> parts]

Paths == { TextPath(<<"tools", "hello">>), ListPath(<<"tools", "hello">>), TextPath(<<"h1", "">>),
           ListPath(<<"h2">>) }

AbsPaths ==
    { TextPath(<<"legacyPackages", "*", "h1">>), TextPath(<<"legacyPackages", "s1", "tools", "hello">>),
      ListPath(<<"packages", None, "hello">>), ListPath(<<"packages", "s2", "hello">>),
      TextPath(<<"others", "s1", "hello">>), TextPath(<<"packages", "hello">>) }

MCEntries ==
    { None, Malformed, [name |-> Malformed], [unknown |-> "field"], [i \in {} |-> None],
      [name |-> "hello", optional |-> TRUE, group |-> "g", priority |-> 1],
      [systems |-> <<"s2">>], [systems |-> <<"s3">>], [name |-> "h1"], [name |-> "other"],
      [name |-> ""], [name |-> "h3-next", version |-> Dotted("~", <<1, 2, 3>>, 4)] }
    \cup {[version |-> v] : v \in Versions_}
    \cup {[name |-> "h1", version |-> v] : v \in {V(1, 2, 3), Dotted("^", <<1>>, 0)}}
    \cup {[path |-> p, name |-> n] : p \in Paths, n \in {"hello", None}}
    \cup {[absPath |-> p, name |-> n] : p \in AbsPaths, n \in {"hello", None}}
    \cup {[absPath |-> p, systems |-> s] : p \in AbsPaths, s \in {<<"s1">>, <<"s1", "s2">>}}
    \cup {[absPath |-> p, version |-> v, systems |-> s] :
             p \in AbsPaths, v \in Versions_, s \in {None, <<"s2">>}}
    \cup {[path |-> p, version |-> v, name |-> n] :
             p \in Paths, v \in Versions_, n \in {"hello", "h1"}}
    \cup {[absPath |-> p, path |-> q] : p \in AbsPaths, q \in Paths}

MCStrings ==
    {[input |-> i, parts |-> p, version |-> v] :
        i \in {None, "a"}, v \in {None, V(1, 2, 3), Dotted("~", <<1, 2>>, 5)},
        p \in { <<>>, <<"*">>, <<"hello">>, <<"hello", "">>, <<"tools", "hello">>,
                <<"tools", "*", "hello">>, <<"tools", "", "hello">>, <<"a", "b", "c">>,
                <<"packages", "s1", "hello">>, <<"packages", "*", "hello">>,
                <<"packages", "null", "tools", "hello">>, <<"packages", "hello">>,
                <<"packages", "s1", "*">>, <<"packages", "s1", "h*">>,
                <<"packages", "others", "hello">> }}

MCManifestOptions ==
    { None, [allow |-> [unfree |-> FALSE]], [semver |-> None],
      [systems |-> <<"s1", "s2">>, allow |-> [broken |-> TRUE]],
      [systems |-> <<"s2", "s3">>, semver |-> [preferPreReleases |-> FALSE]],
      [systems |-> <<"s1">>, allow |-> [licenses |-> <<"MIT">>, broken |-> None]],
      [allow |-> [licenses |-> <<>>]],
      [semver |-> [i \in {} |-> None], allow |-> None] }
MCOldOptions == { None, [allow |-> [broken |-> FALSE, licenses |-> <<"GPL'">>]],
                  [allow |-> [unfree |-> TRUE]] }
MCGlobalOptions == { None, [semver |-> [preferPreReleases |-> TRUE], allow |-> [unfree |-> FALSE]] }
=============================================================================
