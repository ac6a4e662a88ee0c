------------------------------ MODULE MCScrape ------------------------------
(***************************************************************************)
(* Small flakes for TLC.                                                   *)
(***************************************************************************)
EXTENDS Scrape, TLC

L   == <<"legacyPackages">>
LS  == <<"legacyPackages", "sys">>              \* what search scrapes
LSD == <<"legacyPackages", "sys", "darwin">>    \* recursed into, by name
LSX == <<"legacyPackages", "sys", "extra">>     \* not recursed into
LSXP == <<"legacyPackages", "sys", "extra", "py">>  \* marked for recursion
LO  == <<"legacyPackages", "other">>            \* not in the flake
K   == <<"packages">>
KS  == <<"packages", "sys">>                    \* one attribute throws

MCAttrSets == {L, LS, LSD, LSX, LSXP, K, KS}
MCPaths == MCAttrSets \cup {LO}
MCDerivations == {<<LS, "hello">>, <<LSD, "xcode">>, <<LSX, "tool">>,
                  <<LSXP, "pip">>, <<KS, "hello">>}
MCRecurseMarked == {LSXP}
MCBroken == {KS, LSD}
MCPrefixes == {LS, LSX, LSXP, KS, LO}

Symmetry == Permutations(Scrapers)
MCFewPrefixes == {LS, KS}
=============================================================================
