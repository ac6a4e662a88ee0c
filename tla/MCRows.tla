------------------------------- MODULE MCRows -------------------------------
(***************************************************************************)
(* A flake for TLC: two systems, one with a set below it that is recursed  *)
(* into, and two packages that share a description.                        *)
(***************************************************************************)
EXTENDS Rows

L   == <<"legacyPackages">>
LS  == <<"legacyPackages", "sys">>
LSD == <<"legacyPackages", "sys", "darwin">>
LT  == <<"legacyPackages", "tem">>

MCPaths == {L, LS, LSD, LT}
Xcode == <<LSD, "xcode">>
Hola  == <<LT, "hello">>
MCDerivations == {Xcode, Hola}
MCDescription == Xcode :> "greeting" @@ Hola :> "greeting"
MCRequested == {LS, LT}
Symmetry == Permutations(Scrapers)
MCLookups == {Append(LT, "hello"), LSD}
=============================================================================
