----------------------------- MODULE MCLocking -----------------------------
(***************************************************************************)
(* Small manifests for TLC.                                                *)
(***************************************************************************)
EXTENDS Locking

CONSTANTS a, b, s1, s2, dflt, grp, w1, w2, n1, n2, f1, f2, r1, r2

\* What a has in r1, r2 has as well; b is only in r2, and on one system.
MCOffers == r1 :> [s \in Systems |-> {w1}] @@
            r2 :> (s1 :> {w1, w2} @@ s2 :> {w1})

Desc(w, g) == [want |-> w, group |-> g, optional |-> FALSE,
               systems |-> {s1, s2}, priority |-> 5]
Opt(d) == [d EXCEPT !.optional = TRUE]
Only(d, S) == [d EXCEPT !.systems = S]

NoInputs == [inputs |-> [n \in Names |-> Absent], priority |-> << >>]
Second == [inputs |-> n1 :> Absent @@ n2 :> f2, priority |-> <<n2>>]

Mk(da, dd, S, r) == [install |-> a :> da @@ b :> dd, systems |-> S, registry |-> r]

A == Desc(w1, dflt)
B == Desc(w2, dflt)
In(d, g) == [d EXCEPT !.group = g]

\* A member is added, asks for something else, stops being optional, changes
\* its group, its priority or its systems; systems and inputs come and go.
MCManifests ==
    {Mk(A, Absent, {s1, s2}, NoInputs),
     Mk(A, Desc(w1, dflt), {s1}, Second),
     Mk(In(A, grp), Opt(B), {s1}, NoInputs),
     Mk(In(A, grp), B, {s1}, Second),
     Mk(In(A, grp), [Only(B, {s1}) EXCEPT !.priority = 6], {s1, s2}, Second),
     Mk(In(A, grp), In(B, grp), {s1}, Second)}

MCGlobals == {NoInputs, [inputs |-> n1 :> f1 @@ n2 :> Absent, priority |-> <<n1>>]}
MCUpgrades == {{}, {a}}
MCLex == <<n1, n2>>
=============================================================================
