CONSTANTS
    a = a
    b = b
    s1 = s1
    s2 = s2
    dflt = dflt
    grp = grp
    w1 = w1
    w2 = w2
    n1 = n1
    n2 = n2
    f1 = f1
    f2 = f2
    r1 = r1
    r2 = r2
    Names = {n1, n2}
    Lex <- MCLex
    Refs = {f1, f2}
    Revs = {r1, r2}
    Absent = Absent
    Iids = {a, b}
    Systems = {s1, s2}
    Groups = {dflt, grp}
    Default = dflt
    Wants = {w1, w2}
    Priorities = {5, 6}
    Offers <- MCOffers
    Null = Null
    NoLock = NoLock
    Manifests <- MCManifests
    Globals <- MCGlobals
    Upgrades <- MCUpgrades
SPECIFICATION Spec
PROPERTY OthersAreTried
