------------------------------- MODULE Locks -------------------------------
(***************************************************************************)
(* Manifests, lockfiles, and the functions of the resolver on them.        *)
(*                                                                         *)
(* A manifest maps install IDs to descriptors.  What a descriptor asks for *)
(* (its name, path, version, range, subtree and input) is one value, for   *)
(* the resolver compares those fields and passes them to a query.  An      *)
(* input offers what its flake has packages for, system by system.  A      *)
(* descriptor with no list of systems lists them all here: systemSkipped() *)
(* tells the two no further apart.                                         *)
(***************************************************************************)
EXTENDS Registry

CONSTANTS
    Iids,       \* install IDs
    Systems,    \* e.g. x86_64-linux
    Groups,     \* package groups, the default group among them
    Default,    \* the default group
    Wants,      \* what a descriptor may ask for
    Priorities,
    Offers,     \* Offers[r][s]: what revision r has a package for on s
    Null,       \* the lock of a package that was not resolved
    NoLock      \* no lockfile

ASSUME LocksAssumption ==
    /\ Default \in Groups
    /\ Offers \in [Revs -> [Systems -> SUBSET Wants]]
    /\ Absent \notin Systems

Descriptor == [want : Wants, group : Groups, optional : BOOLEAN,
               systems : SUBSET Systems, priority : Priorities]

Manifest == [install : [Iids -> Descriptor \cup {Absent}],
             systems : SUBSET Systems,
             registry : RegistryOf(Refs)]

Package == [input : Revs, got : Wants, priority : Priorities]

SystemPackages == [Iids -> Package \cup {Null, Absent}]

Lock == [manifest : Manifest,
         registry : RegistryOf(Revs),
         packages : [Systems -> SystemPackages \cup {Absent}]]

ASSUME MarkersAssumption ==
    /\ Absent \notin Descriptor \cup Package \cup SystemPackages
    /\ Null \notin Package \cup {Absent}
    /\ NoLock \notin Lock

NoPackages == [i \in Iids |-> Absent]

Installed(m) == {i \in Iids : m.install[i] # Absent}

\* getGroupedDescriptors().
Members(m, g) == {i \in Installed(m) : m.install[i].group = g}
GroupsOf(m) == {m.install[i].group : i \in Installed(m)}

\* systemSkipped().
SystemSkipped(s, d) == s \notin d.systems

\* The lock has a package for install ID i on system s.
IsLocked(l, s, i) == l.packages[s] # Absent /\ l.packages[s][i] \in Package

HasNull(l) == \E s \in Systems : /\ l.packages[s] # Absent
                                 /\ \E i \in Iids : l.packages[s][i] = Null
-----------------------------------------------------------------------------
\* Lockfile::checkGroups(): the packages of a group have one input.  (The test
\* that should pass over skipped systems compares iterators of two vectors and
\* never does; a skipped descriptor is passed over because its lock is null.)
CheckGroups(l) ==
    \A g \in GroupsOf(l.manifest), s \in l.manifest.systems :
        l.packages[s] # Absent =>
            /\ \A i \in Members(l.manifest, g) : l.packages[s][i] # Absent
            /\ \A i, j \in Members(l.manifest, g) :
                 IsLocked(l, s, i) /\ IsLocked(l, s, j)
                   => l.packages[s][i].input = l.packages[s][j].input

\* Mutants: a group is locked although a member was in another group, was
\* optional, or asked for something else; the relocking that a comment proposes.
GroupIsLocked_NoGroup(m, g, old, s, ups) ==
    /\ old.packages[s] # Absent
    /\ Members(m, g) \cap ups = {}
    /\ \A i \in Members(m, g) :
         LET new == m.install[i]
             was == old.manifest.install[i]
         IN  /\ was # Absent
             /\ new.want = was.want
             /\ new.optional = was.optional
             /\ SystemSkipped(s, new) = SystemSkipped(s, was)
             /\ old.packages[s][i] # Absent

GroupIsLocked_NoOptional(m, g, old, s, ups) ==
    /\ old.packages[s] # Absent
    /\ Members(m, g) \cap ups = {}
    /\ \A i \in Members(m, g) :
         LET new == m.install[i]
             was == old.manifest.install[i]
         IN  /\ was # Absent
             /\ new.want = was.want
             /\ new.group = was.group
             /\ SystemSkipped(s, new) = SystemSkipped(s, was)
             /\ old.packages[s][i] # Absent

GroupIsLocked_NoWant(m, g, old, s, ups) ==
    /\ old.packages[s] # Absent
    /\ Members(m, g) \cap ups = {}
    /\ \A i \in Members(m, g) :
         LET new == m.install[i]
             was == old.manifest.install[i]
         IN  /\ was # Absent
             /\ new.group = was.group
             /\ new.optional = was.optional
             /\ SystemSkipped(s, new) = SystemSkipped(s, was)
             /\ old.packages[s][i] # Absent

GroupIsLocked_RelockNull(m, g, old, s, ups) ==
    /\ old.packages[s] # Absent
    /\ Members(m, g) \cap ups = {}
    /\ \A i \in Members(m, g) :
         LET new == m.install[i]
             was == old.manifest.install[i]
         IN  /\ was # Absent
             /\ [new EXCEPT !.priority = was.priority, !.systems = was.systems] = was
             /\ SystemSkipped(s, new) = SystemSkipped(s, was)
             /\ old.packages[s][i] \in Package

\* Environment::groupIsLocked(); `ups' are the install IDs to be upgraded.
GroupIsLocked(m, g, old, s, ups) ==
    /\ old.packages[s] # Absent
    /\ Members(m, g) \cap ups = {}
    /\ Members(m, g) \subseteq Installed(old.manifest)
    /\ \A i \in Members(m, g) :
         LET new == m.install[i]
             was == old.manifest.install[i]
         IN  /\ new.want = was.want
             /\ new.group = was.group
             /\ new.optional = was.optional
             /\ SystemSkipped(s, new) = SystemSkipped(s, was)
             /\ old.packages[s][i] # Absent

\* Environment::getUnlockedGroups().
UnlockedGroups(m, old, s, ups) ==
    {g \in GroupsOf(m) : old = NoLock \/ ~GroupIsLocked(m, g, old, s, ups)}

\* Mutant: the first member of any group tells the input.
GroupInputs_AnyGroup(m, g, old, s) ==
    {old.packages[s][i].input : i \in
        {j \in Members(m, g) \cap Installed(old.manifest) :
            /\ IsLocked(old, s, j)
            /\ m.install[j].want = old.manifest.install[j].want}}

(***************************************************************************)
(* Environment::getGroupInput(): the inputs it may return, for a group is  *)
(* an unordered map.  Members that were in another group before only count *)
(* if there is no other.                                                   *)
(***************************************************************************)
GroupInputs(m, g, old, s) ==
    LET unchanged == {i \in Members(m, g) \cap Installed(old.manifest) :
                        /\ IsLocked(old, s, i)
                        /\ m.install[i].want = old.manifest.install[i].want}
        stayed == {i \in unchanged : old.manifest.install[i].group = g}
    IN  {old.packages[s][i].input : i \in IF stayed # {} THEN stayed ELSE unchanged}

\* tryResolveDescriptorIn(): the database of r has a row for descriptor d.
\* `scraped' are the pairs of a revision and a system whose packages are in
\* a database.
Found(scraped, r, s, d) ==
    /\ ~SystemSkipped(s, d)
    /\ <<r, s>> \in scraped
    /\ d.want \in Offers[r][s]

\* tryResolveGroupIn(): whether it succeeds, and what it returns then.
ResolvesIn(scraped, m, g, r, s) ==
    \A i \in Members(m, g) : LET d == m.install[i]
                             IN  d.optional \/ SystemSkipped(s, d) \/ Found(scraped, r, s, d)

Resolved(scraped, m, g, r, s) ==
    [i \in Members(m, g) |->
        LET d == m.install[i]
        IN  IF Found(scraped, r, s, d)
              THEN [input |-> r, got |-> d.want, priority |-> d.priority]
              ELSE Null]

\* Mutant: the entry is copied as it is.
Kept_OldPriority(m, old, s, i) == old.packages[s][i]

\* What lockSystem() copies from the old lock.  It sets the priority through
\* the optional, which for a null lock writes to a package that is not there.
Kept(m, old, s, i) ==
    IF old.packages[s][i] = Null THEN Null
    ELSE [old.packages[s][i] EXCEPT !.priority = m.install[i].priority]

\* Mutant: the global registry is merged as it is.
CombinedRegistry_GlobalUnlocked(global, m, old, head) ==
    LET reg == MergeRegistry(global, LockRegistry(m.registry, head))
    IN  IF old = NoLock THEN reg
        ELSE [reg EXCEPT !.inputs =
                [n \in Names |-> IF n \in NamesIn(reg) /\ n \in NamesIn(old.registry)
                                   THEN old.registry.inputs[n] ELSE reg.inputs[n]]]

\* getCombinedRegistryRaw(): the global and the manifest's registry, with the
\* names that the old lock has taken from there, whatever they refer to now.
CombinedRegistry(global, m, old, head) ==
    LET reg == MergeRegistry(LockRegistry(global, head),
                             LockRegistry(m.registry, head))
    IN  IF old = NoLock THEN reg
        ELSE [reg EXCEPT !.inputs =
                [n \in Names |-> IF n \in NamesIn(reg) /\ n \in NamesIn(old.registry)
                                   THEN old.registry.inputs[n] ELSE reg.inputs[n]]]

\* The inputs that removeUnusedInputs() is to drop.
UnusedInputs(l) ==
    {n \in NamesIn(l.registry) \ NamesIn(l.manifest.registry) :
        \A s \in Systems, i \in Iids :
            IsLocked(l, s, i) => l.packages[s][i].input # l.registry.inputs[n]}
=============================================================================
