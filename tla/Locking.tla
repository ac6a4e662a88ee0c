------------------------------ MODULE Locking ------------------------------
(***************************************************************************)
(* A user who edits a manifest, locks it and updates the lock, one command *)
(* after the other, while the world changes: references move on, and the   *)
(* cache of package databases may be deleted.                              *)
(*                                                                         *)
(* A run of `pkgdb manifest lock' is an Environment: it reads the manifest *)
(* and the old lock, combines the registries, locks system after system    *)
(* and group after group, and checks and prints the new lock, which the    *)
(* user saves.  The library may also be given a lock as an object, as the  *)
(* tests do, and a list of install IDs to upgrade.                         *)
(***************************************************************************)
EXTENDS Locks

CONSTANTS
    Manifests,  \* the manifests the user may write
    Globals,    \* the registries a global manifest may have
    Upgrades    \* the sets of install IDs that may be upgraded

ASSUME ManifestsAssumption ==
    /\ Manifests \subseteq Manifest
    /\ Globals \subseteq RegistryOf(Refs)
    /\ Upgrades \subseteq SUBSET Iids /\ {} \in Upgrades
    /\ \A r \in Globals \cup {m.registry : m \in Manifests} :
         Range(r.priority) \subseteq NamesIn(r)

VARIABLES
    global,     \* the global manifest's registry, empty when there is none
    manifest,   \* the manifest file
    file,       \* the lockfile, or NoLock
    head,       \* the revision each reference points to
    scraped,    \* the <<revision, system>> pairs found in the cache
    pc,         \* where the run is, or how it has just ended
    man,        \* its manifest
    old,        \* its old lock, or NoLock
    ups,        \* its upgrades
    reg,        \* its combined registry
    dbs,        \* whether the registry's databases are open and scraped
    made,       \* lockfileRaw->packages
    sys,        \* lockSystem(): the system,
    todo,       \*   its groups not yet tried,
    failed,     \*   whether one could not be resolved,
    pkgs        \*   and what the others were resolved to

world == <<global, manifest, file, head, scraped>>
loop == <<sys, todo, failed, pkgs>>
vars == <<world, pc, man, old, ups, reg, dbs, made, loop>>

Idle == {"idle", "saved", "failed", "refused"}
Stages == Idle \cup {"registry", "systems", "groups"}

Outputs == Lock \cup {NoLock}

TypeOK ==
    /\ global \in Globals
    /\ manifest \in Manifests
    /\ file \in Outputs
    /\ head \in [Refs -> Revs]
    /\ scraped \subseteq Revs \X Systems
    /\ pc \in Stages
    /\ man \in Manifests \cup {Absent}
    /\ old \in Outputs
    /\ ups \subseteq Iids
    /\ reg \in RegistryOf(Revs)
    /\ dbs \in BOOLEAN
    /\ made \in [Systems -> SystemPackages \cup {Absent}]
    /\ sys \in Systems \cup {Absent}
    /\ todo \subseteq Groups
    /\ failed \in BOOLEAN
    /\ pkgs \in SystemPackages

NoRegistry == [inputs |-> [n \in Names |-> Absent], priority |-> << >>]
NothingMade == [s \in Systems |-> Absent]

Init ==
    /\ global \in Globals
    /\ manifest \in Manifests
    /\ file = NoLock
    /\ head \in [Refs -> Revs]
    /\ scraped = {}
    /\ pc = "idle"
    /\ man = Absent
    /\ old = NoLock
    /\ ups = {}
    /\ reg = NoRegistry
    /\ dbs = FALSE
    /\ made = NothingMade
    /\ sys = Absent
    /\ todo = {}
    /\ failed = FALSE
    /\ pkgs = NoPackages
-----------------------------------------------------------------------------
(***************************************************************************)
(* The user and the world.  A run reads the manifest when it starts and    *)
(* follows the references in the step after: what changes later makes no   *)
(* difference to it, so that changes are between the runs here.            *)
(***************************************************************************)
EditManifest(m) ==
    /\ pc \in Idle /\ pc' = "idle"
    /\ manifest' = m
    /\ UNCHANGED <<global, file, head, scraped, man, old, ups, reg, dbs, made, loop>>

\* Somebody pushes to a branch.
MoveRef(ref, rev) ==
    /\ pc \in Idle /\ pc' = "idle"
    /\ head' = [head EXCEPT ![ref] = rev]
    /\ UNCHANGED <<global, manifest, file, scraped, man, old, ups, reg, dbs, made, loop>>

\* "Simply deleting you cache directory will suffice" (README.md).
ClearCache ==
    /\ pc \in Idle /\ pc' = "idle"
    /\ scraped' = {}
    /\ UNCHANGED <<global, manifest, file, head, man, old, ups, reg, dbs, made, loop>>
-----------------------------------------------------------------------------
(***************************************************************************)
(* `pkgdb manifest lock'.                                                  *)
(***************************************************************************)

\* from_json( LockfileRaw ) refuses a null package, Lockfile::init() a group
\* of several inputs.
Accepted(l, parsed) ==
    l # NoLock => (parsed => ~HasNull(l)) /\ CheckGroups(l)

\* lockSystem() returns.
LoopOver ==
    /\ sys' = Absent
    /\ todo' = {}
    /\ failed' = FALSE
    /\ pkgs' = NoPackages

\* The run is over, and the Environment with it.
Quiet(stage) ==
    /\ pc' = stage
    /\ man' = Absent
    /\ old' = NoLock
    /\ ups' = {}
    /\ reg' = NoRegistry
    /\ dbs' = FALSE
    /\ made' = NothingMade
    /\ LoopOver

\* A new Environment; `parsed' tells a lockfile from a lock handed over.
StartLock(l, parsed, u) ==
    /\ pc \in Idle
    /\ \/ /\ Accepted(l, parsed)
          /\ pc' = "registry"
          /\ man' = manifest
          /\ old' = l
          /\ ups' = u
          /\ UNCHANGED <<world, reg, dbs, made, loop>>
       \/ /\ ~Accepted(l, parsed)
          /\ Quiet("refused")
          /\ UNCHANGED world

\* createLockfile() before its loop: getCombinedRegistryRaw().
CombineRegistries ==
    /\ pc = "registry"
    /\ reg' = CombinedRegistry(global, man, old, head)
    /\ pc' = "systems"
    /\ UNCHANGED <<world, man, old, ups, dbs, made, loop>>

\* lockSystem() of the next system: getUnlockedGroups().
StartSystem(s) ==
    /\ pc = "systems"
    /\ s \in man.systems /\ made[s] = Absent
    /\ sys' = s
    /\ todo' = UnlockedGroups(man, old, s, ups)
    /\ failed' = FALSE
    /\ pkgs' = NoPackages
    /\ pc' = "groups"
    /\ UNCHANGED <<world, man, old, ups, reg, dbs, made>>

\* The default group comes first, the others in no order.
NextGroup(g) == pc = "groups" /\ g \in todo /\ (Default \in todo => g = Default)

Take(g, r) ==
    pkgs' = [i \in Iids |-> IF i \in Members(man, g)
                              THEN Resolved(scraped', man, g, r, sys)[i]
                              ELSE pkgs[i]]

\* Mutant: scraped for the system that is being locked.
OpenRegistry_ThisSystem ==
    /\ dbs' = TRUE
    /\ scraped' = IF dbs THEN scraped
                  ELSE scraped \cup {reg.inputs[n] : n \in NamesIn(reg)} \X {sys}

\* getPkgDbRegistry(): opened and scraped for all systems, once in a run.
OpenRegistry ==
    /\ dbs' = TRUE
    /\ scraped' = IF dbs THEN scraped
                  ELSE scraped \cup {reg.inputs[n] : n \in NamesIn(reg)} \X man.systems

(***************************************************************************)
(* The loop of tryResolveGroup() over the registry.  `tried' is the pinned *)
(* input that was tried before; the condition meant to skip it passes over *)
(* every input that is not the same.                                       *)
(***************************************************************************)
Passes(r, tried) ==
    tried = {} \/ \E p \in tried : SameInput(RegistryInput(r), PinnedInput(p))

\* The k-th input of the order is tried, and has it all.  (A name that is
\* listed without an input is an iterator past the end; none is, by
\* assumption.)
Hits(g, tried, k) ==
    LET n == GetOrder(reg)[k]
    IN  /\ n \in NamesIn(reg)
        /\ Passes(reg.inputs[n], tried)
        /\ ResolvesIn(scraped', man, g, reg.inputs[n], sys)

TryRegistry(g, tried) ==
    /\ OpenRegistry
    /\ \/ \E k \in DOMAIN GetOrder(reg) :
            /\ Hits(g, tried, k) /\ \A j \in 1 .. k - 1 : ~Hits(g, tried, j)
            /\ Take(g, reg.inputs[GetOrder(reg)[k]])
            /\ UNCHANGED failed
       \/ /\ \A k \in DOMAIN GetOrder(reg) : ~Hits(g, tried, k)
          /\ failed' = TRUE
          /\ UNCHANGED pkgs

Pins(g) == IF old = NoLock THEN {} ELSE GroupInputs(man, g, old, sys)

\* tryResolveGroup(): in the pinned input, then in those of the registry.
\* With no input to search at all lockSystem() tries no other group.
ResolveGroup(g) ==
    /\ NextGroup(g)
    /\ todo' = IF Pins(g) = {} /\ NamesIn(reg) = {} THEN {} ELSE todo \ {g}
    /\ \/ Pins(g) = {} /\ TryRegistry(g, {})
       \/ \E p \in Pins(g) :
            \/ /\ ResolvesIn(scraped, man, g, p, sys)
               /\ UNCHANGED <<scraped, dbs, failed>>
               /\ Take(g, p)
            \/ /\ ~ResolvesIn(scraped, man, g, p, sys)
               /\ TryRegistry(g, {p})
    /\ UNCHANGED <<global, manifest, file, head, pc, man, old, ups, reg, made, sys>>

\* The end of lockSystem(): it throws, or completes its packages.
FinishSystem ==
    /\ pc = "groups" /\ todo = {}
    /\ \/ failed /\ Quiet("failed") /\ UNCHANGED world
       \/ /\ ~failed
          /\ made' = [made EXCEPT ![sys] =
                [i \in Iids |->
                   IF i \in Installed(man)
                        /\ man.install[i].group \notin UnlockedGroups(man, old, sys, ups)
                     THEN Kept(man, old, sys, i)
                     ELSE pkgs[i]]]
          /\ pc' = "systems"
          /\ LoopOver
          /\ UNCHANGED <<world, man, old, ups, reg, dbs>>

\* The end of createLockfile(): Lockfile's constructor checks the groups.
NewLock == [manifest |-> man, registry |-> reg, packages |-> made]

(***************************************************************************)
(* removeUnusedInputs() erases the element its loop goes on from.  What    *)
(* happens then is undefined: it may drop more of what it is to drop, spin *)
(* or crash.                                                               *)
(***************************************************************************)
WithoutInputs(l, gone) ==
    [l EXCEPT !.registry.inputs = [n \in Names |-> IF n \in gone THEN Absent ELSE @[n]]]

FinishLock ==
    /\ pc = "systems"
    /\ \A s \in man.systems : made[s] # Absent
    /\ \/ /\ CheckGroups(NewLock)
          /\ \E gone \in SUBSET UnusedInputs(NewLock) :
               /\ UnusedInputs(NewLock) # {} => gone # {}
               /\ file' = WithoutInputs(NewLock, gone)
          /\ Quiet("saved")
          /\ UNCHANGED <<global, manifest, head, scraped>>
       \/ /\ ~CheckGroups(NewLock) \/ UnusedInputs(NewLock) # {}
          /\ Quiet("failed")
          /\ UNCHANGED world
-----------------------------------------------------------------------------
\* `pkgdb manifest update' and `update --input NAME', with a lockfile.
Update(l) ==
    /\ pc \in Idle
    /\ file # NoLock
    /\ \/ Accepted(file, TRUE) /\ file' = l /\ Quiet("saved")
       \/ ~Accepted(file, TRUE) /\ Quiet("refused") /\ UNCHANGED file
    /\ UNCHANGED <<global, manifest, head, scraped>>

UpdateAll == Update([file EXCEPT !.registry = LockRegistry(manifest.registry, head)])

UpdateInput(n) ==
    /\ n \in NamesIn(manifest.registry)
    /\ Update([file EXCEPT !.registry =
                 [inputs |-> [@.inputs EXCEPT ![n] = head[manifest.registry.inputs[n]]],
                  priority |-> manifest.registry.priority]])

LockStep ==
    \/ \E l \in {NoLock, file}, parsed \in BOOLEAN, u \in Upgrades :
         (u = {} \/ ~parsed) /\ StartLock(l, parsed, u)
    \/ CombineRegistries
    \/ \E s \in Systems : StartSystem(s)
    \/ \E g \in Groups : ResolveGroup(g)
    \/ FinishSystem
    \/ FinishLock

Next ==
    \/ \E m \in Manifests : EditManifest(m)
    \/ \E ref \in Refs, rev \in Revs : MoveRef(ref, rev)
    \/ ClearCache
    \/ LockStep
    \/ UpdateAll
    \/ \E n \in Names : UpdateInput(n)

Spec == Init /\ [][Next]_vars
-----------------------------------------------------------------------------
(***************************************************************************)
(* What a lock promises.                                                   *)
(***************************************************************************)

\* The packages P that manifest m has on system s are of its groups' inputs.
Shared(m, P) ==
    \A i, j \in Installed(m) :
        /\ m.install[i].group = m.install[j].group
        /\ P[i] \in Package /\ P[j] \in Package
        => P[i].input = P[j].input

\* Every descriptor has its entry; only those that may be null are.
Complete(m, s, P) ==
    \A i \in Installed(m) :
        /\ P[i] # Absent
        /\ P[i] = Null => m.install[i].optional \/ SystemSkipped(s, m.install[i])

\* What is locked is what the descriptor asks for, there, and nothing else is.
AsWanted(m, s, P) ==
    \A i \in Iids :
        /\ P[i] # Absent => i \in Installed(m)
        /\ P[i] \in Package =>
             LET d == m.install[i]
             IN  /\ P[i].got = d.want /\ P[i].priority = d.priority
                 /\ d.want \in Offers[P[i].input][s]
                 /\ ~SystemSkipped(s, d)

\* All packages of a group come from one revision of one input, in the lock on
\* disk and, before Lockfile's own check, in the one that is being made:
\* groups that are kept, re-resolved or merged from old ones alike.
GroupsShareInput ==
    \A s \in Systems :
        /\ file # NoLock /\ file.packages[s] # Absent
             => Shared(file.manifest, file.packages[s])
        /\ made[s] # Absent => Shared(man, made[s])

\* A lock on disk has every system and every descriptor of its manifest, and a
\* null only for what is optional or not for that system, whatever the
\* descriptors were when an older lock was made.  A descriptor without systems
\* is for all of the manifest's: docs/manifests.md:117 says for the current one.
NothingMissing ==
    file # NoLock =>
        \A s \in file.manifest.systems :
            file.packages[s] # Absent /\ Complete(file.manifest, s, file.packages[s])

\* A lock on disk never holds a package that its own manifest does not ask for,
\* or that its input does not have.
LockedAsWanted ==
    file # NoLock =>
        \A s \in Systems : file.packages[s] # Absent
                              => AsWanted(file.manifest, s, file.packages[s])

Saves == pc = "systems" /\ pc' = "saved"

\* A package of P whose descriptor has not changed has the input it had.
Pinned(s, P) ==
    old # NoLock =>
        \A i \in Installed(man) \cap Installed(old.manifest) :
            /\ man.install[i].want = old.manifest.install[i].want
            /\ man.install[i].group = old.manifest.install[i].group
            /\ IsLocked(old, s, i) /\ P[i] \in Package
            => P[i].input = old.packages[s][i].input

\* A package whose descriptor has not changed stays in the input it was locked
\* to, through edits of others, updates and upgrades: its group is kept, or
\* resolved in that input, or not at all.
PinsHold ==
    [][Saves => \A s \in Systems : file'.packages[s] # Absent
                                     => Pinned(s, file'.packages[s])]_vars

\* Locking the manifest of a lock again gives the packages of that lock, even
\* where the registry could do better by now.
RelockIsStable ==
    [][Saves /\ old # NoLock /\ ups = {} =>
         (man = old.manifest => file'.packages = old.packages)]_vars

Unresolvable(g, r) ==
    \E i \in Members(man, g) :
        LET d == man.install[i]
        IN  ~d.optional /\ ~SystemSkipped(sys, d) /\ d.want \notin Offers[r][sys]

GivesUp(g) == todo \ todo' = {g} /\ pkgs' = pkgs

\* A group with no pin is given up only if no input of the registry has it all,
\* however little of that was in the cache.  One with a pin is given up only if
\* a pinned input does not have it all, or is not in the cache: a cache that
\* was deleted is enough, for a pinned input is not scraped.
GivesUpOnlyIfNowhere ==
    [][\A g \in Groups : GivesUp(g) =>
         IF Pins(g) = {} THEN \A n \in NamesIn(reg) : Unresolvable(g, reg.inputs[n])
         ELSE \E p \in Pins(g) : <<p, sys>> \notin scraped \/ Unresolvable(g, p)]_vars
-----------------------------------------------------------------------------
(***************************************************************************)
(* Why locks keep their promises: the entries of the groups that a run is  *)
(* done with are right, one by one and together, before the next is tried. *)
(***************************************************************************)

\* x is a right entry for descriptor i of manifest m on system s.
Fits(m, s, i, x) ==
    LET d == m.install[i]
    IN  \/ x = Null /\ (d.optional \/ SystemSkipped(s, d))
        \/ /\ x \in Package
           /\ x.got = d.want /\ x.priority = d.priority
           /\ d.want \in Offers[x.input][s]
           /\ ~SystemSkipped(s, d)

\* P has right entries for the install IDs of `ids', and nothing else.
Right(m, s, ids, P) ==
    /\ P \in SystemPackages
    /\ \A i \in ids : Fits(m, s, i, P[i])
    /\ \A i \in Iids \ ids : P[i] = Absent
    /\ Shared(m, P)

LockedInputs == [Names -> Revs \cup {Absent}]

IsRegistry(r) == r = [inputs |-> r.inputs, priority |-> r.priority] /\ r.inputs \in LockedInputs

RightLock(l) ==
    /\ l = [manifest |-> l.manifest, registry |-> l.registry, packages |-> l.packages]
    /\ l.manifest \in Manifests
    /\ IsRegistry(l.registry)
    /\ l.packages \in [Systems -> SystemPackages \cup {Absent}]
    /\ \A s \in Systems :
         IF s \in l.manifest.systems
           THEN /\ l.packages[s] # Absent
                /\ Right(l.manifest, s, Installed(l.manifest), l.packages[s])
           ELSE l.packages[s] = Absent

\* The install IDs of the groups that were resolved.
Settled == {i \in Installed(man) :
              man.install[i].group \in UnlockedGroups(man, old, sys, ups) \ todo}

SameManifest == old # NoLock /\ ups = {} /\ man = old.manifest

MadeRight(s) ==
    /\ s \in man.systems
    /\ Right(man, s, Installed(man), made[s])
    /\ Pinned(s, made[s])
    /\ SameManifest => made[s] = old.packages[s]

\* The locks on disk and in memory are right; what the run has made is right,
\* for whole systems and for the groups it has resolved of the next one.
LockInv ==
    /\ global \in Globals /\ manifest \in Manifests /\ head \in [Refs -> Revs]
    /\ file # NoLock => RightLock(file)
    /\ old # NoLock => RightLock(old)
    /\ IsRegistry(reg)
    /\ made \in [Systems -> SystemPackages \cup {Absent}]
    /\ pc \in Idle \cup {"registry"} => made = NothingMade
    /\ pc \notin Idle => man \in Manifests
    /\ \A s \in Systems : made[s] # Absent => MadeRight(s)
    /\ pc = "groups" =>
         /\ sys \in man.systems
         /\ todo \subseteq UnlockedGroups(man, old, sys, ups)
         /\ ~failed => Right(man, sys, Settled, pkgs) /\ Pinned(sys, pkgs)

\* The databases of a run are open and scraped for each of its systems or not
\* at all, and a group that is on the list has no packages yet.
RunInv ==
    /\ pc \in Idle \cup {"registry"} => ~dbs
    /\ dbs => {reg.inputs[n] : n \in NamesIn(reg)} \X man.systems \subseteq scraped
    /\ pc # "groups" => todo = {}
    /\ \A i \in Iids : pc = "groups" /\ (\E g \in todo : i \in Members(man, g))
                        => pkgs[i] = Absent

LockingInv == LockInv /\ RunInv
-----------------------------------------------------------------------------
(***************************************************************************)
(* What the documentation says and the code does not keep.                 *)
(***************************************************************************)

\* "SystemPackages ::= { <STRING>: null | LockedPackage, ...}": a lock that was
\* written can be read (docs/lockfile.md).
LocksReadBack == pc # "refused"

\* "If we already tried to resolve in this input - skip it" (environment.cc):
\* the others are tried.
OthersAreTried ==
    [][\A g \in Groups :
         GivesUp(g) /\ Pins(g) \X {sys} \subseteq scraped =>
         \A n \in NamesIn(reg) : Unresolvable(g, reg.inputs[n])]_vars
=============================================================================
