--------------------------- MODULE Locking_proofs ---------------------------
(***************************************************************************)
(* Locks keep their promises, for all manifests, registries, offers and    *)
(* sequences of commands.                                                  *)
(***************************************************************************)
EXTENDS Locking, Vectors_proofs

LEMMA Markers ==
  /\ Absent \notin Package /\ Null \notin Package /\ Null # Absent
  /\ Absent \notin SystemPackages /\ Absent \notin Descriptor
  /\ Absent \notin Refs /\ Absent \notin Revs
BY MarkersAssumption, AbsentAssumption

LEMMA ManifestTypes ==
  ASSUME NEW m \in Manifests
  PROVE  /\ m \in Manifest
         /\ m.systems \subseteq Systems
         /\ \A i \in Installed(m) : i \in Iids /\ m.install[i] \in Descriptor
         /\ \A g : Members(m, g) \subseteq Installed(m)
         /\ \A g : \A i \in Installed(m) :
              i \in Members(m, g) <=> m.install[i].group = g
BY ManifestsAssumption DEF Manifest, Installed, Members

LEMMA EntryTypes ==
  ASSUME NEW P \in SystemPackages, NEW i \in Iids
  PROVE  P[i] \in Package \cup {Null, Absent}
BY DEF SystemPackages

-----------------------------------------------------------------------------
(***************************************************************************)
(* What lockSystem() copies.                                               *)
(***************************************************************************)

\* The entry that is kept for a member of a locked group is right, and is the
\* old one but for its priority.
LEMMA KeptIsRight ==
  ASSUME NEW m \in Manifests, NEW g, NEW l, RightLock(l),
         NEW s \in Systems, NEW u, GroupIsLocked(m, g, l, s, u),
         NEW i \in Members(m, g)
  PROVE  /\ i \in Installed(l.manifest)
         /\ l.manifest.install[i].group = g
         /\ Fits(m, s, i, Kept(m, l, s, i))
         /\ Kept(m, l, s, i) \in Package \cup {Null}
         /\ Kept(m, l, s, i) \in Package =>
              /\ l.packages[s][i] \in Package
              /\ Kept(m, l, s, i).input = l.packages[s][i].input
<1> DEFINE new == m.install[i]
           was == l.manifest.install[i]
           x == l.packages[s][i]
<1>1. /\ i \in Installed(l.manifest)
      /\ new.want = was.want /\ new.group = was.group /\ new.optional = was.optional
      /\ SystemSkipped(s, new) = SystemSkipped(s, was)
      /\ x # Absent /\ l.packages[s] # Absent
  BY DEF GroupIsLocked
<1>2. i \in Iids /\ new \in Descriptor /\ new.group = g
  BY ManifestTypes
<1>3. Right(l.manifest, s, Installed(l.manifest), l.packages[s])
  BY <1>1 DEF RightLock
<1>4. x \in Package \cup {Null}
  BY <1>1, <1>2, <1>3, EntryTypes DEF Right
<1>5. Fits(l.manifest, s, i, x)
  BY <1>1, <1>3 DEF Right
<1>6. CASE x = Null
  <2>1. Kept(m, l, s, i) = Null
    BY <1>6 DEF Kept
  <2>2. was.optional \/ SystemSkipped(s, was)
    BY <1>5, <1>6, Markers DEF Fits
  <2>3. QED
    BY <1>1, <1>2, <2>1, <2>2, Markers DEF Fits
<1>7. CASE x \in Package
  <2>1. Kept(m, l, s, i) = [x EXCEPT !.priority = new.priority]
    BY <1>7, Markers DEF Kept
  <2>2. new.priority \in Priorities
    BY <1>2 DEF Descriptor
  <2>3. /\ Kept(m, l, s, i) \in Package
        /\ Kept(m, l, s, i).input = x.input
        /\ Kept(m, l, s, i).got = x.got
        /\ Kept(m, l, s, i).priority = new.priority
    BY <1>7, <2>1, <2>2 DEF Package
  <2>4. /\ x.got = was.want /\ was.want \in Offers[x.input][s]
        /\ ~SystemSkipped(s, was)
    BY <1>5, <1>7, Markers DEF Fits
  <2>5. Fits(m, s, i, Kept(m, l, s, i))
    BY <1>1, <2>3, <2>4 DEF Fits
  <2>6. QED
    BY <1>1, <1>2, <1>7, <2>3, <2>5
<1>8. QED
  BY <1>4, <1>6, <1>7

-----------------------------------------------------------------------------
(***************************************************************************)
(* What a group is resolved to.                                            *)
(***************************************************************************)
LEMMA ResolvedIsRight ==
  ASSUME NEW m \in Manifests, NEW g, NEW r \in Revs, NEW s \in Systems,
         NEW db, ResolvesIn(db, m, g, r, s), NEW i \in Members(m, g)
  PROVE  /\ Fits(m, s, i, Resolved(db, m, g, r, s)[i])
         /\ Resolved(db, m, g, r, s)[i] \in Package \cup {Null}
         /\ Resolved(db, m, g, r, s)[i] \in Package
              => Resolved(db, m, g, r, s)[i].input = r
<1> DEFINE d == m.install[i]
           x == Resolved(db, m, g, r, s)[i]
<1>1. i \in Iids /\ d \in Descriptor
  BY ManifestTypes
<1>2. x = IF Found(db, r, s, d)
            THEN [input |-> r, got |-> d.want, priority |-> d.priority]
            ELSE Null
  BY DEF Resolved
<1>3. CASE Found(db, r, s, d)
  <2>1. /\ x \in Package
        /\ x.input = r /\ x.got = d.want /\ x.priority = d.priority
    BY <1>1, <1>2, <1>3 DEF Package, Descriptor
  <2>2. QED
    BY <1>3, <2>1 DEF Fits, Found
<1>4. CASE ~Found(db, r, s, d)
  <2>1. d.optional \/ SystemSkipped(s, d)
    BY <1>4 DEF ResolvesIn
  <2>2. QED
    BY <1>2, <1>4, <2>1, Markers DEF Fits
<1>5. QED
  BY <1>3, <1>4

\* A group that is not tried yet is settled by what it is resolved to.
LEMMA TakeSettles ==
  ASSUME LockInv, pc = "groups", ~failed,
         NEW g \in todo, NEW r \in Revs,
         ResolvesIn(scraped', man, g, r, sys), Take(g, r)
  PROVE  /\ Right(man, sys, Settled \cup Members(man, g), pkgs')
         /\ \A i \in Members(man, g) : pkgs'[i] \in Package => pkgs'[i].input = r
         /\ \A i \in Settled : i \notin Members(man, g) /\ pkgs'[i] = pkgs[i]
<1> DEFINE R == Resolved(scraped', man, g, r, sys)
           M == Members(man, g)
<1>1. /\ man \in Manifests /\ sys \in Systems
      /\ Right(man, sys, Settled, pkgs)
  <2>1. man \in Manifests
    BY DEF LockInv, Idle
  <2>2. QED
    BY <2>1, ManifestTypes DEF LockInv
<1>2. /\ M \subseteq Iids /\ Settled \subseteq Installed(man)
      /\ M \cap Settled = {}
  BY <1>1, ManifestTypes DEF Settled
<1>3. pkgs' = [i \in Iids |-> IF i \in M THEN R[i] ELSE pkgs[i]]
  BY DEF Take
<1>4. \A i \in M : /\ Fits(man, sys, i, R[i])
                   /\ R[i] \in Package \cup {Null}
                   /\ R[i] \in Package => R[i].input = r
  BY <1>1, ResolvedIsRight
<1> HIDE DEF R
<1>5. pkgs' \in SystemPackages
  BY <1>1, <1>3, <1>4 DEF SystemPackages, Right
<1>6. \A i \in Settled \cup M : Fits(man, sys, i, pkgs'[i])
  BY <1>1, <1>2, <1>3, <1>4, ManifestTypes DEF Right
<1>7. \A i \in Iids \ (Settled \cup M) : pkgs'[i] = Absent
  BY <1>1, <1>3 DEF Right
<1>8. Shared(man, pkgs')
  <2>1. SUFFICES ASSUME NEW i \in Installed(man), NEW j \in Installed(man),
                        man.install[i].group = man.install[j].group,
                        pkgs'[i] \in Package, pkgs'[j] \in Package
                 PROVE  pkgs'[i].input = pkgs'[j].input
    BY DEF Shared
  <2>2. i \in M <=> j \in M
    BY <1>1, <2>1, ManifestTypes
  <2>3. CASE i \in M
    BY <1>2, <1>3, <1>4, <2>1, <2>2, <2>3
  <2>4. CASE i \notin M
    BY <1>1, <1>3, <2>1, <2>2, <2>4, ManifestTypes DEF Right, Shared
  <2>5. QED
    BY <2>3, <2>4
<1>9. QED
  BY <1>2, <1>3, <1>4, <1>5, <1>6, <1>7, <1>8, <1>1, ManifestTypes DEF Right

-----------------------------------------------------------------------------
(***************************************************************************)
(* Pinned inputs.                                                          *)
(***************************************************************************)

\* Pins are revisions.
LEMMA PinTypes ==
  ASSUME LockInv, pc = "groups", NEW g, NEW p \in Pins(g)
  PROVE  p \in Revs /\ old # NoLock
<1>1. old # NoLock /\ p \in GroupInputs(man, g, old, sys)
  BY DEF Pins
<1>2. PICK i \in Members(man, g) : /\ IsLocked(old, sys, i)
                                   /\ p = old.packages[sys][i].input
  BY <1>1 DEF GroupInputs
<1>3. QED
  BY <1>1, <1>2 DEF IsLocked, Package

\* The descriptor of i is what it was when i was locked.
Stays(i) ==
  /\ i \in Installed(man) \cap Installed(old.manifest)
  /\ man.install[i].want = old.manifest.install[i].want
  /\ man.install[i].group = old.manifest.install[i].group
  /\ IsLocked(old, sys, i)

\* A group with such a member has one pin: the members that stayed had one
\* input.
LEMMA StayedMembersPin ==
  ASSUME LockInv, pc = "groups", old # NoLock,
         NEW g, NEW i \in Members(man, g), Stays(i)
  PROVE  /\ Pins(g) # {}
         /\ \A p \in Pins(g) : p = old.packages[sys][i].input
<1> DEFINE unchanged == {j \in Members(man, g) \cap Installed(old.manifest) :
                           /\ IsLocked(old, sys, j)
                           /\ man.install[j].want = old.manifest.install[j].want}
           stayed == {j \in unchanged : old.manifest.install[j].group = g}
<1>1. man \in Manifests /\ sys \in Systems
  <2>1. man \in Manifests
    BY DEF LockInv, Idle
  <2>2. QED
    BY <2>1, ManifestTypes DEF LockInv
<1>2. i \in stayed
  BY <1>1, ManifestTypes DEF Stays
<1>3. Pins(g) = {old.packages[sys][j].input : j \in stayed}
  BY <1>2 DEF Pins, GroupInputs
<1>4. Shared(old.manifest, old.packages[sys])
  BY <1>1 DEF LockInv, RightLock, Right, Stays, IsLocked
<1>5. \A j \in stayed : old.packages[sys][j].input = old.packages[sys][i].input
  BY <1>2, <1>4 DEF Shared, IsLocked
<1>6. QED
  BY <1>2, <1>3, <1>5

\* After a pin no input of the registry is tried.
LEMMA NothingPassesAfterAPin ==
  ASSUME NEW g, NEW p, TryRegistry(g, {p})
  PROVE  failed'
<1>1. \A k : ~Hits(g, {p}, k)
  BY DEF Hits, Passes, SameInput, RegistryInput, PinnedInput
<1>2. QED
  BY <1>1 DEF TryRegistry

-----------------------------------------------------------------------------
(***************************************************************************)
(* Registries.                                                             *)
(***************************************************************************)
LEMMA LockedRegistry ==
  ASSUME NEW r \in RegistryOf(Refs), NEW h \in [Refs -> Revs]
  PROVE  /\ IsRegistry(LockRegistry(r, h))
         /\ NamesIn(LockRegistry(r, h)) = NamesIn(r)
<1>1. LockRegistry(r, h) = [inputs |-> [n \in Names |-> IF n \in NamesIn(r)
                                                          THEN h[r.inputs[n]]
                                                          ELSE Absent],
                            priority |-> r.priority]
  BY DEF LockRegistry, RegistryOf
<1>2. \A n \in NamesIn(r) : h[r.inputs[n]] \in Revs
  BY DEF NamesIn, RegistryOf
<1>3. QED
  BY <1>1, <1>2, Markers DEF IsRegistry, LockedInputs, NamesIn

LEMMA CombinedIsRegistry ==
  ASSUME NEW gl \in Globals, NEW m \in Manifests, NEW h \in [Refs -> Revs],
         NEW l, l # NoLock => RightLock(l)
  PROVE  IsRegistry(CombinedRegistry(gl, m, l, h))
<1> DEFINE lower == LockRegistry(gl, h)
           higher == LockRegistry(m.registry, h)
           merged == MergeRegistry(lower, higher)
<1>1. IsRegistry(lower) /\ IsRegistry(higher)
  BY LockedRegistry, ManifestsAssumption DEF Manifest
<1> HIDE DEF lower, higher
<1>2. IsRegistry(merged)
  BY <1>1 DEF MergeRegistry, IsRegistry, LockedInputs
<1>3. merged = [inputs |-> merged.inputs, priority |-> merged.priority]
  BY <1>2 DEF IsRegistry
<1> HIDE DEF merged
<1>4. CASE l = NoLock
  BY <1>2, <1>4 DEF CombinedRegistry, lower, higher, merged
<1>5. CASE l # NoLock
  <2> DEFINE inputs == [n \in Names |-> IF n \in NamesIn(merged) /\ n \in NamesIn(l.registry)
                                          THEN l.registry.inputs[n] ELSE merged.inputs[n]]
  <2>1. CombinedRegistry(gl, m, l, h) = [merged EXCEPT !.inputs = inputs]
    BY <1>5 DEF CombinedRegistry, lower, higher, merged
  <2>2. inputs \in LockedInputs
    BY <1>2, <1>5 DEF IsRegistry, RightLock, LockedInputs
  <2> HIDE DEF inputs
  <2>3. [merged EXCEPT !.inputs = inputs]
          = [inputs |-> inputs, priority |-> merged.priority]
    BY <1>3
  <2>4. QED
    BY <2>1, <2>2, <2>3 DEF IsRegistry
<1>6. QED
  BY <1>4, <1>5

\* A lock is as right with another registry.
LEMMA RegistryOfLock ==
  ASSUME NEW l, RightLock(l), NEW r, IsRegistry(r)
  PROVE  RightLock([l EXCEPT !.registry = r])
<1>1. [l EXCEPT !.registry = r]
        = [manifest |-> l.manifest, registry |-> r, packages |-> l.packages]
  BY DEF RightLock
<1>2. QED
  BY <1>1 DEF RightLock

-----------------------------------------------------------------------------
(***************************************************************************)
(* Every step keeps locks right.                                           *)
(***************************************************************************)
LEMMA IdleTypes ==
  /\ Idle \subseteq Stages
  /\ "registry" \notin Idle /\ "systems" \notin Idle /\ "groups" \notin Idle
  /\ {"idle", "saved", "failed", "refused"} = Idle
BY DEF Idle, Stages

LEMMA NoRegistryIsOne == IsRegistry(NoRegistry)
BY DEF NoRegistry, IsRegistry, LockedInputs

LEMMA NothingIsMade ==
  /\ NothingMade \in [Systems -> SystemPackages \cup {Absent}]
  /\ \A s \in Systems : NothingMade[s] = Absent
BY DEF NothingMade

LEMMA InvInit == Init => LockInv
BY IdleTypes, NoRegistryIsOne, NothingIsMade DEF Init, LockInv

\* A run that is over leaves no more than the file.
LEMMA QuietKeepsInv ==
  ASSUME LockInv, NEW stage \in Idle, Quiet(stage), UNCHANGED <<global, manifest, head>>,
         file' # NoLock => RightLock(file')
  PROVE  LockInv'
<1>1. /\ pc' \in Idle /\ pc' # "groups" /\ old' = NoLock
      /\ reg' = NoRegistry /\ made' = NothingMade
  BY IdleTypes DEF Quiet
<1>2. /\ global' \in Globals /\ manifest' \in Manifests /\ head' \in [Refs -> Revs]
  BY DEF LockInv
<1>3. IsRegistry(reg)'
  BY <1>1, NoRegistryIsOne DEF IsRegistry
<1>4. \A s \in Systems : made'[s] = Absent
  BY <1>1, NothingIsMade
<1>5. (file # NoLock => RightLock(file))'
  OBVIOUS
<1>6. QED
  BY <1>1, <1>2, <1>3, <1>4, <1>5, NothingIsMade DEF LockInv

LEMMA StartLockKeepsInv ==
  ASSUME LockInv, NEW l \in {NoLock, file}, NEW parsed, NEW u, StartLock(l, parsed, u)
  PROVE  LockInv'
<1>1. CASE Accepted(l, parsed) /\ pc' = "registry"
           /\ man' = manifest /\ old' = l /\ UNCHANGED <<world, reg, dbs, made, loop>>
  <2>1. made = NothingMade
    BY DEF StartLock, LockInv
  <2>2. \A s \in Systems : made'[s] = Absent
    BY <1>1, <2>1, NothingIsMade
  <2>3. IsRegistry(reg)'
    BY <1>1 DEF LockInv
  <2>4. (old # NoLock => RightLock(old))' /\ (file # NoLock => RightLock(file))'
    BY <1>1 DEF LockInv, world
  <2>5. QED
    BY <1>1, <2>1, <2>2, <2>3, <2>4, NothingIsMade, IdleTypes DEF LockInv, world
<1>2. CASE Quiet("refused") /\ UNCHANGED world
  BY <1>2, QuietKeepsInv, IdleTypes DEF LockInv, world
<1>3. QED
  BY <1>1, <1>2 DEF StartLock

LEMMA CombineKeepsInv ==
  ASSUME LockInv, CombineRegistries
  PROVE  LockInv'
<1>1. man \in Manifests /\ made = NothingMade
  BY IdleTypes DEF LockInv, CombineRegistries
<1>2. IsRegistry(CombinedRegistry(global, man, old, head))
  BY <1>1, CombinedIsRegistry DEF LockInv
<1>3. IsRegistry(reg)'
  BY <1>2 DEF CombineRegistries
<1>4. \A s \in Systems : made'[s] = Absent
  BY <1>1, NothingIsMade DEF CombineRegistries
<1>5. QED
  BY <1>1, <1>3, <1>4, IdleTypes DEF CombineRegistries, LockInv, world

LEMMA StartSystemKeepsInv ==
  ASSUME LockInv, NEW s \in Systems, StartSystem(s)
  PROVE  LockInv'
<1>1. /\ man \in Manifests /\ pc' = "groups" /\ sys' = s
      /\ todo' = UnlockedGroups(man, old, s, ups) /\ pkgs' = NoPackages
      /\ UNCHANGED <<world, man, old, ups, reg, made>>
  BY IdleTypes DEF LockInv, StartSystem
<1>2. Settled' = {}
  BY <1>1 DEF Settled
<1>3. Right(man, s, {}, NoPackages)
  BY Markers DEF Right, NoPackages, SystemPackages, Shared, Installed
<1>4. Pinned(sys, pkgs)'
  <2>1. \A i \in Installed(man) : pkgs'[i] \notin Package
    BY <1>1, Markers DEF NoPackages, Installed
  <2>2. QED
    BY <1>1, <2>1 DEF Pinned
<1>5. (Right(man, sys, Settled, pkgs))'
  BY <1>1, <1>2, <1>3
<1>6. \A t \in Systems : MadeRight(t) => MadeRight(t)'
  BY <1>1 DEF MadeRight, Pinned, SameManifest
<1>7. QED
  BY <1>1, <1>4, <1>5, <1>6, IdleTypes DEF LockInv, world, StartSystem

\* ResolveGroup() in two: the group is given up, or taken from revision r.
LEMMA ResolveGroupCases ==
  ASSUME LockInv, NEW g, ResolveGroup(g)
  PROVE  \/ failed' = TRUE
         \/ /\ todo' = todo \ {g} /\ failed' = failed
            /\ \E r \in Revs :
                 /\ ResolvesIn(scraped', man, g, r, sys) /\ Take(g, r)
                 /\ Pins(g) # {} => r \in Pins(g)
<1>1. pc = "groups" /\ IsRegistry(reg)
  BY DEF ResolveGroup, NextGroup, LockInv
<1>2. CASE Pins(g) = {} /\ TryRegistry(g, {})
  <2>1. SUFFICES ASSUME failed' # TRUE
                 PROVE  /\ todo' = todo \ {g} /\ failed' = failed
                        /\ \E r \in Revs : ResolvesIn(scraped', man, g, r, sys) /\ Take(g, r)
    BY <1>2
  <2>2. PICK k \in DOMAIN GetOrder(reg) :
           /\ Hits(g, {}, k) /\ Take(g, reg.inputs[GetOrder(reg)[k]])
           /\ UNCHANGED failed
    BY <1>2, <2>1 DEF TryRegistry
  <2>3. PICK n \in NamesIn(reg) :
           /\ n = GetOrder(reg)[k]
           /\ ResolvesIn(scraped', man, g, reg.inputs[n], sys)
    BY <2>2 DEF Hits
  <2>4. reg.inputs[n] \in Revs
    BY <1>1, <2>3 DEF IsRegistry, LockedInputs, NamesIn
  <2>5. todo' = todo \ {g}
    BY <2>3 DEF ResolveGroup
  <2>6. QED
    BY <2>2, <2>3, <2>4, <2>5
<1>3. ASSUME NEW p \in Pins(g), ResolvesIn(scraped, man, g, p, sys),
             UNCHANGED <<scraped, dbs, failed>>, Take(g, p)
      PROVE  /\ todo' = todo \ {g} /\ failed' = failed
             /\ \E r \in Revs :
                  /\ ResolvesIn(scraped', man, g, r, sys) /\ Take(g, r)
                  /\ Pins(g) # {} => r \in Pins(g)
  <2>1. todo' = todo \ {g}
    BY DEF ResolveGroup
  <2>2. p \in Revs /\ ResolvesIn(scraped', man, g, p, sys)
    BY <1>1, <1>3, PinTypes
  <2>3. QED
    BY <1>3, <2>1, <2>2
<1>4. ASSUME NEW p \in Pins(g), TryRegistry(g, {p})
      PROVE  failed' = TRUE
  BY <1>4, NothingPassesAfterAPin DEF TryRegistry, Hits, Passes, SameInput,
     RegistryInput, PinnedInput
<1>5. QED
  BY <1>2, <1>3, <1>4 DEF ResolveGroup

LEMMA ResolveGroupKeepsInv ==
  ASSUME LockInv, NEW g \in Groups, ResolveGroup(g)
  PROVE  LockInv'
<1>1. /\ pc = "groups" /\ pc' = "groups" /\ g \in todo
      /\ UNCHANGED <<global, manifest, file, head, man, old, ups, reg, made, sys>>
      /\ man \in Manifests /\ sys \in man.systems /\ sys \in Systems
  <2>1. pc = "groups" /\ man \in Manifests /\ sys \in man.systems
    BY IdleTypes DEF ResolveGroup, NextGroup, LockInv
  <2>2. QED
    BY <2>1, ManifestTypes DEF ResolveGroup, NextGroup
<1>2. todo' \subseteq todo
  BY DEF ResolveGroup
<1>3. \A t \in Systems : MadeRight(t) => MadeRight(t)'
  BY <1>1 DEF MadeRight, Pinned, SameManifest
<1>4. (~failed => Right(man, sys, Settled, pkgs) /\ Pinned(sys, pkgs))'
  <2>1. SUFFICES ASSUME ~failed'
                 PROVE  (Right(man, sys, Settled, pkgs) /\ Pinned(sys, pkgs))'
    OBVIOUS
  <2>2. /\ todo' = todo \ {g} /\ failed' = failed
        /\ \E r \in Revs :
             /\ ResolvesIn(scraped', man, g, r, sys) /\ Take(g, r)
             /\ Pins(g) # {} => r \in Pins(g)
    BY <2>1, ResolveGroupCases
  <2>3. PICK r \in Revs : /\ ResolvesIn(scraped', man, g, r, sys) /\ Take(g, r)
                          /\ Pins(g) # {} => r \in Pins(g)
    BY <2>2
  <2>4. /\ Right(man, sys, Settled \cup Members(man, g), pkgs')
        /\ \A i \in Members(man, g) : pkgs'[i] \in Package => pkgs'[i].input = r
        /\ \A i \in Settled : i \notin Members(man, g) /\ pkgs'[i] = pkgs[i]
    BY <1>1, <2>1, <2>2, <2>3, TakeSettles
  <2>5. Settled' = Settled \cup Members(man, g)
    <3>1. g \in UnlockedGroups(man, old, sys, ups)
      BY <1>1 DEF LockInv
    <3>2. Settled' = {i \in Installed(man) : man.install[i].group
                        \in UnlockedGroups(man, old, sys, ups) \ (todo \ {g})}
      BY <1>1, <2>2 DEF Settled
    <3>3. QED
      BY <1>1, <3>1, <3>2, ManifestTypes DEF Settled
  <2>6. Right(man, sys, Settled, pkgs)'
    BY <1>1, <2>4, <2>5
  <2>7. Pinned(sys, pkgs) /\ Right(man, sys, Settled, pkgs)
    BY <1>1, <2>1, <2>2 DEF LockInv
  <2>8. ASSUME old # NoLock, NEW i \in Installed(man), Stays(i), pkgs'[i] \in Package
        PROVE  pkgs'[i].input = old.packages[sys][i].input
    <3>1. i \in Iids
      BY <1>1, ManifestTypes
    <3>2. CASE i \in Members(man, g)
      BY <1>1, <2>3, <2>4, <2>8, <3>2, StayedMembersPin
    <3>3. CASE i \in Settled
      BY <2>4, <2>7, <2>8, <3>3 DEF Pinned, Stays
    <3>4. CASE i \notin Settled \cup Members(man, g)
      BY <2>4, <2>8, <3>1, <3>4, Markers DEF Right
    <3>5. QED
      BY <3>2, <3>3, <3>4
  <2>9. Pinned(sys, pkgs)'
    BY <1>1, <2>8 DEF Pinned, Stays
  <2>10. QED
    BY <2>6, <2>9
<1>5. QED
  BY <1>1, <1>2, <1>3, <1>4, IdleTypes DEF LockInv, IsRegistry

\* The entries of a completed system, of the run's own `packages' p.
Completed(p) ==
  [i \in Iids |->
     IF i \in Installed(man)
          /\ man.install[i].group \notin UnlockedGroups(man, old, sys, ups)
       THEN Kept(man, old, sys, i)
       ELSE p[i]]

LEMMA CompletedIsRight ==
  ASSUME LockInv, pc = "groups", todo = {}, ~failed
  PROVE  /\ Right(man, sys, Installed(man), Completed(pkgs))
         /\ Pinned(sys, Completed(pkgs))
         /\ SameManifest => Completed(pkgs) = old.packages[sys]
<1> DEFINE U == UnlockedGroups(man, old, sys, ups)
           P == Completed(pkgs)
<1>1. /\ man \in Manifests /\ sys \in man.systems /\ sys \in Systems
      /\ Right(man, sys, Settled, pkgs) /\ Pinned(sys, pkgs)
  <2>1. man \in Manifests /\ sys \in man.systems
    BY IdleTypes DEF LockInv
  <2>2. QED
    BY <2>1, ManifestTypes DEF LockInv
<1>2. /\ Settled = {i \in Installed(man) : man.install[i].group \in U}
      /\ \A i \in Installed(man) : i \in Iids
  BY <1>1, ManifestTypes DEF Settled
<1>3. /\ \A i \in Iids : i \in Installed(man) \ Settled => P[i] = Kept(man, old, sys, i)
      /\ \A i \in Iids : i \notin Installed(man) \ Settled => P[i] = pkgs[i]
      /\ DOMAIN P = Iids /\ P = [i \in Iids |-> P[i]]
  BY <1>2 DEF Completed
<1>4. ASSUME NEW i \in Installed(man) \ Settled
      PROVE  LET g == man.install[i].group
             IN  /\ old # NoLock /\ RightLock(old)
                 /\ GroupIsLocked(man, g, old, sys, ups) /\ i \in Members(man, g)
  <2>1. man.install[i].group \in GroupsOf(man) \ U
    BY <1>2 DEF GroupsOf
  <2>2. QED
    BY <1>1, <2>1, ManifestTypes DEF UnlockedGroups, LockInv
<1>5. \A i \in Installed(man) \ Settled :
        /\ i \in Installed(old.manifest)
        /\ old.manifest.install[i].group = man.install[i].group
        /\ Fits(man, sys, i, P[i])
        /\ P[i] \in Package \cup {Null}
        /\ P[i] \in Package => /\ old.packages[sys][i] \in Package
                               /\ P[i].input = old.packages[sys][i].input
  BY <1>1, <1>2, <1>3, <1>4, KeptIsRight
<1> HIDE DEF P
<1>6. P \in SystemPackages
  <2>1. \A i \in Iids : P[i] \in Package \cup {Null, Absent}
    BY <1>1, <1>2, <1>3, <1>5, EntryTypes DEF Right
  <2>2. QED
    BY <1>3, <2>1 DEF SystemPackages
<1>7. \A i \in Installed(man) : Fits(man, sys, i, P[i])
  BY <1>1, <1>2, <1>3, <1>5 DEF Right
<1>8. \A i \in Iids \ Installed(man) : P[i] = Absent
  BY <1>1, <1>2, <1>3 DEF Right
<1>9. Shared(man, P)
  <2>1. SUFFICES ASSUME NEW i \in Installed(man), NEW j \in Installed(man),
                        man.install[i].group = man.install[j].group,
                        P[i] \in Package, P[j] \in Package
                 PROVE  P[i].input = P[j].input
    BY DEF Shared
  <2>2. i \in Settled <=> j \in Settled
    BY <1>2, <2>1
  <2>3. CASE i \in Settled
    BY <1>1, <1>2, <1>3, <2>1, <2>2, <2>3 DEF Right, Shared
  <2>4. CASE i \notin Settled
    <3>1. i \in Installed(man) \ Settled /\ j \in Installed(man) \ Settled
      BY <2>2, <2>4
    <3>2. RightLock(old) /\ old.packages[sys] # Absent
      BY <1>4, <3>1 DEF GroupIsLocked
    <3>3. Shared(old.manifest, old.packages[sys])
      BY <1>1, <3>2 DEF RightLock, Right
    <3>4. QED
      BY <1>5, <2>1, <3>1, <3>3 DEF Shared
  <2>5. QED
    BY <2>3, <2>4
<1>10. Pinned(sys, P)
  <2>1. SUFFICES ASSUME old # NoLock, NEW i \in Installed(man), Stays(i), P[i] \in Package
                 PROVE  P[i].input = old.packages[sys][i].input
    BY DEF Pinned, Stays
  <2>2. CASE i \in Settled
    BY <1>1, <1>2, <1>3, <2>1, <2>2 DEF Pinned, Stays
  <2>3. CASE i \notin Settled
    BY <1>5, <2>1, <2>3
  <2>4. QED
    BY <2>2, <2>3
<1>11. ASSUME SameManifest PROVE P = old.packages[sys]
  <2>1. /\ RightLock(old) /\ old # NoLock /\ man = old.manifest /\ ups = {}
        /\ old.packages[sys] # Absent
        /\ Right(man, sys, Installed(man), old.packages[sys])
    BY <1>1, <1>11 DEF SameManifest, LockInv, RightLock
  <2>2. \A i \in Installed(man) : /\ Fits(man, sys, i, old.packages[sys][i])
                                  /\ old.packages[sys][i] # Absent
    BY <2>1, Markers DEF Right, Fits
  <2>3. \A g : GroupIsLocked(man, g, old, sys, ups)
    BY <1>1, <2>1, <2>2, ManifestTypes DEF GroupIsLocked
  <2>4. Settled = {}
    BY <1>2, <2>1, <2>3 DEF UnlockedGroups
  <2>5. ASSUME NEW i \in Iids PROVE P[i] = old.packages[sys][i]
    <3>1. CASE i \notin Installed(man)
      BY <1>8, <2>1, <3>1 DEF Right
    <3>2. CASE i \in Installed(man) /\ old.packages[sys][i] = Null
      BY <1>3, <2>4, <3>2 DEF Kept
    <3>3. CASE i \in Installed(man) /\ old.packages[sys][i] # Null
      <4>1. /\ old.packages[sys][i] \in Package
            /\ old.packages[sys][i].priority = man.install[i].priority
        BY <2>2, <3>3 DEF Fits
      <4>2. P[i] = [old.packages[sys][i] EXCEPT !.priority = man.install[i].priority]
        BY <1>3, <2>4, <3>3 DEF Kept
      <4>3. QED
        BY <4>1, <4>2 DEF Package
    <3>4. QED
      BY <3>1, <3>2, <3>3
  <2>6. QED
    BY <1>3, <2>1, <2>5 DEF Right, SystemPackages
<1>12. QED
  BY <1>6, <1>7, <1>8, <1>9, <1>10, <1>11 DEF Right, P

LEMMA FinishSystemKeepsInv ==
  ASSUME LockInv, FinishSystem
  PROVE  LockInv'
<1>1. CASE Quiet("failed") /\ UNCHANGED world
  BY <1>1, QuietKeepsInv, IdleTypes DEF LockInv, world
<1>2. CASE /\ ~failed
           /\ made' = [made EXCEPT ![sys] = Completed(pkgs)]
           /\ pc' = "systems" /\ UNCHANGED <<world, man, old, ups, reg, dbs>>
  <2>1. /\ pc = "groups" /\ todo = {} /\ man \in Manifests
        /\ sys \in man.systems /\ sys \in Systems
    <3>1. pc = "groups" /\ todo = {} /\ man \in Manifests /\ sys \in man.systems
      BY IdleTypes DEF FinishSystem, LockInv
    <3>2. QED
      BY <3>1, ManifestTypes
  <2>2. /\ Right(man, sys, Installed(man), Completed(pkgs))
        /\ Pinned(sys, Completed(pkgs))
        /\ SameManifest => Completed(pkgs) = old.packages[sys]
    BY <1>2, <2>1, CompletedIsRight
  <2>3. /\ made' \in [Systems -> SystemPackages \cup {Absent}]
        /\ made'[sys] = Completed(pkgs)
        /\ \A s \in Systems \ {sys} : made'[s] = made[s]
    BY <1>2, <2>1, <2>2 DEF LockInv, Right
  <2>4. ASSUME NEW s \in Systems, made'[s] # Absent PROVE MadeRight(s)'
    <3>1. CASE s = sys
      <4>1. Pinned(s, made[s])'
        BY <1>2, <2>2, <2>3, <3>1 DEF Pinned
      <4>2. Right(man, s, Installed(man), made'[s])
        BY <2>2, <2>3, <3>1
      <4>3. SameManifest' = SameManifest
        BY <1>2 DEF SameManifest
      <4>4. QED
        BY <1>2, <2>1, <2>2, <2>3, <3>1, <4>1, <4>2, <4>3 DEF MadeRight
    <3>2. CASE s # sys
      BY <1>2, <2>3, <2>4, <3>2 DEF LockInv, MadeRight, Pinned, SameManifest
    <3>3. QED
      BY <3>1, <3>2
  <2>5. QED
    BY <1>2, <2>1, <2>3, <2>4, IdleTypes DEF LockInv, world, IsRegistry
<1>3. QED
  BY <1>1, <1>2 DEF FinishSystem, Completed

\* The new lock is right before and after its unused inputs are dropped.
LEMMA NewLockIsRight ==
  ASSUME LockInv, FinishLock
  PROVE  /\ RightLock(NewLock)
         /\ \A gone : RightLock(WithoutInputs(NewLock, gone))
<1>1. /\ pc = "systems" /\ man \in Manifests /\ IsRegistry(reg)
      /\ \A s \in man.systems : made[s] # Absent
      /\ made \in [Systems -> SystemPackages \cup {Absent}]
      /\ \A s \in Systems : made[s] # Absent => MadeRight(s)
  BY IdleTypes DEF FinishLock, LockInv
<1>2. RightLock(NewLock)
  BY <1>1 DEF RightLock, NewLock, MadeRight
<1>3. ASSUME NEW gone PROVE RightLock(WithoutInputs(NewLock, gone))
  <2> DEFINE inputs == [n \in Names |-> IF n \in gone THEN Absent ELSE reg.inputs[n]]
             r == [inputs |-> inputs, priority |-> reg.priority]
  <2>1. inputs \in LockedInputs
    BY <1>1 DEF IsRegistry, LockedInputs
  <2>2. [reg EXCEPT !.inputs = inputs] = r
    BY <1>1 DEF IsRegistry
  <2>3. WithoutInputs(NewLock, gone) = [NewLock EXCEPT !.registry = [reg EXCEPT !.inputs = inputs]]
    BY DEF WithoutInputs, NewLock
  <2>4. IsRegistry(r)
    BY <2>1 DEF IsRegistry
  <2> HIDE DEF r, inputs
  <2>5. QED
    BY <1>2, <2>2, <2>3, <2>4, RegistryOfLock
<1>4. QED
  BY <1>2, <1>3

LEMMA FinishLockKeepsInv ==
  ASSUME LockInv, FinishLock
  PROVE  LockInv'
<1>1. CASE /\ \E gone : file' = WithoutInputs(NewLock, gone)
           /\ Quiet("saved") /\ UNCHANGED <<global, manifest, head, scraped>>
  <2>1. RightLock(file')
    BY <1>1, NewLockIsRight
  <2>2. QED
    BY <1>1, <2>1, QuietKeepsInv, IdleTypes
<1>2. CASE Quiet("failed") /\ UNCHANGED world
  BY <1>2, QuietKeepsInv, IdleTypes DEF LockInv, world
<1>3. QED
  BY <1>1, <1>2 DEF FinishLock

LEMMA UpdateKeepsInv ==
  ASSUME LockInv, NEW r, file # NoLock => IsRegistry(r),
         Update([file EXCEPT !.registry = r])
  PROVE  LockInv'
<1>1. RightLock([file EXCEPT !.registry = r]) /\ file # NoLock
  BY RegistryOfLock DEF LockInv, Update
<1>2. CASE file' = [file EXCEPT !.registry = r] /\ Quiet("saved")
  BY <1>1, <1>2, QuietKeepsInv, IdleTypes DEF Update
<1>3. CASE Quiet("refused") /\ UNCHANGED file
  BY <1>1, <1>3, QuietKeepsInv, IdleTypes DEF Update, LockInv
<1>4. QED
  BY <1>2, <1>3 DEF Update

LEMMA UpdateInputKeepsInv ==
  ASSUME LockInv, NEW n \in Names, UpdateInput(n)
  PROVE  LockInv'
<1> DEFINE R == manifest.registry
           inputs == [file.registry.inputs EXCEPT ![n] = head[R.inputs[n]]]
           r == [inputs |-> inputs, priority |-> R.priority]
<1>1. /\ R \in RegistryOf(Refs) /\ head \in [Refs -> Revs] /\ n \in NamesIn(R)
      /\ file # NoLock /\ RightLock(file)
  BY ManifestsAssumption DEF LockInv, UpdateInput, Update, Manifest
<1>2. head[R.inputs[n]] \in Revs
  BY <1>1 DEF RegistryOf, NamesIn
<1>3. IsRegistry(r)
  BY <1>1, <1>2 DEF RightLock, IsRegistry, LockedInputs
<1>4. Update([file EXCEPT !.registry = r])
  BY DEF UpdateInput
<1> HIDE DEF r
<1>5. QED
  BY <1>3, <1>4, UpdateKeepsInv

LEMMA InvNext == LockInv /\ [Next]_vars => LockInv'
<1> SUFFICES ASSUME LockInv, [Next]_vars PROVE LockInv'
  OBVIOUS
<1>1. ASSUME NEW m \in Manifests, EditManifest(m) PROVE LockInv'
  BY <1>1 DEF EditManifest, LockInv, loop, IsRegistry, MadeRight, Pinned, SameManifest, Idle
<1>2. ASSUME NEW ref \in Refs, NEW rev \in Revs, MoveRef(ref, rev) PROVE LockInv'
  BY <1>2 DEF MoveRef, LockInv, loop, IsRegistry, MadeRight, Pinned, SameManifest, Idle
<1>3. CASE ClearCache
  BY <1>3 DEF ClearCache, LockInv, loop, IsRegistry, MadeRight, Pinned, SameManifest, Idle
<1>4. CASE LockStep
  BY <1>4, StartLockKeepsInv, CombineKeepsInv, StartSystemKeepsInv, ResolveGroupKeepsInv,
     FinishSystemKeepsInv, FinishLockKeepsInv DEF LockStep
<1>5. CASE UpdateAll
  <2>1. IsRegistry(LockRegistry(manifest.registry, head))
    BY LockedRegistry, ManifestsAssumption DEF LockInv, Manifest
  <2>2. QED
    BY <1>5, <2>1, UpdateKeepsInv DEF UpdateAll
<1>6. ASSUME NEW n \in Names, UpdateInput(n) PROVE LockInv'
  BY <1>6, UpdateInputKeepsInv
<1>7. CASE UNCHANGED vars
  BY <1>7 DEF vars, world, loop, LockInv, IsRegistry, MadeRight, Pinned, SameManifest, Settled
<1>8. QED
  BY <1>1, <1>2, <1>3, <1>4, <1>5, <1>6, <1>7 DEF Next

-----------------------------------------------------------------------------
(***************************************************************************)
(* Types: what LockInv leaves open is the priority lists, the packages of  *)
(* a system that has failed, and what is scraped.                          *)
(***************************************************************************)
LEMMA PriorityTypes ==
  ASSUME NEW lower \in Seq(Names), NEW higher \in Seq(Names)
  PROVE  MergeVectors(lower, higher) \in Seq(Names)
BY WithNewIsList DEF MergeVectors

LEMMA IsTypedRegistry ==
  ASSUME NEW r, IsRegistry(r), r.priority \in Seq(Names)
  PROVE  r \in RegistryOf(Revs)
BY DEF IsRegistry, LockedInputs, RegistryOf

LEMMA IsTypedLock ==
  ASSUME NEW l, RightLock(l), l.registry.priority \in Seq(Names)
  PROVE  l \in Lock
<1>1. l.manifest \in Manifest /\ l.registry \in RegistryOf(Revs)
  BY ManifestsAssumption, IsTypedRegistry DEF RightLock
<1>2. QED
  BY <1>1 DEF RightLock, Lock

LEMMA LockTypes ==
  ASSUME NEW l \in Lock
  PROVE  l.registry \in RegistryOf(Revs) /\ l.registry.priority \in Seq(Names)
BY DEF Lock, RegistryOf

LEMMA FreshTypes ==
  /\ NoRegistry \in RegistryOf(Revs)
  /\ NothingMade \in [Systems -> SystemPackages \cup {Absent}]
  /\ NoPackages \in SystemPackages
  /\ NoLock \in Outputs
  /\ Idle \subseteq Stages /\ {"registry", "systems", "groups"} \subseteq Stages
BY DEF NoRegistry, RegistryOf, NothingMade, NoPackages, SystemPackages, Outputs, Idle, Stages

LEMMA TypesInit == Init => TypeOK
BY FreshTypes DEF Init, TypeOK, Idle

\* A lock keeps its type with another registry.
LEMMA TypedLockRegistry ==
  ASSUME NEW l \in Lock, NEW r \in RegistryOf(Revs)
  PROVE  [l EXCEPT !.registry = r] \in Lock
BY DEF Lock

LEMMA QuietKeepsTypes ==
  ASSUME TypeOK, NEW stage \in Idle, Quiet(stage),
         UNCHANGED <<global, manifest, head, scraped>>, file' \in Outputs
  PROVE  TypeOK'
BY FreshTypes DEF TypeOK, Quiet, LoopOver

LEMMA StartLockKeepsTypes ==
  ASSUME TypeOK, NEW l \in {NoLock, file}, NEW parsed, NEW u \in Upgrades,
         StartLock(l, parsed, u)
  PROVE  TypeOK'
<1>1. CASE /\ pc' = "registry" /\ man' = manifest /\ old' = l /\ ups' = u
           /\ UNCHANGED <<world, reg, dbs, made, loop>>
  <2>1. l \in Outputs /\ u \subseteq Iids
    BY FreshTypes, ManifestsAssumption DEF TypeOK
  <2>2. QED
    BY <1>1, <2>1, FreshTypes DEF TypeOK, world, loop
<1>2. CASE Quiet("refused") /\ UNCHANGED world
  BY <1>2, QuietKeepsTypes, IdleTypes DEF TypeOK, world
<1>3. QED
  BY <1>1, <1>2 DEF StartLock

LEMMA CombinedTypes ==
  ASSUME NEW gl \in Globals, NEW m \in Manifests, NEW h \in [Refs -> Revs],
         NEW l, l # NoLock => RightLock(l)
  PROVE  CombinedRegistry(gl, m, l, h) \in RegistryOf(Revs)
<1> DEFINE lower == LockRegistry(gl, h)
           higher == LockRegistry(m.registry, h)
           merged == MergeRegistry(lower, higher)
<1>1. gl \in RegistryOf(Refs) /\ m.registry \in RegistryOf(Refs)
  BY ManifestsAssumption DEF Manifest
<1>2. lower.priority \in Seq(Names) /\ higher.priority \in Seq(Names)
  BY <1>1 DEF LockRegistry, RegistryOf
<1> HIDE DEF lower, higher
<1>3. merged = [inputs |-> merged.inputs, priority |-> merged.priority]
      /\ merged.priority \in Seq(Names)
  BY <1>2, PriorityTypes DEF MergeRegistry
<1>4. CombinedRegistry(gl, m, l, h).priority = merged.priority
  <2> HIDE DEF merged
  <2>1. CASE l = NoLock
    BY <2>1 DEF CombinedRegistry, merged, lower, higher
  <2> DEFINE inputs == [n \in Names |-> IF n \in NamesIn(merged) /\ n \in NamesIn(l.registry)
                                          THEN l.registry.inputs[n] ELSE merged.inputs[n]]
  <2>2. CASE l # NoLock
    <3>1. CombinedRegistry(gl, m, l, h) = [merged EXCEPT !.inputs = inputs]
      BY <2>2 DEF CombinedRegistry, merged, lower, higher
    <3> HIDE DEF inputs
    <3>2. QED
      BY <1>3, <3>1
  <2>3. QED
    BY <2>1, <2>2
<1>5. QED
  BY <1>3, <1>4, CombinedIsRegistry, IsTypedRegistry

LEMMA CombineKeepsTypes ==
  ASSUME TypeOK, LockInv, CombineRegistries
  PROVE  TypeOK'
<1>1. man \in Manifests
  BY IdleTypes DEF LockInv, CombineRegistries
<1>2. CombinedRegistry(global, man, old, head) \in RegistryOf(Revs)
  BY <1>1, CombinedTypes DEF LockInv
<1>3. QED
  BY <1>2, FreshTypes DEF CombineRegistries, TypeOK, world, loop

LEMMA StartSystemKeepsTypes ==
  ASSUME TypeOK, LockInv, NEW s \in Systems, StartSystem(s)
  PROVE  TypeOK'
<1>1. man \in Manifests
  BY IdleTypes DEF LockInv, StartSystem
<1>2. UnlockedGroups(man, old, s, ups) \subseteq Groups
  BY <1>1, ManifestTypes DEF UnlockedGroups, GroupsOf, Descriptor
<1>3. QED
  BY <1>2, FreshTypes DEF StartSystem, TypeOK, world

\* What a group is resolved to are packages, even when another has failed.
LEMMA TakeTypes ==
  ASSUME NEW m \in Manifests, m = man, pkgs \in SystemPackages, NEW g, NEW r \in Revs,
         Take(g, r)
  PROVE  pkgs' \in SystemPackages
<1> DEFINE R == Resolved(scraped', man, g, r, sys)
<1>1. ASSUME NEW i \in Members(man, g) PROVE R[i] \in Package \cup {Null}
  <2>1. man.install[i] \in Descriptor
    BY ManifestTypes
  <2>2. R[i] = IF Found(scraped', r, sys, man.install[i])
                 THEN [input |-> r, got |-> man.install[i].want,
                       priority |-> man.install[i].priority]
                 ELSE Null
    BY DEF Resolved
  <2>3. QED
    BY <2>1, <2>2 DEF Package, Descriptor
<1> HIDE DEF R
<1>2. pkgs' = [i \in Iids |-> IF i \in Members(man, g) THEN R[i] ELSE pkgs[i]]
  BY DEF Take, R
<1>3. QED
  BY <1>1, <1>2 DEF SystemPackages

\* Opening the registry scrapes revisions for systems.
LEMMA OpenTypes ==
  ASSUME TypeOK, LockInv, pc = "groups", OpenRegistry
  PROVE  scraped' \subseteq Revs \X Systems /\ dbs' = TRUE
<1>1. man \in Manifests
  BY IdleTypes DEF LockInv
<1>2. man.systems \subseteq Systems
  BY <1>1, ManifestTypes
<1>3. {reg.inputs[n] : n \in NamesIn(reg)} \subseteq Revs
  BY DEF TypeOK, NamesIn, RegistryOf
<1>4. QED
  BY <1>2, <1>3 DEF OpenRegistry, TypeOK

\* The steps of ResolveGroup(): a revision is taken, or nothing is.
LEMMA ResolveGroupSteps ==
  ASSUME LockInv, NEW g, ResolveGroup(g)
  PROVE  /\ \/ OpenRegistry
            \/ UNCHANGED <<scraped, dbs>>
         /\ \/ UNCHANGED pkgs
            \/ \E r \in Revs : Take(g, r)
         /\ failed' = failed \/ failed' = TRUE
<1>1. pc = "groups" /\ IsRegistry(reg)
  BY DEF ResolveGroup, NextGroup, LockInv
<1>2. ASSUME NEW tried, TryRegistry(g, tried)
      PROVE  /\ OpenRegistry
             /\ UNCHANGED pkgs \/ \E r \in Revs : Take(g, r)
             /\ failed' = failed \/ failed' = TRUE
  <2>1. ASSUME NEW k \in DOMAIN GetOrder(reg), Hits(g, tried, k)
        PROVE  reg.inputs[GetOrder(reg)[k]] \in Revs
    BY <1>1, <2>1 DEF Hits, IsRegistry, LockedInputs, NamesIn
  <2>2. QED
    BY <1>2, <2>1 DEF TryRegistry
<1>3. \A p \in Pins(g) : p \in Revs
  BY <1>1, PinTypes
<1>4. QED
  BY <1>2, <1>3 DEF ResolveGroup

LEMMA ResolveGroupKeepsTypes ==
  ASSUME TypeOK, LockInv, NEW g \in Groups, ResolveGroup(g)
  PROVE  TypeOK'
<1>1. /\ pc = "groups" /\ man \in Manifests
      /\ UNCHANGED <<global, manifest, file, head, pc, man, old, ups, reg, made, sys>>
  BY IdleTypes DEF ResolveGroup, NextGroup, LockInv
<1>2. scraped' \subseteq Revs \X Systems /\ dbs' \in BOOLEAN
  BY <1>1, ResolveGroupSteps, OpenTypes DEF TypeOK
<1>3. pkgs' \in SystemPackages
  BY <1>1, ResolveGroupSteps, TakeTypes DEF TypeOK
<1>4. todo' \subseteq Groups
  BY DEF ResolveGroup, TypeOK
<1>5. failed' \in BOOLEAN
  BY ResolveGroupSteps DEF TypeOK
<1>6. QED
  BY <1>1, <1>2, <1>3, <1>4, <1>5 DEF TypeOK

LEMMA FinishSystemKeepsTypes ==
  ASSUME TypeOK, LockInv', FinishSystem
  PROVE  TypeOK'
<1>1. CASE Quiet("failed") /\ UNCHANGED world
  BY <1>1, QuietKeepsTypes, IdleTypes DEF TypeOK, world
<1>2. CASE pc' = "systems" /\ LoopOver /\ UNCHANGED <<world, man, old, ups, reg, dbs>>
  <2>1. made' \in [Systems -> SystemPackages \cup {Absent}]
    BY DEF LockInv
  <2>2. QED
    BY <1>2, <2>1, FreshTypes DEF TypeOK, world, LoopOver
<1>3. QED
  BY <1>1, <1>2 DEF FinishSystem

LEMMA FinishLockKeepsTypes ==
  ASSUME TypeOK, LockInv, FinishLock
  PROVE  TypeOK'
<1>1. CASE /\ \E gone : file' = WithoutInputs(NewLock, gone)
           /\ Quiet("saved") /\ UNCHANGED <<global, manifest, head, scraped>>
  <2>1. PICK gone : file' = WithoutInputs(NewLock, gone)
    BY <1>1
  <2>2. WithoutInputs(NewLock, gone).registry.priority = reg.priority
    <3> DEFINE inputs == [n \in Names |-> IF n \in gone THEN Absent ELSE reg.inputs[n]]
    <3>1. WithoutInputs(NewLock, gone)
            = [NewLock EXCEPT !.registry = [reg EXCEPT !.inputs = inputs]]
      BY DEF WithoutInputs, NewLock
    <3> HIDE DEF inputs
    <3>2. reg = [inputs |-> reg.inputs, priority |-> reg.priority]
      BY DEF LockInv, IsRegistry
    <3>3. [reg EXCEPT !.inputs = inputs].priority = reg.priority
      BY <3>2
    <3>4. QED
      BY <3>1, <3>3 DEF NewLock
  <2>3. reg.priority \in Seq(Names)
    BY DEF TypeOK, RegistryOf
  <2>4. file' \in Outputs
    BY <2>1, <2>2, <2>3, NewLockIsRight, IsTypedLock DEF Outputs
  <2>5. QED
    BY <1>1, <2>4, QuietKeepsTypes, IdleTypes
<1>2. CASE Quiet("failed") /\ UNCHANGED world
  BY <1>2, QuietKeepsTypes, IdleTypes DEF TypeOK, world
<1>3. QED
  BY <1>1, <1>2 DEF FinishLock

LEMMA UpdateKeepsTypes ==
  ASSUME TypeOK, NEW r, file # NoLock => r \in RegistryOf(Revs),
         Update([file EXCEPT !.registry = r])
  PROVE  TypeOK'
<1>1. file \in Lock /\ r \in RegistryOf(Revs)
  BY DEF TypeOK, Outputs, Update
<1>2. [file EXCEPT !.registry = r] \in Outputs
  BY <1>1, TypedLockRegistry DEF Outputs
<1>3. QED
  BY <1>2, QuietKeepsTypes, IdleTypes DEF Update, TypeOK

LEMMA UpdateAllKeepsTypes ==
  ASSUME TypeOK, UpdateAll
  PROVE  TypeOK'
<1> DEFINE r == LockRegistry(manifest.registry, head)
<1>1. manifest.registry \in RegistryOf(Refs) /\ head \in [Refs -> Revs]
  BY ManifestsAssumption DEF TypeOK, Manifest
<1>2. IsRegistry(r)
  BY <1>1, LockedRegistry
<1>3. r.priority = manifest.registry.priority /\ r.priority \in Seq(Names)
  BY <1>1 DEF LockRegistry, RegistryOf
<1>4. r \in RegistryOf(Revs)
  BY <1>2, <1>3, IsTypedRegistry
<1>5. QED
  BY <1>4, UpdateKeepsTypes DEF UpdateAll

LEMMA UpdateInputKeepsTypes ==
  ASSUME TypeOK, NEW n \in Names, UpdateInput(n)
  PROVE  TypeOK'
<1> DEFINE R == manifest.registry
           inputs == [file.registry.inputs EXCEPT ![n] = head[R.inputs[n]]]
           r == [inputs |-> inputs, priority |-> R.priority]
<1>1. /\ R \in RegistryOf(Refs) /\ head \in [Refs -> Revs] /\ n \in NamesIn(R)
      /\ file \in Lock
  BY ManifestsAssumption DEF TypeOK, UpdateInput, Update, Manifest, Outputs
<1>2. head[R.inputs[n]] \in Revs /\ R.priority \in Seq(Names)
  BY <1>1 DEF RegistryOf, NamesIn
<1>3. inputs \in [Names -> Revs \cup {Absent}]
  BY <1>1, <1>2, LockTypes DEF RegistryOf
<1> HIDE DEF inputs
<1>4. r \in RegistryOf(Revs)
  BY <1>2, <1>3 DEF RegistryOf
<1>5. Update([file EXCEPT !.registry = r])
  BY DEF UpdateInput, inputs
<1> HIDE DEF r
<1>6. QED
  BY <1>4, <1>5, UpdateKeepsTypes

LEMMA TypesNext == TypeOK /\ LockInv /\ LockInv' /\ [Next]_vars => TypeOK'
<1> SUFFICES ASSUME TypeOK, LockInv, LockInv', [Next]_vars PROVE TypeOK'
  OBVIOUS
<1>1. ASSUME NEW m \in Manifests, EditManifest(m) PROVE TypeOK'
  BY <1>1, FreshTypes, IdleTypes DEF EditManifest, TypeOK, loop
<1>2. ASSUME NEW ref \in Refs, NEW rev \in Revs, MoveRef(ref, rev) PROVE TypeOK'
  BY <1>2, FreshTypes, IdleTypes DEF MoveRef, TypeOK, loop
<1>3. CASE ClearCache
  BY <1>3, FreshTypes, IdleTypes DEF ClearCache, TypeOK, loop
<1>4. CASE LockStep
  BY <1>4, StartLockKeepsTypes, CombineKeepsTypes, StartSystemKeepsTypes,
     ResolveGroupKeepsTypes, FinishSystemKeepsTypes, FinishLockKeepsTypes DEF LockStep
<1>5. CASE UpdateAll
  BY <1>5, UpdateAllKeepsTypes
<1>6. ASSUME NEW n \in Names, UpdateInput(n) PROVE TypeOK'
  BY <1>6, UpdateInputKeepsTypes
<1>7. CASE UNCHANGED vars
  BY <1>7 DEF vars, world, loop, TypeOK
<1>8. QED
  BY <1>1, <1>2, <1>3, <1>4, <1>5, <1>6, <1>7 DEF Next

-----------------------------------------------------------------------------
(***************************************************************************)
(* No input is passed over.                                                *)
(***************************************************************************)

\* Every input of a registry has a place in its order.
LEMMA OrderCovers ==
  ASSUME NEW r \in RegistryOf(Revs), NEW n \in NamesIn(r)
  PROVE  \E k \in DOMAIN GetOrder(r) : GetOrder(r)[k] = n
<1>1. r.priority \in Seq(Names) /\ Lex \in Seq(Names) /\ n \in Range(Lex)
  BY LexAssumption DEF RegistryOf, NamesIn
<1>2. n \in Range(GetOrder(r))
  BY <1>1, WithNewIsList DEF GetOrder
<1>3. QED
  BY <1>2 DEF Range

LEMMA RunInit == Init => RunInv
BY IdleTypes DEF Init, RunInv

LEMMA QuietKeepsRun ==
  ASSUME NEW stage \in Idle, Quiet(stage)
  PROVE  RunInv'
BY IdleTypes DEF Quiet, LoopOver, RunInv

\* Resolving a group scrapes for all systems, and touches no other group.
LEMMA ResolveGroupKeepsRun ==
  ASSUME LockInv, RunInv, NEW g, ResolveGroup(g)
  PROVE  RunInv'
<1>1. /\ pc = "groups" /\ pc' = "groups" /\ g \in todo /\ man \in Manifests
      /\ UNCHANGED <<man, reg>>
  BY IdleTypes DEF ResolveGroup, NextGroup, LockInv
<1> DEFINE all == {reg.inputs[n] : n \in NamesIn(reg)} \X man.systems
<1>2. dbs' => all \subseteq scraped'
  BY <1>1, ResolveGroupSteps DEF OpenRegistry, RunInv
<1>3. (dbs => {reg.inputs[n] : n \in NamesIn(reg)} \X man.systems \subseteq scraped)'
  BY <1>1, <1>2 DEF NamesIn
<1>4. ASSUME NEW i \in Iids, NEW h \in todo', i \in Members(man, h)
      PROVE  pkgs'[i] = Absent
  <2>1. h \in todo /\ h # g
    BY <1>4 DEF ResolveGroup
  <2>2. i \notin Members(man, g)
    BY <1>1, <1>4, <2>1, ManifestTypes
  <2>3. pkgs[i] = Absent
    BY <1>1, <1>4, <2>1 DEF RunInv
  <2>4. pkgs'[i] = pkgs[i]
    BY <2>2, ResolveGroupSteps DEF Take
  <2>5. QED
    BY <2>3, <2>4
<1>5. QED
  BY <1>1, <1>3, <1>4, IdleTypes DEF RunInv

LEMMA RunNext == LockInv /\ RunInv /\ [Next]_vars => RunInv'
<1> SUFFICES ASSUME LockInv, RunInv, [Next]_vars PROVE RunInv'
  OBVIOUS
<1>1. ASSUME pc \in Idle, pc' = "idle", UNCHANGED <<man, reg, dbs, loop>> PROVE RunInv'
  BY <1>1, IdleTypes DEF RunInv, loop
<1>2. ASSUME NEW m \in Manifests, EditManifest(m) PROVE RunInv'
  BY <1>1, <1>2 DEF EditManifest
<1>3. ASSUME NEW ref \in Refs, NEW rev \in Revs, MoveRef(ref, rev) PROVE RunInv'
  BY <1>1, <1>3 DEF MoveRef
<1>4. CASE ClearCache
  BY <1>1, <1>4 DEF ClearCache
<1>5. ASSUME NEW l, NEW parsed, NEW u, StartLock(l, parsed, u) PROVE RunInv'
  <2>1. CASE pc' = "registry" /\ UNCHANGED <<world, reg, dbs, made, loop>>
    BY <1>5, <2>1, IdleTypes DEF StartLock, RunInv, loop
  <2>2. QED
    BY <1>5, <2>1, QuietKeepsRun, IdleTypes DEF StartLock
<1>6. CASE CombineRegistries
  BY <1>6, IdleTypes DEF CombineRegistries, RunInv, loop
<1>7. ASSUME NEW s \in Systems, StartSystem(s) PROVE RunInv'
  <2>1. /\ pc' = "groups" /\ pkgs' = NoPackages /\ UNCHANGED <<man, reg, dbs, scraped>>
    BY <1>7 DEF StartSystem, world
  <2>2. QED
    BY <2>1, IdleTypes DEF RunInv, NoPackages, NamesIn
<1>8. ASSUME NEW g, ResolveGroup(g) PROVE RunInv'
  BY <1>8, ResolveGroupKeepsRun
<1>9. CASE FinishSystem
  <2>1. CASE pc' = "systems" /\ LoopOver /\ UNCHANGED <<world, man, old, ups, reg, dbs>>
    BY <2>1, IdleTypes DEF LoopOver, RunInv, world, NamesIn
  <2>2. QED
    BY <1>9, <2>1, QuietKeepsRun, IdleTypes DEF FinishSystem
<1>10. CASE FinishLock
  BY <1>10, QuietKeepsRun, IdleTypes DEF FinishLock
<1>11. ASSUME NEW l, Update(l) PROVE RunInv'
  BY <1>11, QuietKeepsRun, IdleTypes DEF Update
<1>12. CASE UNCHANGED vars
  BY <1>12 DEF vars, world, loop, RunInv
<1>13. QED
  BY <1>2, <1>3, <1>4, <1>5, <1>6, <1>7, <1>8, <1>9, <1>10, <1>11, <1>12
     DEF Next, LockStep, UpdateAll, UpdateInput

\* A group that is taken has got entries: a step that leaves the packages alone
\* gives it up.
LEMMA TakeShows ==
  ASSUME LockInv, RunInv, pc = "groups", NEW g \in todo, NEW r \in Revs, Take(g, r)
  PROVE  pkgs' # pkgs
<1>1. man \in Manifests /\ g \in GroupsOf(man)
  BY IdleTypes DEF LockInv, UnlockedGroups
<1>2. PICK i \in Members(man, g) : i \in Iids
  BY <1>1, ManifestTypes DEF GroupsOf
<1>3. pkgs[i] = Absent
  BY <1>2 DEF RunInv
<1>4. pkgs'[i] = Resolved(scraped', man, g, r, sys)[i]
  BY <1>2 DEF Take
<1>5. Resolved(scraped', man, g, r, sys)[i] # Absent
  <2> DEFINE d == man.install[i]
             x == [input |-> r, got |-> d.want, priority |-> d.priority]
  <2>1. Resolved(scraped', man, g, r, sys)[i] \in {x, Null}
    BY <1>2 DEF Resolved
  <2>2. x \in Package
    BY <1>1, <1>2, ManifestTypes DEF Package, Descriptor
  <2>3. QED
    BY <2>1, <2>2, Markers
<1>6. QED
  BY <1>3, <1>4, <1>5

\* A group without a pin is given up after every input of the registry.
LEMMA GivenUpNowhere ==
  ASSUME TypeOK, LockInv, RunInv, NEW g \in Groups, ResolveGroup(g), UNCHANGED pkgs,
         Pins(g) = {}, NEW n \in NamesIn(reg)
  PROVE  Unresolvable(g, reg.inputs[n])
<1> DEFINE r == reg.inputs[n]
<1>1. /\ pc = "groups" /\ g \in todo /\ man \in Manifests /\ sys \in man.systems
      /\ UNCHANGED <<man, reg, sys>>
  BY IdleTypes DEF ResolveGroup, NextGroup, LockInv
<1>2. TryRegistry(g, {}) /\ OpenRegistry
  BY DEF ResolveGroup, TryRegistry
<1>3. ASSUME NEW k \in DOMAIN GetOrder(reg), Hits(g, {}, k)
      PROVE  ~Take(g, reg.inputs[GetOrder(reg)[k]])
  <2>1. reg.inputs[GetOrder(reg)[k]] \in Revs
    BY <1>3 DEF Hits, TypeOK, NamesIn, RegistryOf
  <2>2. QED
    BY <1>1, <2>1, TakeShows
<1>4. \A k \in DOMAIN GetOrder(reg) : ~Hits(g, {}, k)
  BY <1>2, <1>3 DEF TryRegistry
<1>5. PICK k \in DOMAIN GetOrder(reg) : GetOrder(reg)[k] = n
  BY OrderCovers DEF TypeOK
<1>6. ~ResolvesIn(scraped', man, g, r, sys)
  BY <1>4, <1>5 DEF Hits, Passes
<1>7. <<r, sys>> \in scraped'
  BY <1>1, <1>2 DEF OpenRegistry, RunInv
<1>8. QED
  BY <1>6, <1>7 DEF ResolvesIn, Found, Unresolvable

\* One with a pin is given up after a pinned input.
LEMMA GivenUpPinned ==
  ASSUME TypeOK, LockInv, RunInv, NEW g \in Groups, ResolveGroup(g), UNCHANGED pkgs,
         Pins(g) # {}
  PROVE  \E p \in Pins(g) : <<p, sys>> \notin scraped \/ Unresolvable(g, p)
<1>1. /\ pc = "groups" /\ g \in todo /\ man \in Manifests /\ sys \in man.systems
      /\ UNCHANGED <<man, reg, sys>>
  BY IdleTypes DEF ResolveGroup, NextGroup, LockInv
<1>2. \A p \in Pins(g) : p \in Revs
  BY <1>1, PinTypes
<1>3. ASSUME NEW p \in Pins(g), UNCHANGED scraped
      PROVE  ~Take(g, p)
  BY <1>1, <1>2, <1>3, TakeShows
<1>4. PICK p \in Pins(g) : ~ResolvesIn(scraped, man, g, p, sys)
  BY <1>3 DEF ResolveGroup
<1>5. QED
  BY <1>4 DEF ResolvesIn, Found, Unresolvable

\* No other step takes a group from the list.
LEMMA OnlyResolving ==
  ASSUME LockInv, RunInv, [Next]_vars, NEW g \in Groups, GivesUp(g)
  PROVE  ResolveGroup(g)
<1>1. todo # {} /\ todo' # todo /\ pc = "groups" /\ g \in todo \ todo'
  BY DEF GivesUp, RunInv
<1>2. PICK h \in Groups : ResolveGroup(h)
  BY <1>1, IdleTypes DEF Next, EditManifest, MoveRef, ClearCache, UpdateAll, UpdateInput,
     Update, LockStep, StartLock, CombineRegistries, StartSystem, FinishSystem, FinishLock,
     vars, loop
<1>3. CASE h = g
  BY <1>2, <1>3
<1>4. CASE h # g
  <2>1. h \in todo /\ h \notin todo'
    BY <1>2 DEF ResolveGroup, NextGroup
  <2>2. QED
    BY <1>4, <2>1 DEF GivesUp
<1>5. QED
  BY <1>3, <1>4

-----------------------------------------------------------------------------
\* Every lock on disk, every lock a run starts from and everything a run has
\* made is right (Environment::createLockfile(), UpdateCommand::run()).
THEOREM LocksAreRight == Spec => []LockInv
BY InvInit, InvNext, PTL DEF Spec

\* Every variable keeps its type: what registries are merged to is a list of
\* names, and what the steps of a run make are packages (RegistryRaw::merge(),
\* createLockfile()).
THEOREM LockingTypes == Spec => []TypeOK
BY TypesInit, TypesNext, LocksAreRight, PTL DEF Spec

\* The databases of a run are open and scraped for each of its systems or not
\* at all (getPkgDbRegistry(), lockSystem()).
THEOREM RunsAreWhole == Spec => []RunInv
BY RunInit, RunNext, LocksAreRight, PTL DEF Spec

\* Both: what a run has made is right, and what it works with is whole.
THEOREM LockingInvariant == Spec => []LockingInv
BY LocksAreRight, RunsAreWhole, PTL DEF LockingInv

\* A group with no pin is given up only if no input of the registry has all of
\* it: every name has its place in the order, each is tried, and each database
\* has been scraped for the system (getOrder(), tryResolveGroup(),
\* getPkgDbRegistry()).  A pinned one is given up only if a pinned input does
\* not have all of it or was never scraped.
THEOREM NothingPassedOver == Spec => GivesUpOnlyIfNowhere
<1>1. TypeOK /\ LockInv /\ RunInv /\ [Next]_vars
        => \A g \in Groups : GivesUp(g) =>
             IF Pins(g) = {} THEN \A n \in NamesIn(reg) : Unresolvable(g, reg.inputs[n])
             ELSE \E p \in Pins(g) : <<p, sys>> \notin scraped \/ Unresolvable(g, p)
  BY OnlyResolving, GivenUpNowhere, GivenUpPinned DEF GivesUp
<1>2. QED
  BY <1>1, LockingTypes, LocksAreRight, RunsAreWhole, PTL DEF Spec, GivesUpOnlyIfNowhere

\* The packages of a group come from one revision of one input, before
\* Lockfile::checkGroups() has looked: groups that are kept, resolved again,
\* split or merged alike.
THEOREM GroupsShare == Spec => []GroupsShareInput
<1>1. LockInv => GroupsShareInput
  <2>1. SUFFICES ASSUME LockInv, NEW s \in Systems
                 PROVE  /\ file # NoLock /\ file.packages[s] # Absent
                             => Shared(file.manifest, file.packages[s])
                        /\ made[s] # Absent => Shared(man, made[s])
    BY DEF GroupsShareInput
  <2>2. QED
    BY <2>1 DEF LockInv, RightLock, MadeRight, Right
<1>2. QED
  BY <1>1, LocksAreRight, PTL

\* A lock on disk has all systems and descriptors of its manifest, and nulls
\* only where these allow them (groupIsLocked(), tryResolveGroupIn()).
THEOREM NothingIsMissing == Spec => []NothingMissing
<1>1. LockInv => NothingMissing
  <2>1. SUFFICES ASSUME LockInv, file # NoLock, NEW s \in file.manifest.systems
                 PROVE  /\ file.packages[s] # Absent
                        /\ Complete(file.manifest, s, file.packages[s])
    BY DEF NothingMissing
  <2>2. s \in Systems /\ Right(file.manifest, s, Installed(file.manifest), file.packages[s])
        /\ file.packages[s] # Absent
    BY <2>1, ManifestTypes DEF LockInv, RightLock
  <2>3. \A i \in Installed(file.manifest) : Fits(file.manifest, s, i, file.packages[s][i])
    BY <2>2 DEF Right
  <2>4. QED
    BY <2>2, <2>3, Markers DEF Complete, Fits
<1>2. QED
  BY <1>1, LocksAreRight, PTL

\* No lock on disk has a package that its manifest does not ask for in that
\* form, or its input does not have on that system.
THEOREM LockedIsWanted == Spec => []LockedAsWanted
<1>1. LockInv => LockedAsWanted
  <2>1. SUFFICES ASSUME LockInv, file # NoLock, NEW s \in Systems, file.packages[s] # Absent
                 PROVE  AsWanted(file.manifest, s, file.packages[s])
    BY DEF LockedAsWanted
  <2>2. Right(file.manifest, s, Installed(file.manifest), file.packages[s])
    BY <2>1 DEF LockInv, RightLock
  <2>3. QED
    BY <2>2, Markers DEF AsWanted, Right, Fits, Installed
<1>2. QED
  BY <1>1, LocksAreRight, PTL

\* A run that saves a lock saves what it has made.
LEMMA SavedIsMade ==
  ASSUME LockInv, [Next]_vars, Saves
  PROVE  /\ man \in Manifests
         /\ file'.packages = made
         /\ \A s \in Systems : made[s] # Absent <=> s \in man.systems
         /\ \A s \in Systems : made[s] # Absent => MadeRight(s)
<1>1. pc = "systems" /\ pc' = "saved" /\ pc \notin Idle
  BY IdleTypes DEF Saves
<1>2. FinishLock
  BY <1>1 DEF Next, EditManifest, MoveRef, ClearCache, UpdateAll, UpdateInput, Update,
     LockStep, StartLock, CombineRegistries, StartSystem, ResolveGroup, NextGroup,
     FinishSystem, vars
<1>3. PICK gone : file' = WithoutInputs(NewLock, gone)
  BY <1>1, <1>2 DEF FinishLock, Quiet
<1>4. file'.packages = made
  BY <1>3 DEF WithoutInputs, NewLock
<1>5. \A s \in man.systems : made[s] # Absent
  BY <1>2 DEF FinishLock
<1>6. \A s \in Systems : made[s] # Absent => MadeRight(s)
  BY DEF LockInv
<1>7. QED
  BY <1>1, <1>4, <1>5, <1>6 DEF LockInv, MadeRight

\* A package whose descriptor has not changed stays in its input: the pins of
\* its group are that input, and no other is tried after it
\* (getGroupInput(), tryResolveGroup()).
THEOREM PinsAreKept == Spec => PinsHold
<1>1. LockInv /\ [Next]_vars
        => (Saves => \A s \in Systems : file'.packages[s] # Absent
                                          => Pinned(s, file'.packages[s]))
  BY SavedIsMade DEF MadeRight
<1>2. QED
  BY <1>1, LocksAreRight, PTL DEF Spec, PinsHold

\* Locking the same manifest again without upgrades gives the packages of the
\* old lock (groupIsLocked(), lockSystem()).
THEOREM RelockingIsStable == Spec => RelockIsStable
<1>1. LockInv /\ [Next]_vars
        => (Saves /\ old # NoLock /\ ups = {} =>
              (man = old.manifest => file'.packages = old.packages))
  <2>1. SUFFICES ASSUME LockInv, [Next]_vars, Saves, old # NoLock, ups = {},
                        man = old.manifest
                 PROVE  made = old.packages
    BY SavedIsMade
  <2>2. \A s \in Systems : IF s \in man.systems THEN MadeRight(s) ELSE made[s] = Absent
    BY <2>1, SavedIsMade
  <2>3. \A s \in Systems : made[s] = old.packages[s]
    BY <2>1, <2>2 DEF MadeRight, SameManifest, LockInv, RightLock
  <2>4. QED
    BY <2>1, <2>3 DEF LockInv, RightLock
<1>2. QED
  BY <1>1, LocksAreRight, PTL DEF Spec, RelockIsStable
=============================================================================
