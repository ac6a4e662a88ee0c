--------------------------- MODULE Session_proofs ---------------------------
(***************************************************************************)
(* What commands print, for all files, options and orders of them.         *)
(***************************************************************************)
EXTENDS Session, Vectors_proofs

\* The markers for null, an exception and a wrong type are no functions, hence
\* no objects, structures or lists.  TLC's model values are like that.
MarkersAreAtoms ==
  \A f : f = [x \in DOMAIN f |-> f[x]] => f \notin {None, Refused, Malformed}
-----------------------------------------------------------------------------
(***************************************************************************)
(* Options.                                                                *)
(***************************************************************************)

\* The structure o holds what the JSON j says.
Means(o, j) ==
  /\ Field(o, "systems") = Member(j, "systems")
  /\ \A f \in AllowFields : Field(Field(o, "allow"), f) = Member(Member(j, "allow"), f)
  /\ o # None => DOMAIN o = OptionFields
  /\ Field(o, "allow") # None => DOMAIN Field(o, "allow") = AllowFields

LEMMA AllowRead ==
  ASSUME MarkersAreAtoms, NEW v, ReadPlain(v, AllowFields) # Refused
  PROVE  LET a == ReadPlain(v, AllowFields)
         IN  /\ a # None /\ DOMAIN a = AllowFields /\ v # None
             /\ \A f \in AllowFields : a[f] = Member(v, f)
<1> DEFINE a == ReadPlain(v, AllowFields)
<1>1. /\ v # None /\ a = [f \in AllowFields |-> IF f \in DOMAIN v THEN v[f] ELSE None]
  BY DEF ReadPlain, ReadObject, ReadValue
<1>2. a # None
  BY <1>1 DEF MarkersAreAtoms
<1>3. QED
  BY <1>1, <1>2 DEF Member

LEMMA OptionsRead ==
  ASSUME MarkersAreAtoms, NEW json, OptionsFromJSON(json) # Refused
  PROVE  Means(OptionsFromJSON(json), json)
<1> DEFINE o == OptionsFromJSON(json)
<1>1. CASE json = None
  BY <1>1 DEF OptionsFromJSON, Means, Field, Member
<1>2. CASE json # None
  <2> DEFINE Read(f, v) ==
            CASE f = "allow" /\ v # None -> ReadPlain(v, AllowFields)
              [] f = "semver" -> ReadPlain(v, SemverFields)
              [] OTHER -> ReadValue(v)
  <2>1. /\ o = [f \in OptionFields |-> IF f \in DOMAIN json THEN Read(f, json[f]) ELSE None]
        /\ \A f \in DOMAIN json : Read(f, json[f]) # Refused
        /\ DOMAIN json \subseteq OptionFields
    BY <1>2 DEF OptionsFromJSON, ReadObject
  <2>2. o # None
    BY <2>1 DEF MarkersAreAtoms
  <2>3. o["systems"] = Member(json, "systems")
    BY <1>2, <2>1 DEF OptionFields, ReadValue, Member
  <2>4. CASE Member(json, "allow") = None
    BY <1>2, <2>1, <2>2, <2>3, <2>4 DEF OptionFields, ReadValue, Member, Means, Field
  <2>5. CASE Member(json, "allow") # None
    <3> DEFINE v == json["allow"]
    <3>1. v = Member(json, "allow") /\ o["allow"] = ReadPlain(v, AllowFields)
          /\ ReadPlain(v, AllowFields) # Refused
      BY <1>2, <2>1, <2>5 DEF OptionFields, Member
    <3> DEFINE a == ReadPlain(v, AllowFields)
    <3>2. /\ a # None /\ DOMAIN a = AllowFields
          /\ \A f \in AllowFields : a[f] = Member(v, f)
      BY <3>1, AllowRead
    <3>3. DOMAIN o = OptionFields
      BY <2>1
    <3> HIDE DEF v, o, a
    <3>4. QED
      BY <2>2, <2>3, <3>1, <3>2, <3>3 DEF Means, Field, a, o
  <2>6. QED
    BY <2>4, <2>5
<1>3. QED
  BY <1>1, <1>2

\* Options are merged field by field; what an option in `allow' is in the result
\* it is in the last of the merged structures that has it.
IsOptions(o) ==
  o # None => /\ DOMAIN o = OptionFields
              /\ o.allow # None => DOMAIN o.allow = AllowFields

LEMMA MergedOptions ==
  ASSUME MarkersAreAtoms, NEW base, NEW over, IsOptions(base), base # None, IsOptions(over)
  PROVE  LET o == Over(base, over)
         IN  /\ IsOptions(o) /\ o # None
             /\ o.systems = Or(Field(over, "systems"), base.systems)
             /\ \A f \in AllowFields : Field(o.allow, f) =
                    Or(Field(Field(over, "allow"), f), Field(base.allow, f))
<1>1. CASE over = None
  BY <1>1 DEF Over, Field, Or, IsOptions
<1>2. CASE over # None
  <2> DEFINE allow == MergeOptional(base.allow, over.allow)
             o == Over(base, over)
  <2>1. /\ o # None /\ DOMAIN o = OptionFields /\ o.allow = allow
        /\ o.systems = Or(over.systems, base.systems)
    <3>1. o = [f \in OptionFields |->
                 IF f = "allow" THEN allow
                 ELSE IF f = "semver" THEN MergeOptional(base.semver, over.semver)
                 ELSE Or(over[f], base[f])]
      BY <1>2 DEF Over, MergeOptions, MergeFields, IsOptions, OptionFields
    <3> HIDE DEF o, allow
    <3>2. QED
      BY <3>1 DEF OptionFields, MarkersAreAtoms
  <2>2. allow # None => DOMAIN allow = AllowFields
    BY <1>2 DEF MergeOptional, MergeFields, Or, IsOptions
  <2>3. ASSUME NEW f \in AllowFields
        PROVE  Field(allow, f) = Or(Field(over.allow, f), Field(base.allow, f))
    <3>1. CASE base.allow = None \/ over.allow = None
      BY <3>1 DEF MergeOptional, Field, Or
    <3>2. CASE base.allow # None /\ over.allow # None
      <4>1. allow = [g \in AllowFields |-> Or(over.allow[g], base.allow[g])]
        BY <1>2, <3>2 DEF MergeOptional, MergeFields, IsOptions
      <4>2. allow # None
        BY <4>1 DEF MarkersAreAtoms
      <4> HIDE DEF allow
      <4>3. QED
        BY <3>2, <4>1, <4>2 DEF Field
    <3>3. QED
      BY <3>1, <3>2
  <2> HIDE DEF o, allow
  <2>4. QED
    BY <1>2, <2>1, <2>2, <2>3 DEF IsOptions, Field, o
<1>3. QED
  BY <1>1, <1>2
\* Three structures of options, and the query arguments they make.
LEMMA CombinedArgs ==
  ASSUME MarkersAreAtoms, NEW g, NEW l, NEW o, IsOptions(g), IsOptions(l), IsOptions(o)
  PROVE  LET a == ArgsOf(CombinedOptions(g, l, o))
             Allow(f) == Or(Field(Field(o, "allow"), f),
                            Or(Field(Field(l, "allow"), f), Field(Field(g, "allow"), f)))
         IN  /\ DOMAIN a = DOMAIN NoArgs
             /\ a.pnameOrAttrName = None /\ a.subtrees = None /\ a.relPath = None
             /\ a.systems = Or(Field(o, "systems"),
                               Or(Field(l, "systems"),
                                  Or(Field(g, "systems"), <<ThisSystem>>)))
             /\ a.allowUnfree = Or(Allow("unfree"), TRUE)
             /\ a.allowBroken = Or(Allow("broken"), FALSE)
             /\ a.licenses = Allow("licenses")
<1> DEFINE x == Over(NoOptions, g)
           y == Over(x, l)
           z == Over(y, o)
<1>1. IsOptions(NoOptions) /\ NoOptions # None /\ NoOptions.systems = None /\ NoOptions.allow = None
  BY DEF NoOptions, IsOptions, OptionFields, MarkersAreAtoms
<1>2. /\ IsOptions(x) /\ x # None
      /\ x.systems = Or(Field(g, "systems"), NoOptions.systems)
      /\ \A f \in AllowFields : Field(x.allow, f) =
             Or(Field(Field(g, "allow"), f), Field(NoOptions.allow, f))
  BY <1>1, MergedOptions
<1> HIDE DEF x
<1>3. /\ IsOptions(y) /\ y # None
      /\ y.systems = Or(Field(l, "systems"), x.systems)
      /\ \A f \in AllowFields : Field(y.allow, f) =
             Or(Field(Field(l, "allow"), f), Field(x.allow, f))
  BY <1>2, MergedOptions
<1> HIDE DEF y
<1>4. /\ z.systems = Or(Field(o, "systems"), y.systems)
      /\ \A f \in AllowFields : Field(z.allow, f) =
             Or(Field(Field(o, "allow"), f), Field(y.allow, f))
  BY <1>3, MergedOptions
<1> HIDE DEF z
<1>5. CombinedOptions(g, l, o) = z
  BY DEF CombinedOptions, x, y, z
<1>6. /\ z.systems = Or(Field(o, "systems"), Or(Field(l, "systems"), Field(g, "systems")))
      /\ \A f \in AllowFields :
             Field(z.allow, f) = Or(Field(Field(o, "allow"), f),
                                    Or(Field(Field(l, "allow"), f), Field(Field(g, "allow"), f)))
  BY <1>1, <1>2, <1>3, <1>4 DEF Or, Field
<1>7. \A f \in {"unfree", "broken", "licenses"} : f \in AllowFields
  BY DEF AllowFields
<1> DEFINE systems == Or(z.systems, <<ThisSystem>>)
           unfree == Or(Field(z.allow, "unfree"), TRUE)
           broken == Or(Field(z.allow, "broken"), FALSE)
           licenses == Field(z.allow, "licenses")
           preRelease == Or(Field(z.semver, "preferPreReleases"), FALSE)
           a == ArgsOf(z)
<1>8. a = [NoArgs EXCEPT !.systems = systems, !.allowUnfree = unfree, !.allowBroken = broken,
                         !.licenses = licenses, !.preferPreReleases = preRelease]
  BY DEF ArgsOf, NoArgs
<1>9. /\ systems = Or(Field(o, "systems"),
                      Or(Field(l, "systems"), Or(Field(g, "systems"), <<ThisSystem>>)))
      /\ unfree = Or(Or(Field(Field(o, "allow"), "unfree"),
                        Or(Field(Field(l, "allow"), "unfree"),
                           Field(Field(g, "allow"), "unfree"))), TRUE)
      /\ broken = Or(Or(Field(Field(o, "allow"), "broken"),
                        Or(Field(Field(l, "allow"), "broken"),
                           Field(Field(g, "allow"), "broken"))), FALSE)
      /\ licenses = Or(Field(Field(o, "allow"), "licenses"),
                       Or(Field(Field(l, "allow"), "licenses"),
                          Field(Field(g, "allow"), "licenses")))
  BY <1>6, <1>7 DEF Or
<1>10. DOMAIN a = DOMAIN NoArgs
  BY DEF ArgsOf, NoArgs
<1> HIDE DEF systems, unfree, broken, licenses, preRelease, a
<1>11. /\ a.pnameOrAttrName = None /\ a.subtrees = None /\ a.relPath = None
       /\ a.systems = systems /\ a.allowUnfree = unfree /\ a.allowBroken = broken
       /\ a.licenses = licenses
  BY <1>8 DEF NoArgs
<1>12. QED
  BY <1>5, <1>9, <1>10, <1>11 DEF a
-----------------------------------------------------------------------------
(***************************************************************************)
(* Queries.                                                                *)
(***************************************************************************)

\* What is kept of the versions that are found (PkgQuery::execute()).
InRange(full, row) ==
  \/ full.semver = None \/ AnyVersion(full.semver)
  \/ row.semver \in SemverSat(full.semver, {row.semver})

LEMMA Executed ==
  ASSUME NEW db, NEW full, NEW row
  PROVE  row \in Execute(db, full) <=> row \in db /\ Selected(row, full) /\ InRange(full, row)
BY DEF Execute, FilterSemvers, InRange, SemverSat

\* With the fields of a query in it, and what the merged options say, a query
\* finds what is wanted and no other row.
LEMMA SelectedIsWanted ==
  ASSUME NEW q, DOMAIN q = QueryFields, \A f \in QueryFields : q[f] = AskedFor(f),
         NEW base, DOMAIN base = DOMAIN NoArgs,
         base.pnameOrAttrName = None, base.subtrees = None, base.relPath = None,
         base.systems = AllowedSystems,
         base.allowBroken = Setting("allow", "broken", FALSE),
         base.allowUnfree = Setting("allow", "unfree", TRUE),
         Setting("allow", "licenses", <<>>) = Or(base.licenses, <<>>),
         ValidArgs(Overlay(q, base)), NEW row
  PROVE  LET full == Overlay(q, base)
         IN  Selected(row, full) /\ InRange(full, row) <=> Wanted(row)
<1> DEFINE full == Overlay(q, base)
<1>1. /\ full.name = AskedFor("name") /\ full.pname = AskedFor("pname")
      /\ full.version = AskedFor("version") /\ full.semver = AskedFor("semver")
      /\ full.partialMatch = AskedFor("partialMatch")
      /\ full.partialNameMatch = AskedFor("partialNameMatch")
  BY DEF Overlay, QueryFields
<1>2. /\ full.pnameOrAttrName = None /\ full.subtrees = None /\ full.relPath = None
      /\ full.systems = base.systems /\ full.allowBroken = base.allowBroken
      /\ full.allowUnfree = base.allowUnfree /\ full.licenses = base.licenses
  BY DEF Overlay, QueryFields, NoArgs
<1> HIDE DEF full
<1>3. /\ full.version = None \/ full.semver = None
      /\ full.partialMatch = None \/ full.partialNameMatch = None
  BY DEF ValidArgs, full
<1>4. MatchesName(row, full) <=>
        /\ Given(AskedFor("partialMatch")) =>
             \E t \in {row.pname, AttrName(row)} \cup {row.description} :
                 <<AskedFor("partialMatch"), t>> \in Likes
        /\ Given(AskedFor("partialNameMatch")) =>
             \E t \in {row.pname, AttrName(row)} : <<AskedFor("partialNameMatch"), t>> \in Likes
  BY <1>1, <1>2, <1>3 DEF MatchesName, Given, Pattern, Like
<1>5. /\ full.licenses # None /\ full.licenses # <<>> => row.license \in ToSet(full.licenses)
      <=> (Or(base.licenses, <<>>) # <<>> => row.license \in ToSet(Or(base.licenses, <<>>)))
  BY <1>2 DEF Or
<1>6. QED
  BY <1>1, <1>2, <1>3, <1>4, <1>5 DEF Selected, Wanted, InRange, Name, full
-----------------------------------------------------------------------------
(***************************************************************************)
(* What is read from JSON.                                                 *)
(***************************************************************************)
IsRegistry(reg) ==
  /\ DOMAIN reg = DOMAIN NoRegistry
  /\ \A n \in DOMAIN reg.inputs : DOMAIN reg.inputs[n] = {"subtrees", "from"}

IsManifest(m, kind) ==
  /\ m # None /\ DOMAIN m = kind /\ IsOptions(m.options)
  /\ Has(m, "registry") => IsRegistry(m.registry)

LEMMA InputRead ==
  ASSUME NEW json, InputFromJSON(json) # Refused
  PROVE  DOMAIN InputFromJSON(json) = {"subtrees", "from"}
BY DEF InputFromJSON, ReadObject

LEMMA RegistryRead ==
  ASSUME NEW json, RegistryFromJSON(json) # Refused
  PROVE  IsRegistry(RegistryFromJSON(json))
<1> DEFINE reg == RegistryFromJSON(json)
           Read(f, v) == RegistryMemberFromJSON(f, v)
           obj == WriteObject(json)
           read == ReadObject(obj, DOMAIN NoRegistry, RegistryMemberFromJSON)
<1>1. /\ read # Refused
      /\ reg = [f \in DOMAIN NoRegistry |-> Or(read[f], NoRegistry[f])]
  BY DEF RegistryFromJSON
<1>2. /\ read = [f \in DOMAIN NoRegistry |-> IF f \in DOMAIN obj THEN Read(f, obj[f]) ELSE None]
      /\ \A f \in DOMAIN obj : Read(f, obj[f]) # Refused
  BY <1>1 DEF ReadObject
<1>3. "inputs" \in DOMAIN NoRegistry /\ NoRegistry.inputs = NoInputs
  BY DEF NoRegistry
<1>4. \/ reg.inputs = NoInputs
      \/ /\ "inputs" \in DOMAIN obj /\ reg.inputs = InputsFromJSON(obj["inputs"])
         /\ InputsFromJSON(obj["inputs"]) # Refused
  <2> HIDE DEF reg, obj, read
  <2>1. QED
    BY <1>1, <1>2, <1>3 DEF Or, RegistryMemberFromJSON
<1>5. \A n \in DOMAIN reg.inputs : DOMAIN reg.inputs[n] = {"subtrees", "from"}
  <2> HIDE DEF reg, obj, read
  <2>1. CASE reg.inputs = NoInputs
    BY <2>1 DEF NoInputs
  <2>2. CASE reg.inputs = InputsFromJSON(obj["inputs"])
             /\ InputsFromJSON(obj["inputs"]) # Refused
    BY <2>2, InputRead DEF InputsFromJSON
  <2>3. QED
    BY <1>4, <2>1, <2>2
<1>6. QED
  BY <1>1, <1>5 DEF IsRegistry

LEMMA EmptyIsManifest ==
  ASSUME MarkersAreAtoms, NEW kind \in {Manifest, GlobalManifest}
  PROVE  /\ IsManifest(EmptyManifest(kind), kind)
         /\ EmptyManifest(kind).options = None /\ EmptyManifest(kind).registry = None
BY DEF MarkersAreAtoms, EmptyManifest, IsManifest, IsOptions, Has, Manifest, GlobalManifest,
       ManifestGA, GlobalManifestGA

LEMMA ManifestRead ==
  ASSUME MarkersAreAtoms, NEW json, NEW kind \in {Manifest, GlobalManifest},
         ManifestFromJSON(json, kind) # Refused
  PROVE  LET m == ManifestFromJSON(json, kind)
         IN  IsManifest(m, kind) /\ Means(m.options, Member(json, "options"))
<1> DEFINE m == ManifestFromJSON(json, kind)
<1>1. /\ json # None
      /\ m = [f \in kind |-> IF f \in DOMAIN json THEN MemberFromJSON(f, json[f]) ELSE None]
      /\ \A f \in DOMAIN json : MemberFromJSON(f, json[f]) # Refused
  BY DEF ManifestFromJSON, Checked, ReadObject
<1> HIDE DEF m
<1>2. "options" \in kind /\ "registry" \in kind
  BY DEF Manifest, GlobalManifest, ManifestGA, GlobalManifestGA
<1>3. m # None /\ DOMAIN m = kind
  BY <1>1 DEF MarkersAreAtoms
<1>4. Means(m.options, Member(json, "options"))
  <2>1. CASE Member(json, "options") = None
    <3>1. m.options = None
      BY <1>1, <1>2, <2>1 DEF Member, MemberFromJSON
    <3>2. QED
      BY <2>1, <3>1 DEF Means, Field, Member
  <2>2. CASE Member(json, "options") # None
    <3> DEFINE v == Member(json, "options")
    <3>1. m.options = OptionsFromJSON(v) /\ OptionsFromJSON(v) # Refused
      BY <1>1, <1>2, <2>2 DEF Member, MemberFromJSON
    <3> HIDE DEF v
    <3>2. QED
      BY <3>1, OptionsRead DEF v
  <2>3. QED
    BY <2>1, <2>2
<1>5. Has(m, "registry") => IsRegistry(m.registry)
  <2> SUFFICES ASSUME Has(m, "registry") PROVE IsRegistry(m.registry)
    OBVIOUS
  <2>1. "registry" \in DOMAIN json /\ m.registry = MemberFromJSON("registry", json["registry"])
        /\ json["registry"] # None
        /\ MemberFromJSON("registry", json["registry"]) # Refused
    BY <1>1, <1>2 DEF Has, MemberFromJSON
  <2>2. MemberFromJSON("registry", json["registry"]) = RegistryFromJSON(json["registry"])
    BY <2>1 DEF MemberFromJSON
  <2>3. QED
    BY <2>1, <2>2, RegistryRead
<1>6. QED
  BY <1>3, <1>4, <1>5 DEF IsManifest, IsOptions, Means, Field, m

\* Those of manifests have all their inputs in order.
GoodManifest(m, kind) ==
  IsManifest(m, kind) /\ (Has(m, "registry") => WellOrdered(m.registry))

IsLock(lock) ==
  /\ lock # None /\ DOMAIN lock = {"manifest", "registry"}
  /\ IsManifest(lock.manifest, Manifest) /\ IsRegistry(lock.registry)

LEMMA NoRegistryIsOne == IsRegistry(NoRegistry) /\ WellOrdered(NoRegistry)
<1>1. IsRegistry(NoRegistry)
  BY DEF IsRegistry, NoRegistry, NoInputs
<1>2. NoRegistry.priority = <<>> /\ DOMAIN NoRegistry.inputs = {}
  BY DEF NoRegistry, NoInputs
<1>3. QED
  BY <1>1, <1>2 DEF WellOrdered

LEMMA LockRead ==
  ASSUME MarkersAreAtoms, NEW json, LockFromJSON(json) # Refused
  PROVE  LET lock == LockFromJSON(json)
         IN  /\ IsLock(lock) /\ json # None
             /\ Means(lock.manifest.options, Member(Member(json, "manifest"), "options"))
<1> DEFINE read == ReadObject(json, {"manifest", "registry"}, LockMemberFromJSON)
           lock == LockFromJSON(json)
<1>1. /\ json # None /\ read # Refused
      /\ read = [f \in {"manifest", "registry"} |->
                   IF f \in DOMAIN json THEN LockMemberFromJSON(f, json[f]) ELSE None]
      /\ \A f \in DOMAIN json : LockMemberFromJSON(f, json[f]) # Refused
  BY DEF LockFromJSON, LockOf, ReadObject
<1>2. lock = [manifest |-> Or(read.manifest, EmptyManifest(Manifest)),
              registry |-> Or(read.registry, NoRegistry)]
  BY <1>1 DEF LockFromJSON, LockOf
<1> HIDE DEF read, lock
<1>3. lock # None /\ DOMAIN lock = {"manifest", "registry"}
  BY <1>2 DEF MarkersAreAtoms
<1>4. /\ IsManifest(lock.manifest, Manifest)
      /\ Means(lock.manifest.options, Member(Member(json, "manifest"), "options"))
  <2>1. CASE "manifest" \in DOMAIN json
    <3>1. /\ read.manifest = ManifestFromJSON(json["manifest"], Manifest)
          /\ ManifestFromJSON(json["manifest"], Manifest) # Refused
      BY <1>1, <2>1 DEF LockMemberFromJSON
    <3>2. IsManifest(read.manifest, Manifest)
          /\ Means(read.manifest.options, Member(json["manifest"], "options"))
      BY <3>1, ManifestRead
    <3>3. lock.manifest = read.manifest
      BY <1>2, <3>2 DEF Or, IsManifest
    <3>4. Member(json, "manifest") = json["manifest"]
      BY <1>1, <2>1 DEF Member
    <3>5. QED
      BY <3>2, <3>3, <3>4
  <2>2. CASE "manifest" \notin DOMAIN json
    <3>1. read.manifest = None /\ lock.manifest = EmptyManifest(Manifest)
      BY <1>1, <1>2, <2>2 DEF Or
    <3>2. Member(Member(json, "manifest"), "options") = None
      BY <2>2 DEF Member
    <3>3. QED
      BY <3>1, <3>2, EmptyIsManifest DEF Means, Field, Member
  <2>3. QED
    BY <2>1, <2>2
<1>5. IsRegistry(lock.registry)
  <2>1. CASE "registry" \in DOMAIN json
    <3>1. /\ read.registry = RegistryFromJSON(json["registry"])
          /\ RegistryFromJSON(json["registry"]) # Refused
      BY <1>1, <2>1 DEF LockMemberFromJSON
    <3>2. lock.registry \in {read.registry, NoRegistry}
      BY <1>2 DEF Or
    <3>3. QED
      BY <3>1, <3>2, RegistryRead, NoRegistryIsOne
  <2>2. CASE "registry" \notin DOMAIN json
    BY <1>1, <1>2, <2>2, NoRegistryIsOne DEF Or
  <2>3. QED
    BY <2>1, <2>2
<1>6. QED
  BY <1>1, <1>3, <1>4, <1>5 DEF IsLock, lock
-----------------------------------------------------------------------------
(***************************************************************************)
(* Manifests of files and parameters.                                      *)
(***************************************************************************)
KindOf(f) == IF f = "manifest" THEN Manifest ELSE GlobalManifest

LEMMA KindRefusesLocks ==
  ASSUME NEW json, DOMAIN json = {"manifest", "registry"},
         NEW kind \in {Manifest, GlobalManifest}
  PROVE  ManifestFromJSON(json, kind) = Refused
<1>1. "manifest" \notin kind
  BY DEF Manifest, GlobalManifest, ManifestGA, GlobalManifestGA
<1>2. QED
  BY <1>1 DEF ManifestFromJSON, Checked, ReadObject

LEMMA FileManifest ==
  ASSUME MarkersAreAtoms, FilesInv, NEW path, NEW f \in {"manifest", "globalManifest"},
         ManifestFile(path, KindOf(f)) # Refused
  PROVE  /\ Exists(path)
         /\ ManifestFile(path, KindOf(f)) = ManifestFromJSON(files[path], KindOf(f))
         /\ GoodManifest(ManifestFile(path, KindOf(f)), KindOf(f))
<1> DEFINE m == ManifestFromJSON(files[path], KindOf(f))
<1>1. Exists(path) /\ ManifestFile(path, KindOf(f)) = m /\ m # Refused
  BY DEF ManifestFile
<1>2. KindOf(f) \in {Manifest, GlobalManifest} /\ m = Contents(f, files[path])
  BY DEF KindOf, Contents
<1>3. IsManifest(m, KindOf(f))
  BY <1>1, <1>2, ManifestRead
<1>4. path \in DOMAIN Files0 /\ files[path] = Files0[path]
  BY <1>1, <1>2, KindRefusesLocks DEF FilesInv, Exists
<1>5. Has(m, "registry") => WellOrdered(m.registry)
  BY <1>1, <1>2, <1>4, ManifestsAssumption DEF WellOrderedIn
<1>6. QED
  BY <1>1, <1>3, <1>5 DEF GoodManifest

LEMMA SourceManifest ==
  ASSUME MarkersAreAtoms, FilesInv, OptionsInv, Taken, NEW f \in {"manifest", "globalManifest"},
         mixin.params[f] # None, FromSource(f) # Refused
  PROVE  /\ GoodManifest(FromSource(f), KindOf(f))
         /\ Means(FromSource(f).options, Member(SourceJSON(Param(f)), "options"))
<1> DEFINE source == Param(f)
<1>1. /\ mixin.params[f] = SourceFromJSON(f, source) /\ SourceFromJSON(f, source) # Refused
      /\ source # None
  BY DEF OptionsInv, SourceFromJSON
<1>2. KindOf(f) \in {Manifest, GlobalManifest}
      /\ \A json : Contents(f, json) = ManifestFromJSON(json, KindOf(f))
  BY DEF KindOf, Contents
<1> HIDE DEF source
<1>3. CASE "at" \in DOMAIN source
  <2>1. mixin.params[f] = source
    BY <1>1, <1>3 DEF SourceFromJSON
  <2>2. FromSource(f) = IF Exists(source.at) THEN Contents(f, files[source.at]) ELSE Refused
    BY <1>3, <2>1 DEF FromSource
  <2>3. FromSource(f) = ManifestFile(source.at, KindOf(f))
    BY <1>2, <2>2 DEF ManifestFile
  <2>4. /\ Exists(source.at) /\ GoodManifest(FromSource(f), KindOf(f))
        /\ FromSource(f) = ManifestFromJSON(files[source.at], KindOf(f))
    BY <2>3, FileManifest
  <2>5. SourceJSON(source) = files[source.at]
    BY <1>1, <1>3, <2>4 DEF SourceJSON, JSONAt
  <2>6. QED
    BY <1>2, <2>4, <2>5, ManifestRead DEF source
<1>4. CASE "at" \notin DOMAIN source
  <2>1. mixin.params[f] = [raw |-> Contents(f, source.raw)]
        /\ Contents(f, source.raw) # Refused
    BY <1>1, <1>4 DEF SourceFromJSON
  <2>2. FromSource(f) = Contents(f, source.raw)
    BY <2>1 DEF FromSource
  <2>3. SourceJSON(source) = source.raw
    BY <1>1, <1>4 DEF SourceJSON
  <2>4. WellOrderedIn(f, source.raw)
    <3>1. GivenFor("params") # {} /\ source = Member(The(GivenFor("params")), f)
      BY <1>1 DEF source, Param
    <3>2. The(GivenFor("params")) \in Values("params") \ {None, Malformed}
      BY <3>1 DEF The, OptionsInv
    <3> DEFINE json == The(GivenFor("params"))
    <3> HIDE DEF json
    <3>3. f \in DOMAIN json /\ json[f] = source
      BY <1>1, <3>1 DEF Member, json
    <3>4. QED
      BY <1>1, <1>4, <3>2, <3>3, ManifestsAssumption DEF json
  <2>5. QED
    BY <1>2, <2>1, <2>2, <2>3, <2>4, ManifestRead DEF source, WellOrderedIn, GoodManifest
<1>5. QED
  BY <1>3, <1>4
-----------------------------------------------------------------------------
(***************************************************************************)
(* Registries.                                                             *)
(***************************************************************************)
GoodRegistry(reg) == reg # None /\ IsRegistry(reg) /\ WellOrdered(reg)

LEMMA OrderIsList ==
  ASSUME NEW reg, WellOrdered(reg)
  PROVE  /\ Order(reg) \in Seq(DOMAIN reg.inputs)
         /\ Range(Order(reg)) = DOMAIN reg.inputs
         /\ IsInjective(reg.priority) => IsInjective(Order(reg))
<1> DEFINE X == DOMAIN reg.inputs
<1>1. X \subseteq Range(Lexical) /\ reg.priority \in Seq(X) /\ Lexical \in Seq(Range(Lexical))
  BY LexicalAssumption DEF WellOrdered
<1>2. Range(Lexical) \cap X \subseteq X /\ Order(reg) = WithNew(reg.priority, Lexical, X)
  BY DEF Order
<1> DEFINE Y == Range(Lexical)
           p == reg.priority
           o == Order(reg)
<1> HIDE DEF X, Y, p, o
<1>3. /\ o \in Seq(X) /\ Range(p) \cup (Range(Lexical) \cap X) \subseteq Range(o)
      /\ IsInjective(p) => IsInjective(o)
  BY <1>1, <1>2, WithNewIsList DEF Y, p, o
<1>4. Range(o) \subseteq X
  BY <1>3 DEF Range
<1>5. QED
  BY <1>1, <1>3, <1>4 DEF X, Y, p, o

LEMMA OpenedInputs ==
  ASSUME NEW reg, GoodRegistry(reg), Opened(reg) # Refused
  PROVE  LET d == Opened(reg)
         IN  /\ Len(d) \in Nat /\ DOMAIN d = 1..Len(d)
             /\ \A i \in DOMAIN d : /\ Reachable(d[i][2])
                                    /\ d[i][2].from = reg.inputs[d[i][1]].from
             /\ {d[i][1] : i \in DOMAIN d} = DOMAIN reg.inputs
             /\ IsInjective(reg.priority) =>
                    \A i, j \in DOMAIN d : d[i][1] = d[j][1] => i = j
<1> DEFINE o == Order(reg)
           d == Opened(reg)
           E(n) == [reg.inputs[n] EXCEPT !.subtrees = PreferredSubtrees(reg, n)]
<1>1. /\ o \in Seq(DOMAIN reg.inputs) /\ Range(o) = DOMAIN reg.inputs
      /\ IsInjective(reg.priority) => IsInjective(o)
  BY OrderIsList DEF GoodRegistry
<1>2. /\ d = [i \in DOMAIN o |-> <<o[i], E(o[i])>>]
      /\ \A i \in DOMAIN o : Reachable(reg.inputs[o[i]])
  BY DEF Opened
<1>3. ASSUME NEW n \in DOMAIN reg.inputs PROVE E(n).from = reg.inputs[n].from
  <2>1. DOMAIN reg.inputs[n] = {"subtrees", "from"}
    BY DEF GoodRegistry, IsRegistry
  <2>2. QED
    BY <2>1
<1> HIDE DEF o, d, E
<1>4. Len(o) \in Nat /\ DOMAIN o = 1..Len(o) /\ \A i \in DOMAIN o : o[i] \in DOMAIN reg.inputs
  BY <1>1
<1>5. Len(d) = Len(o) /\ DOMAIN d = DOMAIN o
  BY <1>2, <1>4
<1>6. \A i \in DOMAIN d : d[i][1] = o[i] /\ d[i][2] = E(o[i])
  BY <1>2
<1>7. \A i \in DOMAIN d : Reachable(d[i][2]) /\ d[i][2].from = reg.inputs[d[i][1]].from
  BY <1>2, <1>3, <1>4, <1>5, <1>6 DEF Reachable
<1>8. {d[i][1] : i \in DOMAIN d} = DOMAIN reg.inputs
  BY <1>1, <1>5, <1>6 DEF Range
<1>9. IsInjective(reg.priority) => \A i, j \in DOMAIN d : d[i][1] = d[j][1] => i = j
  BY <1>1, <1>5, <1>6 DEF IsInjective
<1>10. QED
  BY <1>4, <1>5, <1>7, <1>8, <1>9 DEF d

LEMMA LockedRegistry ==
  ASSUME MarkersAreAtoms, NEW reg, GoodRegistry(reg), LockRegistry(reg) # Refused
  PROVE  LET r == LockRegistry(reg)
         IN  /\ GoodRegistry(r) /\ r.inputs # None
             /\ DOMAIN r.inputs = DOMAIN reg.inputs
             /\ \A n \in DOMAIN r.inputs : r.inputs[n].from = Target(reg.inputs[n].from)
<1> DEFINE r == LockRegistry(reg)
           F(n) == [reg.inputs[n] EXCEPT !.subtrees = PreferredSubtrees(reg, n)]
           L(n) == [subtrees |-> SubtreesOf(F(n)), from |-> Target(F(n).from)]
           inputs == [n \in DOMAIN reg.inputs |-> L(n)]
<1>1. r = [reg EXCEPT !.inputs = inputs]
  BY DEF LockRegistry
<1>2. ASSUME NEW n \in DOMAIN reg.inputs
      PROVE  DOMAIN inputs[n] = {"subtrees", "from"} /\ inputs[n].from = Target(reg.inputs[n].from)
  <2>1. DOMAIN reg.inputs[n] = {"subtrees", "from"}
    BY DEF GoodRegistry, IsRegistry
  <2>2. F(n).from = reg.inputs[n].from
    BY <2>1
  <2>3. inputs[n] = L(n)
    OBVIOUS
  <2> HIDE DEF F, inputs
  <2>4. QED
    BY <2>2, <2>3
<1>3. DOMAIN inputs = DOMAIN reg.inputs /\ inputs # None
  BY DEF MarkersAreAtoms
<1> HIDE DEF r, inputs
<1>4. DOMAIN reg = {"inputs", "defaults", "priority"}
  BY DEF GoodRegistry, IsRegistry, NoRegistry
<1>5. r # None /\ DOMAIN r = DOMAIN reg /\ r.inputs = inputs /\ r.priority = reg.priority
  BY <1>1, <1>4 DEF MarkersAreAtoms
<1>6. QED
  BY <1>2, <1>3, <1>5 DEF GoodRegistry, IsRegistry, WellOrdered, r

LEMMA MergedRegistry ==
  ASSUME MarkersAreAtoms, NEW base, NEW over, GoodRegistry(base), GoodRegistry(over)
  PROVE  LET r == MergeInputs(base, over)
         IN  /\ GoodRegistry(r)
             /\ r.inputs = Overlay(over.inputs, base.inputs)
<1> DEFINE X == DOMAIN over.inputs \cup DOMAIN base.inputs
           inputs == Overlay(over.inputs, base.inputs)
           defaults == MergePreferences(base.defaults, over.defaults)
           priority == MergeVectors(base.priority, over.priority)
           r == MergeInputs(base, over)
<1>1. r = [inputs |-> inputs, defaults |-> defaults, priority |-> priority]
  BY DEF MergeInputs
<1>2. DOMAIN inputs = X /\ \A n \in X : DOMAIN inputs[n] = {"subtrees", "from"}
  BY DEF Overlay, GoodRegistry, IsRegistry
<1>3. X \subseteq Range(Lexical)
  BY DEF GoodRegistry, WellOrdered
<1>4. priority \in Seq(X)
  <2> DEFINE s == over.priority
             t == base.priority
             Y == DOMAIN base.inputs
  <2>1. s \in Seq(X) /\ t \in Seq(Y)
    BY DEF GoodRegistry, WellOrdered
  <2>2. Y \cap Range(t) \subseteq X
    OBVIOUS
  <2> HIDE DEF s, t, X, Y
  <2>3. WithNew(s, t, Range(t)) \in Seq(X)
    BY <2>1, <2>2, WithNewIsList
  <2>4. QED
    BY <2>3 DEF s, t, MergeVectors
<1> HIDE DEF X, inputs, defaults, priority, r
<1>5. r # None /\ DOMAIN r = {"inputs", "defaults", "priority"} /\ r.inputs = inputs
      /\ r.priority = priority
  BY <1>1 DEF MarkersAreAtoms
<1>6. DOMAIN NoRegistry = {"inputs", "defaults", "priority"}
  BY DEF NoRegistry
<1>7. QED
  BY <1>2, <1>3, <1>4, <1>5, <1>6 DEF GoodRegistry, IsRegistry, WellOrdered, r, inputs

LEMMA PinnedRegistry ==
  ASSUME MarkersAreAtoms, NEW reg, GoodRegistry(reg), NEW lock, lock = None \/ IsLock(lock)
  PROVE  LET r == Pinned(reg, lock)
         IN  /\ GoodRegistry(r)
             /\ DOMAIN r.inputs = DOMAIN reg.inputs
             /\ \A n \in DOMAIN r.inputs :
                    r.inputs[n] = IF lock # None /\ n \in DOMAIN lock.registry.inputs
                                  THEN lock.registry.inputs[n] ELSE reg.inputs[n]
<1>1. CASE lock = None
  BY <1>1 DEF Pinned
<1>2. CASE lock # None
  <2> DEFINE r == Pinned(reg, lock)
             inputs == [n \in DOMAIN reg.inputs |-> IF n \in DOMAIN lock.registry.inputs
                                                   THEN lock.registry.inputs[n]
                                                   ELSE reg.inputs[n]]
  <2>1. DOMAIN reg = {"inputs", "defaults", "priority"}
    BY DEF GoodRegistry, IsRegistry, NoRegistry
  <2>2. r = [reg EXCEPT !.inputs = inputs]
    BY <1>2, <2>1 DEF Pinned
  <2>3. \A n \in DOMAIN reg.inputs : DOMAIN inputs[n] = {"subtrees", "from"}
    BY <1>2 DEF GoodRegistry, IsLock, IsRegistry
  <2>4. /\ DOMAIN inputs = DOMAIN reg.inputs
        /\ \A n \in DOMAIN reg.inputs :
               inputs[n] = IF n \in DOMAIN lock.registry.inputs
                           THEN lock.registry.inputs[n] ELSE reg.inputs[n]
    OBVIOUS
  <2> HIDE DEF r, inputs
  <2>5. r # None /\ DOMAIN r = DOMAIN reg /\ r.inputs = inputs /\ r.priority = reg.priority
    BY <2>1, <2>2 DEF MarkersAreAtoms
  <2>6. QED
    BY <1>2, <2>3, <2>4, <2>5 DEF GoodRegistry, IsRegistry, WellOrdered, r
<1>3. QED
  BY <1>1, <1>2

LEMMA RegistryOfGood ==
  ASSUME MarkersAreAtoms, NEW kind \in {Manifest, GlobalManifest}, NEW m, GoodManifest(m, kind)
  PROVE  GoodRegistry(RegistryOfManifest(m))
<1>1. "registry" \in DOMAIN m
  BY DEF GoodManifest, IsManifest, Manifest, GlobalManifest, ManifestGA, GlobalManifestGA
<1>2. NoRegistry # None
  BY DEF NoRegistry, MarkersAreAtoms
<1>3. QED
  BY <1>1, <1>2, NoRegistryIsOne
  DEF RegistryOfManifest, Or, GoodManifest, IsManifest, Has, GoodRegistry

\* The inputs are those of the GA registry.
IsGA(reg) ==
  /\ DOMAIN reg.inputs = DOMAIN GARegistry.inputs
  /\ \A n \in DOMAIN reg.inputs : reg.inputs[n] = GARegistry.inputs[n]

\* The comparison looks at the inputs of its left side alone; that the priorities
\* are the same ones, and name all inputs of the GA registry, makes up for it.
LEMMA EqualsIsGA ==
  ASSUME NEW reg, WellOrdered(reg), Equals(reg, GARegistry)
  PROVE  IsGA(reg)
<1> DEFINE X == DOMAIN reg.inputs
           p == GARegistry.priority
<1>1. p \in Seq(X) /\ DOMAIN GARegistry.inputs = Range(p)
  BY GARegistryAssumption DEF Equals, WellOrdered
<1> HIDE DEF X, p
<1>2. Range(p) \subseteq X
  BY <1>1 DEF Range
<1>3. QED
  BY <1>1, <1>2 DEF X, Equals, IsGA

LEMMA InitialisedManifest ==
  ASSUME MarkersAreAtoms, NEW kind \in {Manifest, GlobalManifest}, NEW m, GoodManifest(m, kind),
         Initialised(m) # Refused
  PROVE  LET i == Initialised(m)
         IN  /\ GoodManifest(i, kind) /\ i.options = m.options
             /\ mixin.gaRegistry => IsGA(RegistryOfManifest(i))
<1>1. CASE ~mixin.gaRegistry
  BY <1>1 DEF Initialised
<1>2. CASE mixin.gaRegistry
  <2> DEFINE reg == Or(m.registry, GARegistry)
             i == Initialised(m)
  <2>1. /\ "registry" \in kind /\ "options" \in kind /\ DOMAIN m = kind
    BY DEF GoodManifest, IsManifest, Manifest, GlobalManifest, ManifestGA, GlobalManifestGA
  <2>2. i = [m EXCEPT !.registry = reg]
    BY <1>2, <2>1 DEF Initialised
  <2>3. ToGA(m) # Refused
    BY <1>2 DEF Initialised
  <2>4. m.registry # None => Equals(m.registry, GARegistry)
    BY <2>1, <2>3 DEF ToGA, Has
  <2>5. /\ IsRegistry(GARegistry) /\ WellOrdered(GARegistry) /\ GARegistry # None
        /\ IsGA(GARegistry)
    BY GARegistryAssumption DEF IsRegistry, IsGA
  <2>6. m.registry # None => IsRegistry(m.registry) /\ WellOrdered(m.registry)
    BY <2>1 DEF GoodManifest, IsManifest, Has
  <2>7. m.registry # None => IsGA(m.registry)
    BY <2>4, <2>6, EqualsIsGA
  <2>8. reg # None /\ IsRegistry(reg) /\ WellOrdered(reg) /\ IsGA(reg)
    BY <2>5, <2>6, <2>7 DEF Or
  <2> HIDE DEF reg, i
  <2>9. i # None /\ DOMAIN i = kind /\ i.registry = reg /\ i.options = m.options
    BY <2>1, <2>2 DEF MarkersAreAtoms
  <2>10. IsOptions(i.options)
    BY <2>9 DEF GoodManifest, IsManifest
  <2>11. GoodManifest(i, kind)
    BY <2>8, <2>9, <2>10 DEF GoodManifest, IsManifest
  <2>12. RegistryOfManifest(i) = reg
    BY <2>1, <2>8, <2>9 DEF RegistryOfManifest, Or
  <2>13. QED
    BY <2>8, <2>9, <2>11, <2>12 DEF i
<1>3. QED
  BY <1>1, <1>2
-----------------------------------------------------------------------------
(***************************************************************************)
(* The environment.                                                        *)
(***************************************************************************)

\* What LOCK stands for below: a lock, read from the JSON j, or none if j is null.
LockMeans(lock, j) ==
  /\ lock = None \/ IsLock(lock)
  /\ Means(IF lock = None THEN None ELSE lock.manifest.options,
           Member(Member(j, "manifest"), "options"))

LEMMA LockFileMeans ==
  ASSUME MarkersAreAtoms, NEW path, Exists(path), LockFile(path) # Refused
  PROVE  LockMeans(LockFile(path), JSONAt(path)) /\ LockFile(path) # None
<1>1. LockFile(path) = LockFromJSON(files[path]) /\ JSONAt(path) = files[path]
  BY DEF LockFile, JSONAt
<1>2. QED
  BY <1>1, LockRead DEF LockMeans, IsLock

LEMMA NoLockMeans == LockMeans(None, None)
BY DEF LockMeans, Means, Field, Member

LEMMA SourceLock ==
  ASSUME MarkersAreAtoms, OptionsInv, Taken, mixin.params["lockfile"] # None,
         FromSource("lockfile") # Refused
  PROVE  /\ LockMeans(FromSource("lockfile"), SourceJSON(Param("lockfile")))
         /\ FromSource("lockfile") # None
<1> DEFINE source == Param("lockfile")
<1>1. /\ mixin.params["lockfile"] = SourceFromJSON("lockfile", source)
      /\ SourceFromJSON("lockfile", source) # Refused
      /\ source # None
  BY DEF OptionsInv, SourceFromJSON
<1>2. \A json : Contents("lockfile", json) = LockFromJSON(json)
  BY DEF Contents
<1> HIDE DEF source
<1>3. CASE "at" \in DOMAIN source
  <2>1. mixin.params["lockfile"] = source
    BY <1>1, <1>3 DEF SourceFromJSON
  <2>2. FromSource("lockfile") =
          IF Exists(source.at) THEN Contents("lockfile", files[source.at]) ELSE Refused
    BY <1>3, <2>1 DEF FromSource
  <2>3. FromSource("lockfile") = LockFile(source.at) /\ Exists(source.at)
    BY <1>2, <2>2 DEF LockFile
  <2>4. SourceJSON(source) = JSONAt(source.at)
    BY <1>1, <1>3 DEF SourceJSON
  <2>5. QED
    BY <2>3, <2>4, LockFileMeans DEF source
<1>4. CASE "at" \notin DOMAIN source
  <2>1. mixin.params["lockfile"] = [raw |-> Contents("lockfile", source.raw)]
        /\ Contents("lockfile", source.raw) # Refused
    BY <1>1, <1>4 DEF SourceFromJSON
  <2>2. FromSource("lockfile") = LockFromJSON(source.raw)
    BY <1>2, <2>1 DEF FromSource
  <2>3. SourceJSON(source) = source.raw
    BY <1>1, <1>4 DEF SourceJSON
  <2>4. QED
    BY <2>2, <2>3, LockRead DEF LockMeans, IsLock, source
<1>5. QED
  BY <1>3, <1>4

\* The inputs of an environment are good, and for a search they are those that
\* its options name.
SearchMeans ==
  /\ Means(mixin.manifest.options, OwnOptions)
  /\ Means(Field(mixin.globalManifest, "options"),
           Member(SourceJSON(Param("globalManifest")), "options"))
  /\ LockMeans(mixin.lockfile, LockUsed)

LEMMA MixinIsGood ==
  ASSUME MarkersAreAtoms, FilesInv, OptionsInv, MixinInv, Taken, phase # "options"
  PROVE  /\ GoodManifest(mixin.manifest, Manifest)
         /\ \/ mixin.globalManifest = None
            \/ GoodManifest(mixin.globalManifest, GlobalManifest)
         /\ mixin.lockfile = None \/ IsLock(mixin.lockfile)
         /\ command = "search" => SearchMeans
<1>1. /\ mixin.lockfile # Refused /\ mixin.globalManifest # Refused
      /\ mixin.manifest # Refused /\ mixin.manifest # None
  BY DEF MixinInv
<1>2. CASE command = "search"
  <2>1. /\ mixin.lockfile = SourceOr("lockfile", ParsedLock)
        /\ mixin.globalManifest = SourceOr("globalManifest", None)
        /\ mixin.manifest = SourceOr("manifest", EmptyManifest(Manifest))
    BY <1>2 DEF MixinInv
  <2>2. \A f \in {"globalManifest", "manifest", "lockfile"} :
            mixin.params[f] = SourceFromJSON(f, Param(f))
    BY DEF OptionsInv
  <2>3. \A f \in {"globalManifest", "manifest", "lockfile"} :
            mixin.params[f] = None => Param(f) = None
    <3>1. \A x : [raw |-> x] # None
      BY DEF MarkersAreAtoms
    <3>2. QED
      BY <2>2, <3>1, MarkersAssumption DEF SourceFromJSON
  <2>4. /\ GoodManifest(mixin.manifest, Manifest)
        /\ Means(mixin.manifest.options, OwnOptions)
    <3>1. CASE mixin.params["manifest"] = None
      <4>1. mixin.manifest = EmptyManifest(Manifest)
        BY <2>1, <3>1 DEF SourceOr
      <4>2. OwnOptions = None
        BY <2>3, <3>1 DEF OwnOptions, Member, SourceJSON
      <4>3. QED
        BY <4>1, <4>2, EmptyIsManifest
        DEF GoodManifest, Has, Means, Field, Member
    <3>2. CASE mixin.params["manifest"] # None
      <4>1. mixin.manifest = FromSource("manifest")
        BY <2>1, <3>2 DEF SourceOr
      <4>2. QED
        BY <1>1, <3>2, <4>1, SourceManifest DEF KindOf, OwnOptions
    <3>3. QED
      BY <3>1, <3>2
  <2>5. /\ \/ mixin.globalManifest = None
           \/ GoodManifest(mixin.globalManifest, GlobalManifest)
        /\ Means(Field(mixin.globalManifest, "options"),
                 Member(SourceJSON(Param("globalManifest")), "options"))
    <3>1. CASE mixin.params["globalManifest"] = None
      <4>1. mixin.globalManifest = None
        BY <2>1, <3>1 DEF SourceOr
      <4>2. Member(SourceJSON(Param("globalManifest")), "options") = None
        BY <2>3, <3>1 DEF Member, SourceJSON
      <4>3. QED
        BY <4>1, <4>2 DEF Means, Field, Member
    <3>2. CASE mixin.params["globalManifest"] # None
      <4>1. mixin.globalManifest = FromSource("globalManifest")
        BY <2>1, <3>2 DEF SourceOr
      <4>2. /\ GoodManifest(mixin.globalManifest, GlobalManifest)
            /\ Means(mixin.globalManifest.options,
                     Member(SourceJSON(Param("globalManifest")), "options"))
        BY <1>1, <3>2, <4>1, SourceManifest DEF KindOf
      <4>3. QED
        BY <4>2 DEF Field, GoodManifest, IsManifest
    <3>3. QED
      BY <3>1, <3>2
  <2>6. LockMeans(mixin.lockfile, LockUsed)
    <3>1. CASE mixin.params["lockfile"] # None
      <4>1. mixin.lockfile = FromSource("lockfile")
        BY <2>1, <3>1 DEF SourceOr
      <4>2. Param("lockfile") # None
        BY <2>2, <3>1 DEF SourceFromJSON
      <4>3. LockUsed = SourceJSON(Param("lockfile"))
        BY <4>2 DEF LockUsed
      <4>4. QED
        BY <1>1, <3>1, <4>1, <4>3, SourceLock
    <3>2. CASE mixin.params["lockfile"] = None
      <4>1. mixin.lockfile = ParsedLock
        BY <2>1, <3>2 DEF SourceOr
      <4>2. LockUsed = IF GivenFor("dir") = {} THEN None ELSE JSONAt(DirLock)
        BY <2>3, <3>2 DEF LockUsed
      <4>3. CASE GivenFor("dir") # {} /\ Exists(DirLock)
        <5>1. ParsedLock = LockFile(DirLock)
          BY <1>2, <4>3 DEF ParsedLock
        <5>2. QED
          BY <1>1, <4>1, <4>2, <4>3, <5>1, LockFileMeans
      <4>4. CASE ~(GivenFor("dir") # {} /\ Exists(DirLock))
        <5>1. ParsedLock = None
          BY <1>2, <4>4 DEF ParsedLock
        <5>2. LockUsed = None
          BY <4>2, <4>4 DEF JSONAt
        <5>3. QED
          BY <4>1, <5>1, <5>2, NoLockMeans
      <4>5. QED
        BY <4>3, <4>4
    <3>3. QED
      BY <3>1, <3>2
  <2>7. QED
    BY <2>4, <2>5, <2>6 DEF SearchMeans, LockMeans
<1>3. CASE command # "search"
  <2>1. /\ mixin.lockfile = ParsedLock
        /\ mixin.globalManifest = ManifestFor("globalManifest", GlobalManifest)
        /\ mixin.manifest = ManifestFor("manifest", Manifest)
    BY <1>3 DEF MixinInv
  <2>2. GoodManifest(mixin.manifest, Manifest)
    <3>1. mixin.manifest = ManifestFile(The(GivenFor("manifest")), KindOf("manifest"))
      BY <1>1, <2>1 DEF ManifestFor, KindOf
    <3>2. QED
      BY <1>1, <3>1, FileManifest DEF KindOf
  <2>3. mixin.globalManifest # None => GoodManifest(mixin.globalManifest, GlobalManifest)
    <3>1. SUFFICES ASSUME mixin.globalManifest # None
                   PROVE  GoodManifest(mixin.globalManifest, GlobalManifest)
      OBVIOUS
    <3>2. mixin.globalManifest =
            ManifestFile(The(GivenFor("globalManifest")), KindOf("globalManifest"))
      BY <2>1, <3>1 DEF ManifestFor, KindOf
    <3>3. QED
      BY <1>1, <3>2, FileManifest DEF KindOf
  <2>4. mixin.lockfile # None => IsLock(mixin.lockfile)
    <3>1. SUFFICES ASSUME mixin.lockfile # None PROVE IsLock(mixin.lockfile)
      OBVIOUS
    <3>2. mixin.lockfile = LockFile(The(GivenFor("lockfile")))
      BY <1>3, <2>1, <3>1 DEF ParsedLock
    <3>3. LockFile(The(GivenFor("lockfile"))) = LockFromJSON(files[The(GivenFor("lockfile"))])
      BY <1>1, <3>2 DEF LockFile
    <3>4. QED
      BY <1>1, <3>2, <3>3, LockRead
  <2>5. QED
    BY <1>3, <2>2, <2>3, <2>4
<1>4. QED
  BY <1>2, <1>3

LEMMA EnvironmentIsGood ==
  ASSUME MarkersAreAtoms, FilesInv, OptionsInv, MixinInv, EnvironmentInv, env # None
  PROVE  /\ GoodManifest(env.manifest, Manifest)
         /\ env.global = None \/ GoodManifest(env.global, GlobalManifest)
         /\ env.lock = mixin.lockfile /\ (env.lock = None \/ IsLock(env.lock))
         /\ env.manifest.options = mixin.manifest.options
         /\ Field(env.global, "options") = Field(mixin.globalManifest, "options")
         /\ mixin.gaRegistry =>
                /\ IsGA(RegistryOfManifest(env.manifest))
                /\ env.global # None => IsGA(RegistryOfManifest(env.global))
         /\ command = "search" => SearchMeans
<1>1. env = EnvironmentOf /\ env # Refused /\ Taken /\ phase # "options"
  BY DEF EnvironmentInv, Taken
<1>2. /\ GoodManifest(mixin.manifest, Manifest)
      /\ \/ mixin.globalManifest = None
         \/ GoodManifest(mixin.globalManifest, GlobalManifest)
      /\ mixin.lockfile = None \/ IsLock(mixin.lockfile)
      /\ command = "search" => SearchMeans
  BY <1>1, MixinIsGood
<1> DEFINE g == IF mixin.globalManifest = None THEN None ELSE Initialised(mixin.globalManifest)
           m == Initialised(mixin.manifest)
<1>3. g # Refused /\ m # Refused /\ env = [global |-> g, manifest |-> m, lock |-> mixin.lockfile]
  BY <1>1 DEF EnvironmentOf
<1>4. /\ GoodManifest(m, Manifest) /\ m.options = mixin.manifest.options
      /\ mixin.gaRegistry => IsGA(RegistryOfManifest(m))
  BY <1>2, <1>3, InitialisedManifest
<1>5. g = None <=> mixin.globalManifest = None
  BY <1>2, <1>3, InitialisedManifest DEF GoodManifest, IsManifest
<1>6. g # None =>
        /\ GoodManifest(g, GlobalManifest) /\ g.options = mixin.globalManifest.options
        /\ mixin.gaRegistry => IsGA(RegistryOfManifest(g))
  BY <1>2, <1>3, InitialisedManifest
<1> HIDE DEF g, m
<1>7. env.global = g /\ env.manifest = m /\ env.lock = mixin.lockfile
  BY <1>3
<1>8. QED
  BY <1>2, <1>4, <1>5, <1>6, <1>7 DEF Field

\* A revision stands for itself.
LEMMA TargetTwice ==
  ASSUME session \in 1..MaxSessions, NEW ref
  PROVE  /\ Target(Target(ref)) = Target(ref)
         /\ \A s \in 1..MaxSessions : Target(ref) \notin DOMAIN Points[s]
BY PointsAssumption DEF Target

LEMMA CombinedIsGood ==
  ASSUME MarkersAreAtoms, FilesInv, OptionsInv, MixinInv, EnvironmentInv, env # None,
         session \in 1..MaxSessions, CombinedRegistryOf(env) # Refused
  PROVE  LET r == CombinedRegistryOf(env)
         IN  /\ GoodRegistry(r)
             /\ \A n \in DOMAIN r.inputs :
                    env.lock # None /\ n \in DOMAIN env.lock.registry.inputs =>
                        r.inputs[n] = env.lock.registry.inputs[n]
             /\ mixin.gaRegistry =>
                    /\ DOMAIN r.inputs = DOMAIN GARegistry.inputs
                    /\ \A n \in DOMAIN r.inputs :
                           \/ Target(r.inputs[n].from) = Target(GARegistry.inputs[n].from)
                           \/ env.lock # None /\ r.inputs[n] = env.lock.registry.inputs[n]
<1> DEFINE rm == RegistryOfManifest(env.manifest)
           rg == RegistryOfManifest(env.global)
           own == LockRegistry(rm)
           global == IF env.global = None THEN own ELSE LockRegistry(rg)
           merged == IF env.global = None THEN own ELSE MergeInputs(global, own)
           r == CombinedRegistryOf(env)
           LikeGA(reg) == /\ DOMAIN reg.inputs = DOMAIN GARegistry.inputs
                          /\ \A n \in DOMAIN reg.inputs :
                               reg.inputs[n].from = Target(GARegistry.inputs[n].from)
<1>1. /\ GoodManifest(env.manifest, Manifest)
      /\ env.global = None \/ GoodManifest(env.global, GlobalManifest)
      /\ env.lock = None \/ IsLock(env.lock)
      /\ mixin.gaRegistry => /\ IsGA(rm)
                             /\ env.global # None => IsGA(rg)
  BY EnvironmentIsGood
<1>2. own # Refused /\ global # Refused /\ r = Pinned(merged, env.lock)
  BY DEF CombinedRegistryOf
<1>3. GoodRegistry(rm) /\ (env.global # None => GoodRegistry(rg))
  BY <1>1, RegistryOfGood
<1> HIDE DEF rm, rg, r
<1>4. /\ GoodRegistry(own) /\ DOMAIN own.inputs = DOMAIN rm.inputs
      /\ \A n \in DOMAIN own.inputs : own.inputs[n].from = Target(rm.inputs[n].from)
  BY <1>2, <1>3, LockedRegistry
<1>5. env.global # None =>
        /\ GoodRegistry(global) /\ DOMAIN global.inputs = DOMAIN rg.inputs
        /\ \A n \in DOMAIN global.inputs : global.inputs[n].from = Target(rg.inputs[n].from)
  BY <1>2, <1>3, LockedRegistry
<1>6. /\ mixin.gaRegistry => LikeGA(own)
      /\ mixin.gaRegistry /\ env.global # None => LikeGA(global)
  BY <1>1, <1>4, <1>5 DEF IsGA
<1> HIDE DEF own, global
<1>7. GoodRegistry(merged) /\ (mixin.gaRegistry => LikeGA(merged))
  <2>1. CASE env.global = None
    BY <1>4, <1>6, <2>1
  <2>2. CASE env.global # None
    <3>1. GoodRegistry(merged) /\ merged.inputs = Overlay(own.inputs, global.inputs)
      BY <1>4, <1>5, <2>2, MergedRegistry
    <3> HIDE DEF merged
    <3>2. QED
      BY <1>6, <2>2, <3>1 DEF Overlay
  <2>3. QED
    BY <2>1, <2>2
<1> HIDE DEF merged
<1>8. /\ GoodRegistry(r) /\ DOMAIN r.inputs = DOMAIN merged.inputs
      /\ \A n \in DOMAIN r.inputs :
             r.inputs[n] = IF env.lock # None /\ n \in DOMAIN env.lock.registry.inputs
                           THEN env.lock.registry.inputs[n] ELSE merged.inputs[n]
  BY <1>1, <1>2, <1>7, PinnedRegistry
<1>9. mixin.gaRegistry =>
        \A n \in DOMAIN r.inputs :
            \/ Target(r.inputs[n].from) = Target(GARegistry.inputs[n].from)
            \/ env.lock # None /\ r.inputs[n] = env.lock.registry.inputs[n]
  BY <1>7, <1>8, TargetTwice
<1>10. QED
  BY <1>7, <1>8, <1>9 DEF r
-----------------------------------------------------------------------------
(***************************************************************************)
(* What follows from the invariant.                                        *)
(***************************************************************************)

\* The arguments of all queries of a search find what is wanted.
LEMMA QueryFindsWanted ==
  ASSUME MarkersAreAtoms, FilesInv, OptionsInv, MixinInv, EnvironmentInv, env # None,
         command = "search", ValidArgs(Query), NEW row
  PROVE  Selected(row, Query) /\ InRange(Query, row) <=> Wanted(row)
<1> DEFINE g == Field(env.global, "options")
           l == IF env.lock = None THEN None ELSE env.lock.manifest.options
           o == env.manifest.options
           q == mixin.params.query
           a == BaseArgs(env)
           J(f) == Member(SourceJSON(Param(f)), "options")
           lj == Member(Member(LockUsed, "manifest"), "options")
<1>1. /\ Means(o, OwnOptions) /\ Means(g, J("globalManifest")) /\ Means(l, lj)
      /\ IsOptions(o)
  BY EnvironmentIsGood DEF SearchMeans, LockMeans, GoodManifest, IsManifest
<1>2. IsOptions(g) /\ IsOptions(l)
  BY <1>1 DEF Means, IsOptions, Field
<1>3. a = ArgsOf(CombinedOptions(g, l, o))
  BY DEF BaseArgs
<1>4. /\ DOMAIN q = QueryFields /\ \A f \in QueryFields : q[f] = AskedFor(f)
      /\ Query = Overlay(q, a)
  BY DEF OptionsInv, Taken, Query, FillFromQuery
<1> HIDE DEF g, l, o, q, a
<1> DEFINE Allow(f) == Or(Field(Field(o, "allow"), f),
                          Or(Field(Field(l, "allow"), f), Field(Field(g, "allow"), f)))
<1>5. /\ DOMAIN a = DOMAIN NoArgs
      /\ a.pnameOrAttrName = None /\ a.subtrees = None /\ a.relPath = None
      /\ a.systems = Or(Field(o, "systems"),
                        Or(Field(l, "systems"), Or(Field(g, "systems"), <<ThisSystem>>)))
      /\ a.allowUnfree = Or(Allow("unfree"), TRUE)
      /\ a.allowBroken = Or(Allow("broken"), FALSE)
      /\ a.licenses = Allow("licenses")
  BY ZenonT(40), <1>1, <1>2, <1>3, CombinedArgs
<1>6. a.systems = AllowedSystems
  BY <1>1, <1>5 DEF Means, AllowedSystems
<1>7. ASSUME NEW f \in AllowFields, NEW default
      PROVE  Or(Allow(f), default) = Setting("allow", f, default)
  <2>1. /\ Field(Field(o, "allow"), f) = Member(Member(OwnOptions, "allow"), f)
        /\ Field(Field(l, "allow"), f) = Member(Member(lj, "allow"), f)
        /\ Field(Field(g, "allow"), f) = Member(Member(J("globalManifest"), "allow"), f)
    BY <1>1 DEF Means
  <2> HIDE DEF lj, J
  <2>2. QED
    BY <2>1 DEF Setting, Or, lj, J
<1> HIDE DEF Allow
<1>8. "unfree" \in AllowFields /\ "broken" \in AllowFields /\ "licenses" \in AllowFields
  BY DEF AllowFields
<1>9. /\ a.allowBroken = Setting("allow", "broken", FALSE)
      /\ a.allowUnfree = Setting("allow", "unfree", TRUE)
      /\ Setting("allow", "licenses", <<>>) = Or(a.licenses, <<>>)
  BY <1>5, <1>7, <1>8
<1>10. QED
  BY <1>4, <1>5, <1>6, <1>9, SelectedIsWanted

\* A search prints what its queries find in what is scraped.
LEMMA Printed ==
  ASSUME SessionInv, NEW i \in DOMAIN output
  PROVE  /\ env # None /\ command = "search" /\ dbs # None /\ ValidArgs(Query)
         /\ output[i] = <<dbs[i][1], Execute(Visible(RevOf(i)), Query)>>
<1>1. output # <<>>
  OBVIOUS
<1>2. /\ dbs # None /\ ValidArgs(Query)
      /\ output = [j \in 1..Len(output) |->
                     <<dbs[j][1], Execute(Visible(RevOf(j)), Query)>>]
  BY <1>1 DEF SessionInv, SearchInv
<1>3. i \in 1..Len(output)
  BY <1>2
<1>4. QED
  BY <1>2, <1>3 DEF SessionInv, RegistryInv

LEMMA PrintedIsWantedHolds ==
  ASSUME MarkersAreAtoms, SessionInv
  PROVE  PrintedIsWanted
<1> SUFFICES ASSUME NEW i \in DOMAIN output
             PROVE  /\ output[i][1] = dbs[i][1]
                    /\ \A row \in output[i][2] : row \in Packages[RevOf(i)] /\ Wanted(row)
  BY DEF PrintedIsWanted
<1>1. /\ env # None /\ command = "search" /\ ValidArgs(Query)
      /\ output[i][1] = dbs[i][1] /\ output[i][2] = Execute(Visible(RevOf(i)), Query)
  BY Printed
<1>2. FilesInv /\ OptionsInv /\ MixinInv /\ EnvironmentInv
  BY DEF SessionInv
<1>3. ASSUME NEW row \in output[i][2] PROVE row \in Packages[RevOf(i)] /\ Wanted(row)
  <2>1. row \in Visible(RevOf(i)) /\ Selected(row, Query) /\ InRange(Query, row)
    BY <1>1, Executed
  <2>2. QED
    BY <1>1, <1>2, <2>1, QueryFindsWanted DEF Visible
<1>4. QED
  BY <1>1, <1>3

LEMMA NothingLeftOutHolds ==
  ASSUME MarkersAreAtoms, SessionInv
  PROVE  NothingLeftOut
<1> SUFFICES ASSUME command = "search", phase = "done"
             PROVE  /\ Len(output) = Len(dbs)
                    /\ \A i \in DOMAIN dbs : \A row \in Packages[RevOf(i)] :
                           /\ row.subtree \in ToSet(SubtreesOf(dbs[i][2]))
                           /\ row.system \in ToSet(ScrapedSystems)
                           /\ Wanted(row)
                           => row \in output[i][2]
  BY DEF NothingLeftOut
<1>1. /\ dbs # None /\ registry # None /\ env # None
      /\ dbs = Opened(registry) /\ dbs # Refused
      /\ registry = CombinedRegistryOf(env) /\ registry # Refused
      /\ \A i \in DOMAIN dbs : PrefixesOf(i) \subseteq cached
      /\ Len(output) = Len(dbs) /\ session \in 1..MaxSessions
      /\ FilesInv /\ OptionsInv /\ MixinInv /\ EnvironmentInv
  BY DEF SessionInv, RegistryInv, SearchInv, TypeOK
<1>2. GoodRegistry(registry)
  BY <1>1, CombinedIsGood
<1>3. Len(dbs) \in Nat /\ DOMAIN dbs = 1..Len(dbs)
  BY <1>1, <1>2, OpenedInputs
<1>4. SystemsOf(env.manifest) = ScrapedSystems
  BY <1>1, EnvironmentIsGood DEF SearchMeans, Means, SystemsOf, ScrapedSystems
<1>5. ASSUME NEW i \in DOMAIN dbs, NEW row \in Packages[RevOf(i)],
             row.subtree \in ToSet(SubtreesOf(dbs[i][2])),
             row.system \in ToSet(ScrapedSystems),
             Wanted(row)
      PROVE  row \in output[i][2]
  <2>1. output # <<>>
    BY <1>1, <1>3
  <2>2. /\ ValidArgs(Query)
        /\ output = [j \in 1..Len(output) |->
                       <<dbs[j][1], Execute(Visible(RevOf(j)), Query)>>]
    BY <2>1 DEF SessionInv, SearchInv
  <2>3. output[i] = <<dbs[i][1], Execute(Visible(RevOf(i)), Query)>>
    BY <1>1, <1>3, <2>2
  <2>4. <<RevOf(i), row.subtree, row.system>> \in PrefixesOf(i)
    BY <1>4, <1>5 DEF PrefixesOf
  <2>5. row \in Visible(RevOf(i))
    BY <1>1, <2>4 DEF Visible
  <2>6. Selected(row, Query) /\ InRange(Query, row)
    BY <1>1, <1>5, <2>2, QueryFindsWanted
  <2>7. QED
    BY <2>3, <2>5, <2>6, Executed
<1>6. QED
  BY <1>1, <1>5

LEMMA GARegistryOnlyHolds ==
  ASSUME MarkersAreAtoms, SessionInv
  PROVE  GARegistryOnly
<1> SUFFICES ASSUME mixin.gaRegistry, registry # None PROVE GARegistryOnly
  BY DEF GARegistryOnly
<1>1. /\ env # None /\ registry = CombinedRegistryOf(env) /\ registry # Refused
      /\ FilesInv /\ OptionsInv /\ MixinInv /\ EnvironmentInv /\ session \in 1..MaxSessions
  BY DEF SessionInv, RegistryInv, TypeOK
<1>2. QED
  BY <1>1, CombinedIsGood DEF GARegistryOnly

\* An option is given at most once.
LEMMA GivenOnce ==
  ASSUME OptionsInv, Taken, NEW flag, NEW x \in GivenFor(flag)
  PROVE  GivenFor(flag) = {x} /\ The(GivenFor(flag)) = x
BY DEF GivenFor, OptionsInv, The

LEMMA PinsHoldHolds ==
  ASSUME MarkersAreAtoms, SessionInv
  PROVE  PinsHold
<1> SUFFICES ASSUME registry # None, NEW path \in LockPath, path \in LockPaths,
                    NEW n \in DOMAIN registry.inputs, pins[path][n] # None
             PROVE  Target(registry.inputs[n].from) = pins[path][n]
  BY DEF PinsHold
<1>1. /\ env # None /\ registry = CombinedRegistryOf(env) /\ registry # Refused
      /\ FilesInv /\ OptionsInv /\ MixinInv /\ EnvironmentInv /\ PinsInv
      /\ session \in 1..MaxSessions /\ Taken /\ phase # "options"
      /\ command \in {"search", "registry"}
  BY DEF SessionInv, RegistryInv, TypeOK, Taken, EnvironmentInv
<1>2. GoodRegistry(registry)
      /\ (env.lock # None /\ n \in DOMAIN env.lock.registry.inputs =>
            registry.inputs[n] = env.lock.registry.inputs[n])
  BY <1>1, CombinedIsGood
<1>3. n \in Range(Lexical)
  BY <1>2 DEF GoodRegistry, WellOrdered
<1>4. Exists(path)
  <2>1. files[path] # None /\ path \in DOMAIN files
    BY <1>1, <1>3 DEF PinsInv, FilesInv, LockPaths
  <2>2. QED
    BY <2>1 DEF Exists
<1>5. mixin.lockfile = LockFile(path)
  <2>1. CASE command = "search"
    <3>1. /\ mixin.lockfile = SourceOr("lockfile", ParsedLock)
          /\ mixin.params["lockfile"] = SourceFromJSON("lockfile", Param("lockfile"))
      BY <1>1, <2>1 DEF MixinInv, OptionsInv
    <3>2. CASE Param("lockfile") # None
      <4>1. /\ "at" \in DOMAIN Param("lockfile") /\ path = Param("lockfile").at
        BY <2>1, <3>2 DEF LockPath
      <4>2. mixin.params["lockfile"] = Param("lockfile")
        BY <3>1, <4>1 DEF SourceFromJSON
      <4>3. mixin.lockfile = Contents("lockfile", files[path])
        BY <1>4, <3>1, <3>2, <4>1, <4>2 DEF SourceOr, FromSource
      <4>4. QED
        BY <1>4, <4>3 DEF Contents, LockFile
    <3>3. CASE Param("lockfile") = None
      <4>1. PICK d \in GivenFor("dir") : path = <<d, "manifest.lock">>
        BY <2>1, <3>3 DEF LockPath
      <4>2. DirLock = path
        BY <1>1, <4>1, GivenOnce DEF DirLock
      <4>3. mixin.lockfile = ParsedLock
        BY <3>1, <3>3 DEF SourceFromJSON, SourceOr
      <4>4. QED
        BY <1>4, <2>1, <4>1, <4>2, <4>3 DEF ParsedLock
    <3>4. QED
      BY <3>2, <3>3
  <2>2. CASE command # "search"
    <3>1. path \in GivenFor("lockfile")
      BY <2>2 DEF LockPath
    <3>2. GivenFor("lockfile") # {} /\ The(GivenFor("lockfile")) = path
      BY <1>1, <3>1, GivenOnce
    <3>3. QED
      BY <1>1, <2>2, <3>2 DEF MixinInv, ParsedLock
  <2>3. QED
    BY <2>1, <2>2
<1>6. LockFile(path) = LockFromJSON(files[path]) /\ LockFile(path) # Refused
  BY <1>1, <1>4, <1>5 DEF LockFile, MixinInv
<1>7. LockFile(path) # None
  BY <1>4, <1>6, LockFileMeans
<1>8. /\ n \in DOMAIN LockFromJSON(files[path]).registry.inputs
      /\ LockFromJSON(files[path]).registry.inputs[n].from = pins[path][n]
      /\ pins[path][n] \notin DOMAIN Points[session]
  BY <1>1, <1>3, <1>6 DEF PinsInv
<1>9. env.lock = LockFromJSON(files[path]) /\ env.lock # None
  BY <1>1, <1>5, <1>6, <1>7, EnvironmentIsGood
<1>10. registry.inputs[n].from = pins[path][n]
  BY <1>2, <1>8, <1>9
<1>11. QED
  BY <1>8, <1>10 DEF Target
-----------------------------------------------------------------------------
(***************************************************************************)
(* The invariant is inductive.  First, what a step that leaves the options *)
(* and the files alone leaves alone.                                       *)
(***************************************************************************)
LEMMA SameOptions ==
  ASSUME UNCHANGED <<command, given, files>>
  PROVE  /\ \A flag : GivenFor(flag)' = GivenFor(flag)
         /\ \A f : Param(f)' = Param(f)
         /\ \A f : AskedFor(f)' = AskedFor(f)
         /\ ParsedLock' = ParsedLock
         /\ \A f, kind : ManifestFor(f, kind)' = ManifestFor(f, kind)
<1>1. \A flag : GivenFor(flag)' = GivenFor(flag)
  BY DEF GivenFor
<1>2. \A f : Param(f)' = Param(f)
  BY <1>1 DEF Param
<1>3. \A f : AskedFor(f)' = AskedFor(f)
  <2> TAKE f
  <2>1. \A i : Sets(i, f)' <=> Sets(i, f)
    BY <1>2 DEF Sets
  <2>2. {i \in DOMAIN given' : Sets(i, f)'} = {i \in DOMAIN given : Sets(i, f)}
    BY <2>1
  <2>3. QED
    BY <1>2, <2>2 DEF AskedFor
<1>4. \A path : Exists(path)' <=> Exists(path)
  BY DEF Exists
<1>5. \A path : LockFile(path)' = LockFile(path)
  BY <1>4 DEF LockFile
<1>6. \A path, kind : ManifestFile(path, kind)' = ManifestFile(path, kind)
  BY <1>4 DEF ManifestFile
<1>7. DirLock' = DirLock
  BY <1>1 DEF DirLock
<1>8. ParsedLock' = ParsedLock
  BY <1>1, <1>4, <1>5, <1>7 DEF ParsedLock
<1>9. \A f, kind : ManifestFor(f, kind)' = ManifestFor(f, kind)
  BY <1>1, <1>6 DEF ManifestFor
<1>10. QED
  BY <1>1, <1>2, <1>3, <1>8, <1>9

LEMMA SameMixin ==
  ASSUME UNCHANGED <<session, command, given, mixin, files>>
  PROVE  /\ \A f, default : SourceOr(f, default)' = SourceOr(f, default)
         /\ EnvironmentOf' = EnvironmentOf
         /\ \A e : CombinedRegistryOf(e)' = CombinedRegistryOf(e)
         /\ \A reg : LockRegistry(reg)' = LockRegistry(reg)
         /\ \A ref : Target(ref)' = Target(ref)
<1>1. \A path : Exists(path)' <=> Exists(path)
  BY DEF Exists
<1>2. \A f : FromSource(f)' = FromSource(f)
  BY <1>1 DEF FromSource
<1>3. \A f, default : SourceOr(f, default)' = SourceOr(f, default)
  BY <1>2 DEF SourceOr
<1>4. \A m : Initialised(m)' = Initialised(m)
  BY DEF Initialised
<1>5. EnvironmentOf' = EnvironmentOf
  BY <1>4 DEF EnvironmentOf
<1>6. \A ref : Target(ref)' = Target(ref)
  BY DEF Target
<1>7. \A input : SubtreesOf(input)' = SubtreesOf(input)
  BY <1>6 DEF SubtreesOf
<1>8. \A reg : LockRegistry(reg)' = LockRegistry(reg)
  BY <1>6, <1>7 DEF LockRegistry
<1>9. \A e : CombinedRegistryOf(e)' = CombinedRegistryOf(e)
  BY <1>8 DEF CombinedRegistryOf
<1>10. QED
  BY <1>3, <1>5, <1>6, <1>8, <1>9

LEMMA OptionsKept ==
  ASSUME OptionsInv, UNCHANGED <<command, given, files>>, mixin'.params = mixin.params,
         DOMAIN mixin' = DOMAIN mixin, Taken' => Taken
  PROVE  OptionsInv'
<1>1. /\ \A flag : GivenFor(flag)' = GivenFor(flag)
      /\ \A f : Param(f)' = Param(f)
      /\ \A f : AskedFor(f)' = AskedFor(f)
  BY SameOptions
<1>2. SUFFICES ASSUME Taken' PROVE OptionsInv'
  BY DEF OptionsInv
<1>3. [f \in QueryFields |-> AskedFor(f)]' = [f \in QueryFields |-> AskedFor(f)]
  BY <1>1
<1>4. /\ given' \in Seq(Range(given'))
      /\ \A i \in DOMAIN given' : given'[i].flag \in Accepted[command']
      /\ \A i, j \in DOMAIN given' : given'[i].flag = given'[j].flag => i = j
  BY <1>2 DEF OptionsInv
<1>5. /\ GivenFor("params")' \subseteq Values("params") \ {None, Malformed}
      /\ DOMAIN mixin' = DOMAIN NewMixin /\ DOMAIN mixin'.params = DOMAIN NoParams
      /\ mixin'.params.query = [f \in QueryFields |-> AskedFor(f)]'
      /\ \A f \in {"globalManifest", "manifest", "lockfile"} :
             /\ mixin'.params[f] = SourceFromJSON(f, Param(f)')
             /\ mixin'.params[f] # Refused
  BY <1>1, <1>2, <1>3 DEF OptionsInv
<1>6. QED
  BY <1>4, <1>5 DEF OptionsInv

\* A step of a command that has its options.
LEMMA LaterStep ==
  ASSUME OptionsInv, MixinInv, FilesInv, PinsInv, phase # "options", phase' # "options",
         UNCHANGED <<session, command, given, mixin, files, pins>>, Taken' => Taken
  PROVE  OptionsInv' /\ MixinInv' /\ FilesInv' /\ PinsInv'
<1>1. OptionsInv'
  BY OptionsKept
<1>2. MixinInv'
  BY SameOptions, SameMixin DEF MixinInv
<1>3. FilesInv'
  BY DEF FilesInv
<1>4. PinsInv'
  BY DEF PinsInv
<1>5. QED
  BY <1>1, <1>2, <1>3, <1>4

LEMMA GetEnvironmentStep ==
  ASSUME MarkersAreAtoms, SessionInv, GetEnvironment
  PROVE  SessionInv'
<1> DEFINE result == EnvironmentOf
<1>1. /\ phase = "environment"
      /\ phase' = IF result = Refused THEN "failed" ELSE "ready"
      /\ env' = IF result = Refused THEN None ELSE result
      /\ args' = IF result = Refused \/ command # "search" THEN None ELSE BaseArgs(result)
      /\ UNCHANGED <<session, command, given, mixin, registry, dbs, next, output, printed,
                     cached, files, pins>>
  BY DEF GetEnvironment, Reach
<1>2. /\ TypeOK /\ OptionsInv /\ MixinInv /\ EnvironmentInv /\ RegistryInv /\ SearchInv
      /\ FilesInv /\ PinsInv
  BY DEF SessionInv
<1>3. /\ env = None /\ registry = None /\ dbs = None /\ output = <<>> /\ printed = None
      /\ next = 1
  BY <1>1, <1>2 DEF EnvironmentInv, SearchInv
<1> HIDE DEF result
<1>4. EnvironmentOf' = result
  BY <1>1, SameMixin DEF result
<1>5. result # Refused => result # None /\ DOMAIN result.manifest = Manifest
                          /\ EnvironmentManifest(result.manifest) # Refused
  <2>1. SUFFICES ASSUME result # Refused
                 PROVE  /\ result # None /\ DOMAIN result.manifest = Manifest
                        /\ EnvironmentManifest(result.manifest) # Refused
    OBVIOUS
  <2> DEFINE global == IF mixin.globalManifest = None THEN None
                       ELSE Initialised(mixin.globalManifest)
             own == Initialised(mixin.manifest)
  <2>2. /\ result = [global |-> global, manifest |-> own, lock |-> mixin.lockfile]
        /\ own # Refused /\ EnvironmentManifest(own) # Refused
    BY <2>1 DEF result, EnvironmentOf
  <2>3. GoodManifest(mixin.manifest, Manifest)
    BY <1>1, <1>2, MixinIsGood DEF Taken
  <2>4. DOMAIN own = Manifest
    BY <2>2, <2>3, InitialisedManifest DEF GoodManifest, IsManifest
  <2> HIDE DEF own, global
  <2>5. result # None /\ result.manifest = own
    BY <2>2 DEF MarkersAreAtoms
  <2>6. QED
    BY <2>2, <2>4, <2>5
<1>6. OptionsInv' /\ MixinInv' /\ FilesInv' /\ PinsInv'
  BY <1>1, <1>2, LaterStep DEF Taken
<1>7. TypeOK'
  BY <1>1, <1>2, <1>3, <1>5 DEF TypeOK
<1>8. EnvironmentInv'
  BY <1>1, <1>3, <1>4, <1>5 DEF EnvironmentInv
<1>9. RegistryInv' /\ SearchInv'
  BY <1>1, <1>3 DEF RegistryInv, SearchInv
<1>10. QED
  BY <1>6, <1>7, <1>8, <1>9 DEF SessionInv

LEMMA GetCombinedRegistryStep ==
  ASSUME MarkersAreAtoms, SessionInv, GetCombinedRegistry
  PROVE  SessionInv'
<1> DEFINE result == CombinedRegistryOf(env)
<1>1. /\ phase = "ready" /\ command \in {"search", "registry"}
      /\ phase' = IF result = Refused THEN "failed"
                  ELSE IF command = "search" THEN "combined" ELSE "done"
      /\ registry' = IF result = Refused THEN None ELSE result
      /\ UNCHANGED <<session, command, given, mixin, env, dbs, args, next, output, printed,
                     cached, files, pins>>
  BY DEF GetCombinedRegistry, Reach
<1>2. /\ TypeOK /\ OptionsInv /\ MixinInv /\ EnvironmentInv /\ RegistryInv /\ SearchInv
      /\ FilesInv /\ PinsInv
  BY DEF SessionInv
<1>3. /\ env # None /\ dbs = None /\ output = <<>> /\ printed = None /\ next = 1
  BY <1>1, <1>2 DEF EnvironmentInv, SearchInv
<1>4. result # Refused => result # None
  BY <1>2, <1>3, CombinedIsGood DEF TypeOK, GoodRegistry
<1> HIDE DEF result
<1>5. CombinedRegistryOf(env)' = result /\ EnvironmentOf' = EnvironmentOf
  BY <1>1, SameMixin DEF result
<1>6. OptionsInv' /\ MixinInv' /\ FilesInv' /\ PinsInv'
  BY <1>1, <1>2, LaterStep DEF Taken
<1>7. TypeOK'
  BY <1>1, <1>2, <1>3 DEF TypeOK
<1>8. EnvironmentInv'
  BY <1>1, <1>2, <1>3, <1>5 DEF EnvironmentInv
<1>9. RegistryInv'
  BY <1>1, <1>3, <1>4, <1>5 DEF RegistryInv
<1>10. SearchInv'
  BY <1>1, <1>3 DEF SearchInv
<1>11. QED
  BY <1>6, <1>7, <1>8, <1>9, <1>10 DEF SessionInv

LEMMA UpdateStep ==
  ASSUME MarkersAreAtoms, SessionInv, Update
  PROVE  SessionInv'
<1> DEFINE own == LockRegistry(RegistryOfManifest(env.manifest))
           new == UpdatedRegistry(env.lock.registry, own, mixin.input)
           result == IF env.lock = None THEN None ELSE IF own = Refused THEN Refused ELSE new
<1>1. /\ phase = "ready" /\ command = "update" /\ env # None
      /\ phase' = IF result = Refused THEN "failed"
                  ELSE IF env.lock = None THEN "locking" ELSE "done"
      /\ printed' = IF result \in {None, Refused} THEN None
                    ELSE LockToJSON([env.lock EXCEPT !.registry = result])
      /\ UNCHANGED <<session, command, given, mixin, env, registry, dbs, args, next, output,
                     cached, files, pins>>
  BY DEF Update, Reach
<1>2. /\ TypeOK /\ OptionsInv /\ MixinInv /\ EnvironmentInv /\ RegistryInv /\ SearchInv
      /\ FilesInv /\ PinsInv
  BY DEF SessionInv
<1>3. /\ registry = None /\ dbs = None /\ output = <<>> /\ next = 1
  BY <1>1, <1>2 DEF EnvironmentInv, SearchInv
<1>4. printed' # None => /\ env.lock # None /\ Refused \notin {own, new}
                         /\ printed' = LockToJSON([env.lock EXCEPT !.registry = new])
  BY <1>1
<1>5. own' = own /\ new' = new /\ EnvironmentOf' = EnvironmentOf
  <2>1. own' = own /\ EnvironmentOf' = EnvironmentOf
    BY <1>1, SameMixin
  <2>2. QED
    BY <1>1, <2>1
<1> HIDE DEF own, new, result
<1>6. OptionsInv' /\ MixinInv' /\ FilesInv' /\ PinsInv'
  BY <1>1, <1>2, LaterStep DEF Taken
<1>7. TypeOK'
  BY <1>1, <1>2, <1>3 DEF TypeOK
<1>8. EnvironmentInv'
  BY <1>1, <1>2, <1>3, <1>5 DEF EnvironmentInv
<1>9. RegistryInv'
  BY <1>1, <1>3, <1>4, <1>5 DEF RegistryInv, own, new
<1>10. SearchInv'
  BY <1>1, <1>3 DEF SearchInv
<1>11. QED
  BY <1>6, <1>7, <1>8, <1>9, <1>10 DEF SessionInv

LEMMA OpenRegistryStep ==
  ASSUME MarkersAreAtoms, SessionInv, OpenRegistry
  PROVE  SessionInv'
<1> DEFINE result == Opened(registry)
<1>1. /\ phase = "combined"
      /\ phase' = IF result = Refused THEN "failed" ELSE "scraping"
      /\ dbs' = IF result = Refused THEN None ELSE result
      /\ UNCHANGED <<session, command, given, mixin, env, registry, args, next, output,
                     printed, cached, files, pins>>
  BY DEF OpenRegistry, Reach
<1>2. /\ TypeOK /\ OptionsInv /\ MixinInv /\ EnvironmentInv /\ RegistryInv /\ SearchInv
      /\ FilesInv /\ PinsInv
  BY DEF SessionInv
<1>3. /\ env # None /\ dbs = None /\ next = 1 /\ output = <<>> /\ command = "search"
      /\ registry # None /\ registry = CombinedRegistryOf(env) /\ registry # Refused
      /\ printed = None
  BY <1>1, <1>2 DEF EnvironmentInv, SearchInv, RegistryInv
<1>4. GoodRegistry(registry)
  BY <1>2, <1>3, CombinedIsGood DEF TypeOK
<1>5. result # Refused =>
        /\ Len(result) \in Nat
        /\ \A i \in DOMAIN result : Reachable(result[i][2])
        /\ {result[i][1] : i \in DOMAIN result} = DOMAIN registry.inputs
        /\ IsInjective(registry.priority) =>
               \A i, j \in DOMAIN result : result[i][1] = result[j][1] => i = j
  BY <1>4, OpenedInputs
<1>6. result # None
  <2>1. result = Refused \/ result = [i \in DOMAIN result |-> result[i]]
    BY DEF Opened
  <2>2. QED
    BY <2>1, MarkersAssumption DEF MarkersAreAtoms
<1>7. CombinedRegistryOf(env)' = CombinedRegistryOf(env) /\ EnvironmentOf' = EnvironmentOf
  BY <1>1, SameMixin
<1>8. OptionsInv' /\ MixinInv' /\ FilesInv' /\ PinsInv'
  BY <1>1, <1>2, LaterStep DEF Taken
<1>9. RegistryInv'
  BY <1>1, <1>3, <1>6, <1>7 DEF RegistryInv
<1> HIDE DEF result
<1>10. TypeOK'
  BY <1>1, <1>2, <1>3, <1>5 DEF TypeOK
<1>11. EnvironmentInv'
  BY <1>1, <1>2, <1>3, <1>7 DEF EnvironmentInv
<1>12. SearchInv'
  <2>1. dbs' # None => next' \in 1..(Len(dbs') + 1) /\ 1..(next' - 1) = {}
    BY <1>1, <1>3, <1>5
  <2>2. phase' \in {"scraping", "failed"} /\ output' = <<>> /\ (phase' = "scraping" => dbs' # None)
    BY <1>1, <1>3, <1>6
  <2>3. QED
    BY <2>1, <2>2 DEF SearchInv
<1>13. QED
  BY <1>8, <1>9, <1>10, <1>11, <1>12 DEF SessionInv

LEMMA DbsAreListed ==
  ASSUME MarkersAreAtoms, SessionInv, dbs # None
  PROVE  Len(dbs) \in Nat /\ DOMAIN dbs = 1..Len(dbs)
<1>1. /\ dbs # None /\ registry # None /\ env # None
      /\ dbs = Opened(registry) /\ dbs # Refused
      /\ registry = CombinedRegistryOf(env) /\ registry # Refused
      /\ FilesInv /\ OptionsInv /\ MixinInv /\ EnvironmentInv /\ session \in 1..MaxSessions
  BY DEF SessionInv, RegistryInv, TypeOK
<1>2. GoodRegistry(registry)
  BY <1>1, CombinedIsGood
<1>3. QED
  BY <1>1, <1>2, OpenedInputs

LEMMA FailStep ==
  ASSUME SessionInv, Fail
  PROVE  SessionInv'
<1>1. /\ phase \in {"ready", "combined", "scraping", "querying"} /\ phase' = "failed"
      /\ UNCHANGED <<session, command, given, mixin, env, registry, dbs, args, next, output,
                     printed, cached, files, pins>>
  BY DEF Fail, commandVars
<1>2. /\ TypeOK /\ OptionsInv /\ MixinInv /\ EnvironmentInv /\ RegistryInv /\ SearchInv
      /\ FilesInv /\ PinsInv
  BY DEF SessionInv
<1>3. OptionsInv' /\ MixinInv' /\ FilesInv' /\ PinsInv'
  BY <1>1, <1>2, LaterStep DEF Taken
<1>4. /\ EnvironmentOf' = EnvironmentOf /\ \A e : CombinedRegistryOf(e)' = CombinedRegistryOf(e)
      /\ \A reg : LockRegistry(reg)' = LockRegistry(reg)
      /\ \A ref : Target(ref)' = Target(ref)
  BY <1>1, SameMixin
<1>5. TypeOK'
  BY <1>1, <1>2 DEF TypeOK
<1>6. EnvironmentInv'
  BY <1>1, <1>2, <1>4 DEF EnvironmentInv
<1>7. RegistryInv'
  BY <1>1, <1>2, <1>4 DEF RegistryInv
<1>8. SearchInv'
  <2>1. Query' = Query
    BY <1>1 DEF Query
  <2>2. \A i : RevOf(i)' = RevOf(i)
    BY <1>1, <1>4 DEF RevOf
  <2>3. \A rev : Visible(rev)' = Visible(rev)
    BY <1>1 DEF Visible
  <2>4. QED
    BY <1>1, <1>2, <2>1, <2>2, <2>3 DEF SearchInv
<1>9. QED
  BY <1>3, <1>5, <1>6, <1>7, <1>8 DEF SessionInv

LEMMA ScrapeInputStep ==
  ASSUME MarkersAreAtoms, SessionInv, ScrapeInput
  PROVE  SessionInv'
<1>1. /\ phase = "scraping"
      /\ \/ /\ next \in DOMAIN dbs /\ cached' = cached \cup PrefixesOf(next)
            /\ next' = next + 1 /\ phase' = phase
         \/ next \notin DOMAIN dbs /\ next' = 1 /\ phase' = "querying" /\ cached' = cached
      /\ UNCHANGED <<session, command, given, mixin, env, registry, dbs, args, output,
                     printed, files, pins>>
  BY DEF ScrapeInput
<1>2. /\ TypeOK /\ OptionsInv /\ MixinInv /\ EnvironmentInv /\ RegistryInv /\ SearchInv
      /\ FilesInv /\ PinsInv
  BY DEF SessionInv
<1>3. /\ env # None /\ output = <<>> /\ dbs # None /\ registry # None /\ command = "search"
      /\ next \in 1..(Len(dbs) + 1) /\ \A i \in 1..(next - 1) : PrefixesOf(i) \subseteq cached
      /\ args = BaseArgs(env)
  BY <1>1, <1>2 DEF EnvironmentInv, RegistryInv, SearchInv
<1>4. Len(dbs) \in Nat /\ DOMAIN dbs = 1..Len(dbs)
  BY <1>3, DbsAreListed
<1>5. OptionsInv' /\ MixinInv' /\ FilesInv' /\ PinsInv'
  BY <1>1, <1>2, LaterStep DEF Taken
<1>6. /\ EnvironmentOf' = EnvironmentOf /\ \A e : CombinedRegistryOf(e)' = CombinedRegistryOf(e)
      /\ \A reg : LockRegistry(reg)' = LockRegistry(reg)
      /\ \A ref : Target(ref)' = Target(ref)
  BY <1>1, SameMixin
<1>7. TypeOK'
  BY <1>1, <1>2 DEF TypeOK
<1>8. EnvironmentInv'
  BY <1>1, <1>2, <1>6 DEF EnvironmentInv
<1>9. RegistryInv'
  BY <1>1, <1>2, <1>3, <1>6 DEF RegistryInv
<1>10. SearchInv'
  <2>1. \A i : PrefixesOf(i)' = PrefixesOf(i)
    <3>1. \A i : RevOf(i)' = RevOf(i)
      BY <1>1, <1>6 DEF RevOf
    <3>2. \A input : SubtreesOf(input)' = SubtreesOf(input)
      BY <1>6 DEF SubtreesOf
    <3>3. QED
      BY <1>1, <3>1, <3>2 DEF PrefixesOf
  <2>2. CASE next \in DOMAIN dbs
    <3>1. /\ cached' = cached \cup PrefixesOf(next) /\ next' = next + 1 /\ phase' = "scraping"
      BY <1>1, <2>2
    <3>2. next' \in 1..(Len(dbs') + 1)
      BY <1>1, <1>3, <1>4, <2>2, <3>1
    <3>3. \A i \in 1..(next' - 1) : PrefixesOf(i)' \subseteq cached'
      <4>1. SUFFICES ASSUME NEW i \in 1..(next' - 1) PROVE PrefixesOf(i) \subseteq cached'
        BY <2>1
      <4>2. i = next \/ i \in 1..(next - 1)
        BY <1>3, <1>4, <3>1
      <4>3. QED
        BY <1>3, <3>1, <4>2
    <3>4. output' = <<>>
      BY <1>1, <1>3
    <3>5. QED
      BY <3>1, <3>2, <3>3, <3>4 DEF SearchInv
  <2>3. CASE next \notin DOMAIN dbs
    <3>1. cached' = cached /\ next' = 1 /\ phase' = "querying"
      BY <1>1, <2>3
    <3>2. \A i \in DOMAIN dbs : i \in 1..(next - 1)
      BY <1>3, <1>4, <2>3
    <3>3. \A i \in DOMAIN dbs' : PrefixesOf(i)' \subseteq cached'
      BY <1>1, <1>3, <2>1, <3>1, <3>2
    <3>4. /\ next' \in 1..(Len(dbs') + 1) /\ output' = <<>> /\ Len(output') = next' - 1
      BY <1>1, <1>3, <1>4, <3>1
    <3>5. args' \in {BaseArgs(env'), Query'}
      BY <1>1, <1>3
    <3>6. QED
      BY <3>1, <3>3, <3>4, <3>5 DEF SearchInv
  <2>4. QED
    BY <2>2, <2>3
<1>11. QED
  BY <1>5, <1>7, <1>8, <1>9, <1>10 DEF SessionInv

\* The query fills the arguments of one input after the other with the same.
LEMMA FilledAgain ==
  ASSUME NEW q, NEW base
  PROVE  Overlay(q, Overlay(q, base)) = Overlay(q, base)
BY DEF Overlay

LEMMA SearchInputStep ==
  ASSUME MarkersAreAtoms, SessionInv, SearchInput
  PROVE  SessionInv'
<1>1. /\ phase = "querying"
      /\ UNCHANGED <<session, command, given, mixin, env, registry, dbs, printed, cached,
                     files, pins>>
  BY DEF SearchInput
<1>2. /\ TypeOK /\ OptionsInv /\ MixinInv /\ EnvironmentInv /\ RegistryInv /\ SearchInv
      /\ FilesInv /\ PinsInv
  BY DEF SessionInv
<1>3. /\ env # None /\ dbs # None /\ registry # None /\ command = "search"
      /\ next \in 1..(Len(dbs) + 1) /\ \A i \in DOMAIN dbs : PrefixesOf(i) \subseteq cached
      /\ Len(output) = next - 1 /\ args \in {BaseArgs(env), Query}
  BY <1>1, <1>2 DEF EnvironmentInv, RegistryInv, SearchInv
<1>4. Len(dbs) \in Nat /\ DOMAIN dbs = 1..Len(dbs)
  BY <1>3, DbsAreListed
<1> DEFINE filled == FillFromQuery(mixin.params.query, args)
           row(i) == <<dbs[i][1], Execute(Visible(RevOf(i)), Query)>>
<1>5. filled = Query
  BY <1>3, FilledAgain DEF FillFromQuery, Query
<1>6. \/ next \notin DOMAIN dbs /\ phase' = "done" /\ UNCHANGED <<args, next, output>>
      \/ /\ next \in DOMAIN dbs /\ args' = Query /\ ValidArgs(Query)
         /\ output' = Append(output, row(next)) /\ next' = next + 1 /\ phase' = phase
      \/ /\ next \in DOMAIN dbs /\ args' = Query /\ phase' = "failed"
         /\ UNCHANGED <<next, output>>
  BY <1>5 DEF SearchInput
<1> HIDE DEF filled
<1>7. phase' \in {"done", "querying", "failed"}
  BY <1>1, <1>6
<1>8. OptionsInv' /\ MixinInv' /\ FilesInv' /\ PinsInv'
  BY <1>1, <1>2, <1>3, <1>7, LaterStep DEF Taken
<1>9. /\ EnvironmentOf' = EnvironmentOf /\ \A e : CombinedRegistryOf(e)' = CombinedRegistryOf(e)
      /\ \A reg : LockRegistry(reg)' = LockRegistry(reg)
      /\ \A ref : Target(ref)' = Target(ref)
  BY <1>1, SameMixin
<1>10. Query' = Query
  BY <1>1 DEF Query
<1>11. EnvironmentInv'
  BY <1>1, <1>2, <1>3, <1>7, <1>9 DEF EnvironmentInv
<1>12. RegistryInv'
  BY <1>1, <1>2, <1>3, <1>7, <1>9 DEF RegistryInv
<1>13. /\ \A i : PrefixesOf(i)' = PrefixesOf(i)
       /\ \A i : row(i)' = row(i)
  <2>1. \A i : RevOf(i)' = RevOf(i)
    BY <1>1, <1>9 DEF RevOf
  <2>2. \A input : SubtreesOf(input)' = SubtreesOf(input)
    BY <1>9 DEF SubtreesOf
  <2>3. \A rev : Visible(rev)' = Visible(rev)
    BY <1>1 DEF Visible
  <2>4. QED
    BY <1>1, <1>10, <2>1, <2>2, <2>3 DEF PrefixesOf
<1>14. output # <<>> =>
         /\ args = Query /\ ValidArgs(Query)
         /\ Len(output) <= Len(dbs) /\ output = [i \in 1..Len(output) |-> row(i)]
  BY <1>2 DEF SearchInv
<1> HIDE DEF row
<1>15. output = [i \in 1..(next - 1) |-> row(i)]
  <2>1. CASE output = <<>>
    BY <1>3, <2>1
  <2>2. CASE output # <<>>
    BY <1>3, <1>14, <2>2
  <2>3. QED
    BY <2>1, <2>2
<1>16. \A i \in DOMAIN dbs' : PrefixesOf(i)' \subseteq cached'
  BY <1>1, <1>3, <1>13
<1>17. CASE next \notin DOMAIN dbs /\ phase' = "done" /\ UNCHANGED <<args, next, output>>
  <2>1. Len(output') = Len(dbs')
    BY <1>1, <1>3, <1>4, <1>17
  <2>2. output' # <<>> =>
          /\ args' = Query' /\ ValidArgs(Query')
          /\ Len(output') <= Len(dbs')
          /\ output' = [i \in 1..Len(output') |-> row(i)']
    BY <1>1, <1>10, <1>13, <1>14, <1>17
  <2>3. SearchInv'
    BY <1>1, <1>3, <1>16, <1>17, <2>1, <2>2 DEF SearchInv, row
  <2>4. TypeOK'
    BY <1>1, <1>2, <1>17 DEF TypeOK
  <2>5. QED
    BY <1>8, <1>11, <1>12, <2>3, <2>4 DEF SessionInv
<1>18. CASE /\ next \in DOMAIN dbs /\ args' = Query /\ ValidArgs(Query)
            /\ output' = Append(output, row(next)) /\ next' = next + 1 /\ phase' = phase
  <2>1. output' = [i \in 1..next |-> row(i)] /\ Len(output') = next
    BY <1>3, <1>4, <1>15, <1>18
  <2>2. next' \in 1..(Len(dbs') + 1) /\ Len(output') = next' - 1 /\ Len(output') <= Len(dbs')
    BY <1>1, <1>3, <1>4, <1>18, <2>1
  <2>3. output' = [i \in 1..Len(output') |-> row(i)']
    BY <1>13, <2>1
  <2>4. phase' = "querying" /\ args' = Query' /\ ValidArgs(Query') /\ dbs' # None
    BY <1>1, <1>3, <1>10, <1>18
  <2>5. SearchInv'
    BY <1>16, <2>2, <2>3, <2>4 DEF SearchInv, row
  <2>6. TypeOK'
    BY <1>1, <1>2, <1>3, <1>18 DEF TypeOK
  <2>7. QED
    BY <1>8, <1>11, <1>12, <2>5, <2>6 DEF SessionInv
<1>19. CASE /\ next \in DOMAIN dbs /\ args' = Query /\ phase' = "failed"
            /\ UNCHANGED <<next, output>>
  <2>1. output' # <<>> =>
          /\ args' = Query' /\ ValidArgs(Query')
          /\ Len(output') <= Len(dbs')
          /\ output' = [i \in 1..Len(output') |-> row(i)']
    BY <1>1, <1>10, <1>13, <1>14, <1>19
  <2>2. SearchInv'
    BY <1>1, <1>3, <1>19, <2>1 DEF SearchInv, row
  <2>3. TypeOK'
    BY <1>1, <1>2, <1>14, <1>19 DEF TypeOK
  <2>4. QED
    BY <1>8, <1>11, <1>12, <2>2, <2>3 DEF SessionInv
<1>20. QED
  BY <1>6, <1>17, <1>18, <1>19

\* A command that fails at its options, or before its environment is there,
\* leaves nothing to speak of.
LEMMA EarlyStep ==
  ASSUME SessionInv, phase \in {"options", "environment"}, phase' \in {"options", "environment", "failed"},
         UNCHANGED <<session, command, env, registry, dbs, args, next, output, printed,
                     cached, files, pins>>
  PROVE  /\ TypeOK' /\ EnvironmentInv' /\ RegistryInv' /\ SearchInv' /\ FilesInv' /\ PinsInv'
         /\ phase' = "failed" => OptionsInv' /\ MixinInv'
<1>1. /\ TypeOK /\ EnvironmentInv /\ SearchInv /\ FilesInv /\ PinsInv
  BY DEF SessionInv
<1>2. /\ env' = None /\ registry' = None /\ dbs' = None /\ output' = <<>> /\ printed' = None
      /\ next' = 1
  BY <1>1 DEF EnvironmentInv, SearchInv
<1>3. TypeOK'
  BY <1>1, <1>2 DEF TypeOK
<1>4. EnvironmentInv' /\ RegistryInv' /\ SearchInv'
  BY <1>2 DEF EnvironmentInv, RegistryInv, SearchInv
<1>5. FilesInv' /\ PinsInv'
  BY <1>1 DEF FilesInv, PinsInv
<1>6. phase' = "failed" => OptionsInv' /\ MixinInv'
  BY <1>2 DEF OptionsInv, MixinInv, Taken
<1>7. QED
  BY <1>3, <1>4, <1>5, <1>6

LEMMA MixinFields ==
  ASSUME OptionsInv, Taken
  PROVE  /\ DOMAIN mixin = {"gaRegistry", "params", "globalManifest", "manifest",
                            "lockfile", "input"}
         /\ DOMAIN mixin.params = {"globalManifest", "manifest", "lockfile", "query"}
         /\ DOMAIN mixin.params.query = QueryFields
BY DEF OptionsInv, NewMixin, NoParams

LEMMA InitEnvironmentStep ==
  ASSUME MarkersAreAtoms, SessionInv, InitEnvironment
  PROVE  SessionInv'
<1>1. PICK result \in {IF command = "search" THEN SetFromParams
                       ELSE IF mixin.manifest = None THEN Refused ELSE mixin} :
        /\ Reach("options", "environment", result)
        /\ mixin' = IF result = Refused THEN mixin ELSE result
        /\ UNCHANGED <<session, command, given, env, registry, dbs, args, next, output,
                       printed, cached, files, pins>>
  BY DEF InitEnvironment
<1>2. phase = "options" /\ phase' = IF result = Refused THEN "failed" ELSE "environment"
  BY <1>1 DEF Reach
<1>3. OptionsInv /\ MixinInv /\ FilesInv /\ Taken
  BY <1>2 DEF SessionInv, Taken
<1>4. /\ TypeOK' /\ EnvironmentInv' /\ RegistryInv' /\ SearchInv' /\ FilesInv' /\ PinsInv'
      /\ phase' = "failed" => OptionsInv' /\ MixinInv'
  BY <1>1, <1>2, EarlyStep
<1>5. CASE result = Refused
  BY <1>2, <1>4, <1>5 DEF SessionInv
<1>6. CASE result # Refused /\ command = "search"
  <2> DEFINE g == SourceOr("globalManifest", mixin.globalManifest)
             m == SourceOr("manifest", EmptyManifest(Manifest))
             l == SourceOr("lockfile", mixin.lockfile)
  <2>1. /\ Refused \notin {g, m, l}
        /\ mixin' = [mixin EXCEPT !.globalManifest = g, !.manifest = m, !.lockfile = l]
    BY <1>1, <1>6 DEF SetFromParams, SetAll
  <2>2. mixin.lockfile = ParsedLock /\ mixin.globalManifest = None
    <3>1. GivenFor("globalManifest") = {}
      BY <1>3, <1>6 DEF OptionsInv, Accepted, GivenFor, QueryFields
    <3>2. QED
      BY <1>2, <1>3, <3>1 DEF MixinInv, ManifestFor
  <2>3. m # None
    <3>1. CASE mixin.params["manifest"] = None
      BY <3>1, EmptyIsManifest DEF SourceOr, IsManifest
    <3>2. CASE mixin.params["manifest"] # None
      <4>1. m = FromSource("manifest")
        BY <3>2 DEF SourceOr
      <4>2. QED
        BY <1>3, <2>1, <3>2, <4>1, SourceManifest DEF GoodManifest, IsManifest
    <3>3. QED
      BY <3>1, <3>2
  <2>4. /\ DOMAIN mixin = {"gaRegistry", "params", "globalManifest", "manifest",
                           "lockfile", "input"}
    BY <1>3, MixinFields
  <2>5. \A f, default : mixin'.params = mixin.params => SourceOr(f, default)' = SourceOr(f, default)
    <3>1. \A path : Exists(path)' <=> Exists(path)
      BY <1>1 DEF Exists
    <3>2. QED
      BY <1>1, <3>1 DEF SourceOr, FromSource
  <2> HIDE DEF g, m, l
  <2>6. /\ mixin'.globalManifest = g /\ mixin'.manifest = m /\ mixin'.lockfile = l
        /\ mixin'.params = mixin.params /\ DOMAIN mixin' = DOMAIN mixin
    BY <2>1, <2>4
  <2>7. OptionsInv'
    BY <1>1, <1>2, <1>3, <2>6, OptionsKept
  <2>8. ParsedLock' = ParsedLock
    BY <1>1, SameOptions
  <2>9. /\ l = SourceOr("lockfile", ParsedLock)' /\ g = SourceOr("globalManifest", None)'
        /\ m = SourceOr("manifest", EmptyManifest(Manifest))'
    BY <2>2, <2>5, <2>6, <2>8 DEF l, g, m
  <2>10. MixinInv'
    BY <1>1, <1>2, <1>6, <2>1, <2>3, <2>6, <2>9 DEF MixinInv
  <2>11. QED
    BY <1>4, <2>7, <2>10 DEF SessionInv
<1>7. CASE result # Refused /\ command # "search"
  <2>1. mixin' = mixin /\ mixin.manifest # None /\ phase' = "environment"
    BY <1>1, <1>2, <1>7
  <2>2. OptionsInv'
    BY <1>1, <1>3, <2>1, OptionsKept
  <2>3. MixinInv'
    BY <1>1, <1>2, <1>3, <1>7, <2>1, SameOptions DEF MixinInv
  <2>4. QED
    BY <1>4, <2>2, <2>3 DEF SessionInv
<1>8. QED
  BY <1>5, <1>6, <1>7
-----------------------------------------------------------------------------
(***************************************************************************)
(* Options.                                                                *)
(***************************************************************************)
LEMMA MaxIsLast ==
  ASSUME NEW n \in Nat, NEW S, S \subseteq 1..n, S # {}
  PROVE  Max(S) \in S /\ \A y \in S : Max(S) >= y
<1> DEFINE HasMax(T) == \E x \in T : \A y \in T : x >= y
           Good == {k \in Nat : \A T : T \subseteq 1..k /\ T # {} => HasMax(T)}
<1>1. 0 \in Good
  OBVIOUS
<1>2. ASSUME NEW k \in Nat, k \in Good PROVE k + 1 \in Good
  <2>1. SUFFICES ASSUME NEW T, T \subseteq 1..(k + 1), T # {} PROVE HasMax(T)
    OBVIOUS
  <2>2. CASE k + 1 \in T
    <3>1. \A y \in T : k + 1 >= y
      BY <2>1
    <3>2. QED
      BY <2>2, <3>1
  <2>3. CASE k + 1 \notin T
    <3>1. T \subseteq 1..k
      BY <2>1, <2>3
    <3>2. QED
      BY <1>2, <2>1, <3>1
  <2>4. QED
    BY <2>2, <2>3
<1>3. n \in Good
  <2> HIDE DEF Good
  <2>1. QED
    BY <1>1, <1>2, UptoInduction
<1>4. HasMax(S)
  BY <1>3
<1>5. QED
  BY <1>4 DEF Max

\* One more option is given.
LEMMA GivenAppended ==
  ASSUME OptionsInv, Taken, NEW flag, NEW value,
         \A i \in DOMAIN given : given[i].flag # flag,
         given' = Append(given, [flag |-> flag, value |-> value])
  PROVE  /\ given' \in Seq(Range(given'))
         /\ Len(given) \in Nat /\ DOMAIN given = 1..Len(given)
         /\ DOMAIN given' = 1..(Len(given) + 1)
         /\ given'[Len(given) + 1].flag = flag /\ given'[Len(given) + 1].value = value
         /\ \A i \in 1..Len(given) : given'[i] = given[i]
         /\ \A i, j \in DOMAIN given' : given'[i].flag = given'[j].flag => i = j
         /\ GivenFor(flag)' = {value} /\ The(GivenFor(flag)') = value
         /\ \A f : f # flag => GivenFor(f)' = GivenFor(f)
<1> DEFINE n == Len(given)
           e == [flag |-> flag, value |-> value]
<1>1. given \in Seq(Range(given)) /\ \A i, j \in DOMAIN given : given[i].flag = given[j].flag => i = j
  BY DEF OptionsInv
<1>2. n \in Nat /\ DOMAIN given = 1..n
  BY <1>1
<1>3. /\ DOMAIN given' = 1..(n + 1) /\ given'[n + 1] = e
      /\ \A i \in 1..n : given'[i] = given[i]
  BY <1>1
<1>4. given' \in Seq(Range(given'))
  <2>1. given' = [i \in 1..(n + 1) |-> given'[i]]
    BY <1>1, <1>3
  <2>2. \A i \in 1..(n + 1) : given'[i] \in Range(given')
    BY <1>3 DEF Range
  <2> DEFINE X == Range(given')
             g == given'
  <2> HIDE DEF n, X, g
  <2>3. g \in Seq(X)
    <3>1. n + 1 \in Nat /\ g = [i \in 1..(n + 1) |-> g[i]] /\ \A i \in 1..(n + 1) : g[i] \in X
      BY <1>2, <2>1, <2>2 DEF g, X
    <3>2. [i \in 1..(n + 1) |-> g[i]] \in Seq(X)
      BY <3>1
    <3>3. QED
      BY <3>1, <3>2
  <2>4. QED
    BY <2>3 DEF g, X
<1>5. e.flag = flag /\ e.value = value
  OBVIOUS
<1> HIDE DEF n, e
<1>6. \A i, j \in DOMAIN given' : given'[i].flag = given'[j].flag => i = j
  BY <1>1, <1>2, <1>3, <1>5
<1>7. ASSUME NEW f
      PROVE  GivenFor(f)' = GivenFor(f) \cup (IF f = flag THEN {value} ELSE {})
  BY <1>2, <1>3, <1>5 DEF GivenFor
<1>8. GivenFor(flag) = {}
  BY DEF GivenFor
<1>9. GivenFor(flag)' = {value}
  BY <1>7, <1>8
<1>10. The(GivenFor(flag)') = value
  BY <1>9 DEF The
<1>11. QED
  BY <1>2, <1>3, <1>4, <1>5, <1>6, <1>7, <1>9, <1>10 DEF n

\* What it asks for.
LEMMA AskedAppended ==
  ASSUME OptionsInv, Taken, NEW flag, NEW value,
         \A i \in DOMAIN given : given[i].flag # flag,
         given' = Append(given, [flag |-> flag, value |-> value]),
         NEW field \in QueryFields
  PROVE  AskedFor(field)' =
           IF flag = field THEN value
           ELSE IF flag = "params" /\ Member(Param("query")', field) # None
           THEN Param("query")'[field] ELSE AskedFor(field)
<1> DEFINE n == Len(given)
           S == {i \in DOMAIN given : Sets(i, field)}
           S1 == {i \in DOMAIN given' : Sets(i, field)'}
           q1 == Param("query")'
           new == \/ flag = field
                  \/ flag = "params" /\ Member(q1, field) # None
<1>1. /\ n \in Nat /\ DOMAIN given = 1..n
      /\ DOMAIN given' = 1..(n + 1)
      /\ given'[n + 1].flag = flag /\ given'[n + 1].value = value
      /\ \A i \in 1..n : given'[i] = given[i]
      /\ flag # "params" => GivenFor("params")' = GivenFor("params")
  BY GivenAppended
<1>2. flag # "params" => q1 = Param("query")
  BY <1>1 DEF Param
<1>3. \A i : Sets(i, field)' <=> \/ given'[i].flag = field
                                 \/ given'[i].flag = "params" /\ Member(q1, field) # None
  BY DEF Sets
<1>4. AskedFor(field)' =
        IF S1 = {} THEN None
        ELSE IF given'[Max(S1)].flag = field THEN given'[Max(S1)].value ELSE q1[field]
  BY DEF AskedFor
<1>5. field # "params"
  BY DEF QueryFields
<1>6. ASSUME NEW i \in 1..n PROVE Sets(i, field)' <=> Sets(i, field)
  <2>1. given'[i] = given[i] /\ given[i].flag # flag
    BY <1>1
  <2>2. QED
    BY <1>2, <1>3, <2>1 DEF Sets
<1> HIDE DEF n, q1
<1>7. CASE new
  <2>1. n + 1 \in S1 /\ S1 \subseteq 1..(n + 1)
    BY <1>1, <1>3, <1>7
  <2>2. n + 1 \in Nat /\ S1 # {}
    BY <1>1, <2>1
  <2>3. Max(S1) \in S1 /\ \A y \in S1 : Max(S1) >= y
    <3> HIDE DEF S1
    <3>1. QED
      BY <2>1, <2>2, MaxIsLast
  <2>4. Max(S1) = n + 1
    <3> DEFINE last == Max(S1)
    <3>1. last \in 1..(n + 1) /\ last >= n + 1
      <4> HIDE DEF S1
      <4>1. QED
        BY <2>1, <2>3
    <3>2. n \in Nat
      BY <1>1
    <3> HIDE DEF last
    <3>3. last = n + 1
      BY <3>1, <3>2
    <3>4. QED
      BY <3>3 DEF last
  <2> HIDE DEF S1
  <2>5. QED
    BY <1>1, <1>4, <1>5, <1>7, <2>2, <2>4 DEF q1
<1>8. CASE ~new
  <2>1. S1 = S
    <3> DEFINE P(i) == \/ given'[i].flag = field
                       \/ given'[i].flag = "params" /\ Member(q1, field) # None
    <3>1. ~P(n + 1)
      BY <1>1, <1>8
    <3>2. \A i \in 1..(n + 1) : i = n + 1 \/ i \in 1..n
      BY <1>1
    <3>3. \A i \in 1..n : i \in 1..(n + 1)
      BY <1>1
    <3>4. S1 = {i \in 1..(n + 1) : P(i)}
      BY <1>1, <1>3
    <3>5. \A i \in 1..n : P(i) <=> Sets(i, field)
      BY <1>3, <1>6
    <3> HIDE DEF P, S1
    <3>6. S1 = S
      BY <1>1, <3>1, <3>2, <3>3, <3>4, <3>5
    <3>7. QED
      BY <3>6
  <2>2. CASE S = {}
    <3>1. AskedFor(field) = None
      BY <2>2 DEF AskedFor
    <3> HIDE DEF S, S1
    <3>2. AskedFor(field)' = None
      BY <1>4, <2>1, <2>2
    <3>3. QED
      BY <1>8, <3>1, <3>2 DEF q1
  <2>3. CASE S # {}
    <3>1. S \subseteq 1..n
      BY <1>1
    <3> DEFINE last == Max(S)
    <3>2. last \in S
      <4> HIDE DEF S
      <4>1. QED
        BY <1>1, <2>3, <3>1, MaxIsLast
    <3>3. last \in 1..n /\ Sets(last, field)
      BY <1>1, <3>2
    <3>4. AskedFor(field) = IF given[last].flag = field THEN given[last].value
                            ELSE Param("query")[field]
      BY <2>3 DEF AskedFor
    <3> HIDE DEF last, S, S1
    <3>5. given'[last] = given[last] /\ given[last].flag # flag
      BY <1>1, <3>3
    <3>6. AskedFor(field)' = IF given[last].flag = field THEN given[last].value ELSE q1[field]
      BY <1>4, <2>1, <2>3, <3>5 DEF last
    <3>7. given[last].flag # field => q1 = Param("query")
      BY <1>2, <3>3, <3>5 DEF Sets
    <3>8. AskedFor(field)' = AskedFor(field)
      BY <3>4, <3>6, <3>7
    <3>9. QED
      BY <1>8, <3>8 DEF q1
  <2>4. QED
    BY <2>2, <2>3
<1>9. QED
  BY <1>7, <1>8

\* An option that is taken, and what it changes of what the options say.
LEMMA GiveTaken ==
  ASSUME SessionInv, NEW flag, NEW value, NEW new, Give(flag, value, new), phase' = "options"
  PROVE  /\ phase = "options" /\ Taken /\ mixin' = new /\ new # Refused
         /\ OptionsInv /\ MixinInv /\ FilesInv
         /\ flag \in Accepted[command]
         /\ UNCHANGED <<command, files>>
<1>1. /\ phase = "options" /\ flag \in Accepted[command]
      /\ IF new = Refused THEN phase' = "failed" /\ UNCHANGED mixin
         ELSE mixin' = new /\ UNCHANGED phase
      /\ UNCHANGED <<command, files>>
  BY DEF Give
<1>2. QED
  BY <1>1 DEF SessionInv, Taken

LEMMA GiveAppends ==
  ASSUME SessionInv, NEW flag, NEW value, NEW new, Give(flag, value, new)
  PROVE  /\ \A i \in DOMAIN given : given[i].flag # flag
         /\ given' = Append(given, [flag |-> flag, value |-> value])
BY DEF Give

LEMMA GiveStep ==
  ASSUME SessionInv, NEW flag, NEW value, NEW new, Give(flag, value, new),
         phase' = "options" => OptionsInv' /\ MixinInv'
  PROVE  SessionInv'
<1>1. /\ phase = "options" /\ phase' \in {"options", "failed"}
      /\ UNCHANGED <<session, command, env, registry, dbs, args, next, output, printed,
                     cached, files, pins>>
  BY DEF Give
<1>2. QED
  BY <1>1, EarlyStep DEF SessionInv

LEMMA GiveFrame ==
  ASSUME SessionInv, NEW flag, NEW value, NEW new, Give(flag, value, new), phase' = "options"
  PROVE  /\ GivenFor(flag)' = {value} /\ The(GivenFor(flag)') = value /\ GivenFor(flag) = {}
         /\ \A f : f # flag => GivenFor(f)' = GivenFor(f)
         /\ \A path : Exists(path)' <=> Exists(path)
         /\ \A path : LockFile(path)' = LockFile(path)
         /\ \A path, kind : ManifestFile(path, kind)' = ManifestFile(path, kind)
<1>1. /\ Taken /\ OptionsInv /\ UNCHANGED files
      /\ \A i \in DOMAIN given : given[i].flag # flag
      /\ given' = Append(given, [flag |-> flag, value |-> value])
  BY GiveTaken, GiveAppends
<1>2. /\ GivenFor(flag)' = {value} /\ The(GivenFor(flag)') = value
      /\ \A f : f # flag => GivenFor(f)' = GivenFor(f)
  BY <1>1, GivenAppended
<1>3. GivenFor(flag) = {}
  BY <1>1 DEF GivenFor
<1>4. \A path : Exists(path)' <=> Exists(path)
  BY <1>1 DEF Exists
<1>5. \A path : LockFile(path)' = LockFile(path)
  BY <1>1, <1>4 DEF LockFile
<1>6. \A path, kind : ManifestFile(path, kind)' = ManifestFile(path, kind)
  BY <1>1, <1>4 DEF ManifestFile
<1>7. QED
  BY <1>2, <1>3, <1>4, <1>5, <1>6

LEMMA GiveParam ==
  ASSUME SessionInv, NEW flag, NEW value, NEW new, Give(flag, value, new), phase' = "options",
         flag # "params", NEW f
  PROVE  Param(f)' = Param(f)
BY GiveFrame DEF Param

LEMMA GiveManifests ==
  ASSUME SessionInv, NEW flag, NEW value, NEW new, Give(flag, value, new), phase' = "options"
  PROVE  /\ ManifestFor("globalManifest", GlobalManifest)' =
                IF flag = "globalManifest" THEN ManifestFile(value, GlobalManifest)
                ELSE ManifestFor("globalManifest", GlobalManifest)
         /\ ManifestFor("manifest", Manifest)' =
                IF flag = "manifest" THEN ManifestFile(value, Manifest)
                ELSE ManifestFor("manifest", Manifest)
BY GiveFrame DEF ManifestFor

LEMMA GiveNoLock ==
  ASSUME SessionInv, NEW flag, NEW value, NEW new, Give(flag, value, new), phase' = "options",
         flag # "dir", flag # "lockfile"
  PROVE  ParsedLock' = ParsedLock
<1>1. /\ GivenFor("dir")' = GivenFor("dir") /\ GivenFor("lockfile")' = GivenFor("lockfile")
      /\ \A path : Exists(path)' <=> Exists(path)
      /\ \A path : LockFile(path)' = LockFile(path)
  BY GiveFrame
<1>2. DirLock' = DirLock
  BY <1>1 DEF DirLock
<1>3. UNCHANGED command
  BY GiveTaken
<1>4. QED
  BY <1>1, <1>2, <1>3 DEF ParsedLock

LEMMA GiveLock ==
  ASSUME SessionInv, NEW value, NEW new, Give("lockfile", value, new), phase' = "options"
  PROVE  ParsedLock' = LockFile(value)
<1>1. /\ GivenFor("lockfile")' = {value} /\ The(GivenFor("lockfile")') = value
      /\ \A path : LockFile(path)' = LockFile(path)
  BY GiveFrame
<1>2. UNCHANGED command /\ "lockfile" \in Accepted[command]
  BY GiveTaken
<1>3. command # "search"
  BY <1>2 DEF Accepted, QueryFields
<1>4. QED
  BY <1>1, <1>2, <1>3 DEF ParsedLock

LEMMA GiveDirLock ==
  ASSUME SessionInv, NEW value, NEW new, Give("dir", value, new), phase' = "options"
  PROVE  /\ command = "search" /\ ParsedLock = None
         /\ ParsedLock' = IF Exists(<<value, "manifest.lock">>)
                          THEN LockFile(<<value, "manifest.lock">>) ELSE None
<1>1. /\ GivenFor("dir")' = {value} /\ The(GivenFor("dir")') = value /\ GivenFor("dir") = {}
      /\ \A path : Exists(path)' <=> Exists(path)
      /\ \A path : LockFile(path)' = LockFile(path)
  BY GiveFrame
<1>2. UNCHANGED command /\ "dir" \in Accepted[command]
  BY GiveTaken
<1>3. command = "search"
  BY <1>2 DEF SessionInv, TypeOK, Accepted, QueryFields
<1>4. DirLock' = <<value, "manifest.lock">>
  BY <1>1 DEF DirLock
<1>5. ParsedLock = None
  BY <1>1, <1>3 DEF ParsedLock
<1>6. QED
  BY <1>1, <1>2, <1>3, <1>4, <1>5 DEF ParsedLock

LEMMA GivenOptions ==
  ASSUME SessionInv, NEW flag, NEW value, NEW new, Give(flag, value, new), phase' = "options",
         flag = "params" => value \in Values("params") \ {None, Malformed},
         DOMAIN new = DOMAIN mixin, DOMAIN new.params = DOMAIN mixin.params,
         new.params.query = [f \in QueryFields |-> AskedFor(f)'],
         \A f \in {"globalManifest", "manifest", "lockfile"} :
             /\ new.params[f] = SourceFromJSON(f, Param(f)')
             /\ new.params[f] # Refused
  PROVE  OptionsInv'
<1>1. /\ Taken /\ OptionsInv /\ flag \in Accepted[command] /\ mixin' = new
      /\ \A i \in DOMAIN given : given[i].flag # flag
      /\ given' = Append(given, [flag |-> flag, value |-> value])
      /\ UNCHANGED <<command, files>>
  BY GiveTaken, GiveAppends
<1>2. /\ given' \in Seq(Range(given'))
      /\ Len(given) \in Nat /\ DOMAIN given = 1..Len(given)
      /\ DOMAIN given' = 1..(Len(given) + 1)
      /\ given'[Len(given) + 1].flag = flag
      /\ \A i \in 1..Len(given) : given'[i] = given[i]
      /\ \A i, j \in DOMAIN given' : given'[i].flag = given'[j].flag => i = j
      /\ GivenFor(flag)' = {value}
      /\ \A f : f # flag => GivenFor(f)' = GivenFor(f)
  BY <1>1, GivenAppended
<1>3. \A i \in DOMAIN given' : given'[i].flag \in Accepted[command]
  BY <1>1, <1>2 DEF OptionsInv
<1>4. GivenFor("params")' \subseteq Values("params") \ {None, Malformed}
  BY <1>1, <1>2 DEF OptionsInv
<1>5. DOMAIN mixin' = DOMAIN NewMixin /\ DOMAIN mixin'.params = DOMAIN NoParams
  BY <1>1 DEF OptionsInv
<1>6. QED
  BY <1>1, <1>2, <1>3, <1>4, <1>5 DEF OptionsInv

\* Options that set a field other than the parameters.
LEMMA PlainOption ==
  ASSUME SessionInv, NEW flag \in {"gaRegistry", "globalManifest", "manifest", "lockfile", "input", "dir"},
         NEW value, NEW new, Give(flag, value, new), phase' = "options",
         DOMAIN new = DOMAIN mixin, new.params = mixin.params
  PROVE  OptionsInv'
<1>1. /\ Taken /\ OptionsInv
      /\ \A i \in DOMAIN given : given[i].flag # flag
      /\ given' = Append(given, [flag |-> flag, value |-> value])
  BY GiveTaken, GiveAppends
<1>2. flag # "params" /\ flag \notin QueryFields
  BY DEF QueryFields
<1>3. \A f : Param(f)' = Param(f)
  BY <1>2, GiveParam
<1>4. \A f \in QueryFields : AskedFor(f)' = AskedFor(f)
  BY <1>1, <1>2, AskedAppended
<1>5. new.params.query = [f \in QueryFields |-> AskedFor(f)']
  <2>1. new.params.query = [f \in QueryFields |-> AskedFor(f)]
    BY <1>1 DEF OptionsInv
  <2>2. QED
    BY <1>4, <2>1
<1>6. \A f \in {"globalManifest", "manifest", "lockfile"} :
          /\ new.params[f] = SourceFromJSON(f, Param(f)')
          /\ new.params[f] # Refused
  BY <1>1, <1>3 DEF OptionsInv
<1>7. QED
  BY <1>2, <1>5, <1>6, GivenOptions

LEMMA WithOption ==
  ASSUME SessionInv, NEW field \in {"gaRegistry", "globalManifest", "manifest", "lockfile", "input"},
         NEW value, NEW v, NEW new, Give(field, value, new), new = With(field, v),
         phase' = "options"
  PROVE  /\ OptionsInv' /\ v # Refused /\ mixin'[field] = v
         /\ \A f \in {"globalManifest", "manifest", "lockfile"} : f # field => mixin'[f] = mixin[f]
<1>1. mixin' = new /\ OptionsInv /\ Taken
  BY GiveTaken
<1>2. new # Refused
  BY GiveTaken
<1>3. v # Refused /\ mixin' = [mixin EXCEPT ![field] = v]
  BY <1>1, <1>2 DEF With
<1>4. DOMAIN mixin = {"gaRegistry", "params", "globalManifest", "manifest", "lockfile", "input"}
  BY <1>1, MixinFields
<1>5. /\ DOMAIN mixin' = DOMAIN mixin /\ mixin'.params = mixin.params
      /\ mixin'[field] = v
      /\ \A f \in {"globalManifest", "manifest", "lockfile"} : f # field => mixin'[f] = mixin[f]
  BY <1>3, <1>4
<1>6. OptionsInv'
  BY <1>1, <1>5, PlainOption
<1>7. QED
  BY <1>3, <1>5, <1>6

LEMMA GiveGARegistryStep ==
  ASSUME SessionInv, GiveGARegistry
  PROVE  SessionInv'
<1>1. ASSUME phase' = "options" PROVE OptionsInv' /\ MixinInv'
  <2>1. PICK value, new : new = With("gaRegistry", value) /\ Give("gaRegistry", value, new)
    BY DEF GiveGARegistry, Give
  <2>2. /\ OptionsInv'
        /\ \A f \in {"globalManifest", "manifest", "lockfile"} : mixin'[f] = mixin[f]
    BY <1>1, <2>1, WithOption
  <2>3. /\ ParsedLock' = ParsedLock
        /\ ManifestFor("globalManifest", GlobalManifest)' = ManifestFor("globalManifest", GlobalManifest)
        /\ ManifestFor("manifest", Manifest)' = ManifestFor("manifest", Manifest)
    BY <1>1, <2>1, GiveNoLock, GiveManifests
  <2>4. phase = "options" /\ Taken /\ MixinInv /\ UNCHANGED command
    BY <1>1, <2>1, GiveTaken
  <2>5. QED
    BY <1>1, <2>2, <2>3, <2>4 DEF MixinInv
<1>2. QED
  BY <1>1, GiveStep DEF GiveGARegistry

LEMMA GiveGlobalManifestStep ==
  ASSUME SessionInv, NEW path, GiveGlobalManifest(path)
  PROVE  SessionInv'
<1> DEFINE m == ManifestFile(path, GlobalManifest)
<1>1. ASSUME phase' = "options" PROVE OptionsInv' /\ MixinInv'
  <2>1. PICK new : new = With("globalManifest", m) /\ Give("globalManifest", path, new)
    BY DEF GiveGlobalManifest, Give
  <2>2. /\ OptionsInv' /\ m # Refused /\ mixin'.globalManifest = m
        /\ mixin'.manifest = mixin.manifest /\ mixin'.lockfile = mixin.lockfile
    BY <1>1, <2>1, WithOption
  <2>3. /\ ParsedLock' = ParsedLock
        /\ ManifestFor("globalManifest", GlobalManifest)' = m
        /\ ManifestFor("manifest", Manifest)' = ManifestFor("manifest", Manifest)
    BY <1>1, <2>1, GiveNoLock, GiveManifests
  <2>4. phase = "options" /\ Taken /\ MixinInv /\ UNCHANGED command
    BY <1>1, <2>1, GiveTaken
  <2>5. QED
    BY <1>1, <2>2, <2>3, <2>4 DEF MixinInv
<1>2. QED
  BY <1>1, GiveStep DEF GiveGlobalManifest

LEMMA GiveManifestStep ==
  ASSUME SessionInv, NEW path, GiveManifest(path)
  PROVE  SessionInv'
<1> DEFINE m == ManifestFile(path, Manifest)
<1>1. ASSUME phase' = "options" PROVE OptionsInv' /\ MixinInv'
  <2>1. PICK new : new = With("manifest", m) /\ Give("manifest", path, new)
    BY DEF GiveManifest, Give
  <2>2. /\ OptionsInv' /\ m # Refused /\ mixin'.manifest = m
        /\ mixin'.globalManifest = mixin.globalManifest /\ mixin'.lockfile = mixin.lockfile
    BY <1>1, <2>1, WithOption
  <2>3. /\ ParsedLock' = ParsedLock
        /\ ManifestFor("globalManifest", GlobalManifest)' = ManifestFor("globalManifest", GlobalManifest)
        /\ ManifestFor("manifest", Manifest)' = m
    BY <1>1, <2>1, GiveNoLock, GiveManifests
  <2>4. phase = "options" /\ Taken /\ MixinInv /\ UNCHANGED command
    BY <1>1, <2>1, GiveTaken
  <2>5. QED
    BY <1>1, <2>2, <2>3, <2>4 DEF MixinInv
<1>2. QED
  BY <1>1, GiveStep DEF GiveManifest

LEMMA GiveLockfileStep ==
  ASSUME SessionInv, NEW path, GiveLockfile(path)
  PROVE  SessionInv'
<1> DEFINE l == LockFile(path)
<1>1. ASSUME phase' = "options" PROVE OptionsInv' /\ MixinInv'
  <2>1. PICK new : new = With("lockfile", l) /\ Give("lockfile", path, new)
    BY DEF GiveLockfile, Give
  <2>2. /\ OptionsInv' /\ l # Refused /\ mixin'.lockfile = l
        /\ mixin'.globalManifest = mixin.globalManifest /\ mixin'.manifest = mixin.manifest
    BY <1>1, <2>1, WithOption
  <2>3. /\ ParsedLock' = l
        /\ ManifestFor("globalManifest", GlobalManifest)' = ManifestFor("globalManifest", GlobalManifest)
        /\ ManifestFor("manifest", Manifest)' = ManifestFor("manifest", Manifest)
    BY <1>1, <2>1, GiveLock, GiveManifests
  <2>4. phase = "options" /\ Taken /\ MixinInv /\ UNCHANGED command
    BY <1>1, <2>1, GiveTaken
  <2>5. QED
    BY <1>1, <2>2, <2>3, <2>4 DEF MixinInv
<1>2. QED
  BY <1>1, GiveStep DEF GiveLockfile

LEMMA GiveInputStep ==
  ASSUME SessionInv, NEW name, GiveInput(name)
  PROVE  SessionInv'
<1>1. ASSUME phase' = "options" PROVE OptionsInv' /\ MixinInv'
  <2>1. PICK new : new = With("input", name) /\ Give("input", name, new)
    BY DEF GiveInput, Give
  <2>2. /\ OptionsInv'
        /\ \A f \in {"globalManifest", "manifest", "lockfile"} : mixin'[f] = mixin[f]
    BY <1>1, <2>1, WithOption
  <2>3. /\ ParsedLock' = ParsedLock
        /\ ManifestFor("globalManifest", GlobalManifest)' = ManifestFor("globalManifest", GlobalManifest)
        /\ ManifestFor("manifest", Manifest)' = ManifestFor("manifest", Manifest)
    BY <1>1, <2>1, GiveNoLock, GiveManifests
  <2>4. phase = "options" /\ Taken /\ MixinInv /\ UNCHANGED command
    BY <1>1, <2>1, GiveTaken
  <2>5. QED
    BY <1>1, <2>2, <2>3, <2>4 DEF MixinInv
<1>2. QED
  BY <1>1, GiveStep DEF GiveInput

LEMMA GiveDirStep ==
  ASSUME SessionInv, NEW dir, GiveDir(dir)
  PROVE  SessionInv'
<1> DEFINE path == <<dir, "manifest.lock">>
           lock == IF Exists(path) THEN LockFile(path) ELSE mixin.lockfile
           m == ManifestIn(dir)
<1>1. ASSUME phase' = "options" PROVE OptionsInv' /\ MixinInv'
  <2>1. PICK new : new = FromDir(dir) /\ Give("dir", dir, new)
    BY DEF GiveDir, Give
  <2>2. /\ phase = "options" /\ Taken /\ OptionsInv /\ MixinInv /\ UNCHANGED command
        /\ mixin' = FromDir(dir) /\ FromDir(dir) # Refused
    BY <1>1, <2>1, GiveTaken
  <2>3. /\ lock # Refused /\ m # Refused
        /\ mixin' = [mixin EXCEPT !.lockfile = lock, !.manifest = m]
    BY <2>2 DEF FromDir
  <2>4. DOMAIN mixin = {"gaRegistry", "params", "globalManifest", "manifest", "lockfile", "input"}
    BY <2>2, MixinFields
  <2>5. /\ ParsedLock' = IF Exists(path) THEN LockFile(path) ELSE None
        /\ ParsedLock = None /\ command = "search"
        /\ ManifestFor("globalManifest", GlobalManifest)' = ManifestFor("globalManifest", GlobalManifest)
    BY <1>1, <2>1, GiveDirLock, GiveManifests
  <2>6. lock = ParsedLock'
    BY <2>2, <2>5 DEF MixinInv
  <2> HIDE DEF lock, m, path
  <2>7. /\ mixin'.lockfile = lock /\ mixin'.manifest = m
        /\ mixin'.globalManifest = mixin.globalManifest /\ mixin'.params = mixin.params
        /\ DOMAIN mixin' = DOMAIN mixin
    BY <2>3, <2>4
  <2>8. OptionsInv'
    BY <1>1, <2>1, <2>2, <2>7, PlainOption
  <2>9. QED
    BY <1>1, <2>2, <2>3, <2>5, <2>6, <2>7, <2>8 DEF MixinInv
<1>2. QED
  BY <1>1, GiveStep DEF GiveDir

LEMMA GiveQueryStep ==
  ASSUME SessionInv, NEW field \in QueryFields, NEW value, GiveQuery(field, value)
  PROVE  SessionInv'
<1>1. ASSUME phase' = "options" PROVE OptionsInv' /\ MixinInv'
  <2> DEFINE query == [mixin.params.query EXCEPT ![field] = value]
             params == [mixin.params EXCEPT !.query = query]
  <2>1. PICK new : new = [mixin EXCEPT !.params = params] /\ Give(field, value, new)
    BY DEF GiveQuery, Give
  <2>2. /\ phase = "options" /\ Taken /\ OptionsInv /\ MixinInv /\ UNCHANGED command
        /\ mixin' = new /\ new # Refused
    BY <1>1, <2>1, GiveTaken
  <2>3. /\ \A i \in DOMAIN given : given[i].flag # field
        /\ given' = Append(given, [flag |-> field, value |-> value])
    BY <2>1, GiveAppends
  <2>4. /\ field # "params" /\ field # "dir" /\ field # "lockfile"
        /\ field # "globalManifest" /\ field # "manifest"
    BY DEF QueryFields
  <2>5. \A f : Param(f)' = Param(f)
    BY <1>1, <2>1, <2>4, GiveParam
  <2>6. /\ DOMAIN mixin = {"gaRegistry", "params", "globalManifest", "manifest", "lockfile", "input"}
        /\ DOMAIN mixin.params = {"globalManifest", "manifest", "lockfile", "query"}
    BY <2>2, MixinFields
  <2>7. query = [f \in QueryFields |-> AskedFor(f)']
    <3>1. mixin.params.query = [f \in QueryFields |-> AskedFor(f)]
      BY <2>2 DEF OptionsInv
    <3>2. \A f \in QueryFields : AskedFor(f)' = IF field = f THEN value ELSE AskedFor(f)
      BY <2>2, <2>3, <2>4, AskedAppended
    <3>3. QED
      BY <3>1, <3>2
  <2> HIDE DEF query
  <2>8. /\ DOMAIN params = DOMAIN mixin.params /\ params.query = query
        /\ \A f \in {"globalManifest", "manifest", "lockfile"} : params[f] = mixin.params[f]
    BY <2>6
  <2> HIDE DEF params
  <2>9. /\ DOMAIN new = DOMAIN mixin /\ new.params = params
        /\ \A f \in {"globalManifest", "manifest", "lockfile"} : new[f] = mixin[f]
    BY <2>1, <2>6
  <2>10. \A f \in {"globalManifest", "manifest", "lockfile"} :
            /\ new.params[f] = SourceFromJSON(f, Param(f)')
            /\ new.params[f] # Refused
    BY <2>2, <2>5, <2>8, <2>9 DEF OptionsInv
  <2>11. DOMAIN new.params = DOMAIN mixin.params
         /\ new.params.query = [f \in QueryFields |-> AskedFor(f)']
    BY <2>7, <2>8, <2>9
  <2>12. OptionsInv'
    BY <1>1, <2>1, <2>4, <2>9, <2>10, <2>11, GivenOptions
  <2>13. /\ ParsedLock' = ParsedLock
         /\ ManifestFor("globalManifest", GlobalManifest)' = ManifestFor("globalManifest", GlobalManifest)
         /\ ManifestFor("manifest", Manifest)' = ManifestFor("manifest", Manifest)
    BY <1>1, <2>1, <2>4, GiveNoLock, GiveManifests
  <2>14. QED
    BY <1>1, <2>2, <2>9, <2>12, <2>13 DEF MixinInv
<1>2. QED
  BY <1>1, GiveStep DEF GiveQuery

LEMMA GiveParamsStep ==
  ASSUME SessionInv, NEW json \in Values("params"), GiveParams(json)
  PROVE  SessionInv'
<1>1. ASSUME phase' = "options" PROVE OptionsInv' /\ MixinInv'
  <2> DEFINE read == ReadObject(json, DOMAIN NoParams, ReadParam)
             params == Overlay([f \in DOMAIN json |-> read[f]], mixin.params)
  <2>1. PICK new : /\ new = IF read = Refused THEN Refused ELSE [mixin EXCEPT !.params = params]
                   /\ Give("params", json, new)
    BY DEF GiveParams, Give
  <2>2. /\ phase = "options" /\ Taken /\ OptionsInv /\ MixinInv /\ UNCHANGED command
        /\ mixin' = new /\ new # Refused
    BY <1>1, <2>1, GiveTaken
  <2>3. /\ \A i \in DOMAIN given : given[i].flag # "params"
        /\ given' = Append(given, [flag |-> "params", value |-> json])
    BY <2>1, GiveAppends
  <2>4. /\ json # None /\ json # Malformed /\ DOMAIN json \subseteq DOMAIN NoParams
        /\ \A f \in DOMAIN json : read[f] = ReadParam(f, json[f]) /\ ReadParam(f, json[f]) # Refused
        /\ new = [mixin EXCEPT !.params = params]
    BY <2>1, <2>2 DEF ReadObject
  <2>5. /\ GivenFor("params")' = {json} /\ The(GivenFor("params")') = json
        /\ GivenFor("params") = {}
    BY <1>1, <2>1, GiveFrame
  <2>6. \A f : Param(f)' = Member(json, f) /\ Param(f) = None
    BY <2>5 DEF Param
  <2>7. /\ DOMAIN mixin = {"gaRegistry", "params", "globalManifest", "manifest", "lockfile", "input"}
        /\ DOMAIN mixin.params = {"globalManifest", "manifest", "lockfile", "query"}
        /\ DOMAIN NoParams = {"globalManifest", "manifest", "lockfile", "query"}
    BY <2>2, MixinFields DEF NoParams
  <2>8. /\ DOMAIN params = DOMAIN mixin.params
        /\ \A f \in DOMAIN mixin.params :
               params[f] = IF f \in DOMAIN json THEN ReadParam(f, json[f]) ELSE mixin.params[f]
    BY <2>4, <2>7 DEF Overlay
  <2> HIDE DEF params, read
  <2>9. /\ DOMAIN new = DOMAIN mixin /\ new.params = params
        /\ \A f \in {"globalManifest", "manifest", "lockfile"} : new[f] = mixin[f]
    BY <2>4, <2>7
  <2>10. ASSUME NEW f \in {"globalManifest", "manifest", "lockfile"}
         PROVE  params[f] = SourceFromJSON(f, Param(f)') /\ params[f] # Refused
    <3>1. mixin.params[f] = SourceFromJSON(f, None) /\ mixin.params[f] # Refused
      BY <2>2, <2>6 DEF OptionsInv
    <3>2. f \in DOMAIN mixin.params /\ f # "query"
      BY <2>7
    <3>3. CASE f \in DOMAIN json
      <4>1. params[f] = SourceFromJSON(f, json[f]) /\ params[f] # Refused
        BY <2>4, <2>8, <3>2, <3>3 DEF ReadParam
      <4>2. Param(f)' = json[f]
        BY <2>4, <2>6, <3>3 DEF Member
      <4>3. QED
        BY <4>1, <4>2
    <3>4. CASE f \notin DOMAIN json
      <4>1. Param(f)' = None
        BY <2>6, <3>4 DEF Member
      <4>2. QED
        BY <2>8, <3>1, <3>2, <3>4, <4>1
    <3>5. QED
      BY <3>3, <3>4
  <2>11. params["query"] = [f \in QueryFields |-> AskedFor(f)']
    <3> DEFINE q == mixin.params.query
    <3>1. q = [f \in QueryFields |-> AskedFor(f)]
      BY <2>2 DEF OptionsInv
    <3>2. \A f \in QueryFields :
              AskedFor(f)' = IF Member(Param("query")', f) # None THEN Param("query")'[f]
                             ELSE AskedFor(f)
      BY <2>2, <2>3, AskedAppended DEF QueryFields
    <3>3. CASE "query" \in DOMAIN json
      <4> DEFINE j == json["query"]
                 over == ReadPlain(j, QueryFields)
      <4>1. Param("query")' = j
        BY <2>4, <2>6, <3>3 DEF Member
      <4>2. params["query"] = QueryFromJSON(j) /\ QueryFromJSON(j) # Refused
        BY <2>4, <2>7, <2>8, <3>3 DEF ReadParam
      <4>3. over # Refused /\ QueryFromJSON(j) = MergeFields(q, over)
        BY <4>2 DEF QueryFromJSON
      <4>4. /\ j # None
            /\ \A f \in QueryFields : over[f] = IF f \in DOMAIN j THEN j[f] ELSE None
        BY <4>3 DEF ReadPlain, ReadObject, ReadValue
      <4> HIDE DEF j, over, q
      <4>5. \A f \in QueryFields : AskedFor(f)' = Or(over[f], AskedFor(f))
        BY <3>2, <4>1, <4>4 DEF Member, Or
      <4>6. MergeFields(q, over) = [f \in QueryFields |-> Or(over[f], AskedFor(f))]
        BY <3>1 DEF MergeFields
      <4>7. QED
        BY <4>2, <4>3, <4>5, <4>6
    <3>4. CASE "query" \notin DOMAIN json
      <4>1. Param("query")' = None
        BY <2>6, <3>4 DEF Member
      <4>2. \A f \in QueryFields : AskedFor(f)' = AskedFor(f)
        BY <3>2, <4>1 DEF Member
      <4>3. params["query"] = q
        BY <2>7, <2>8, <3>4
      <4>4. QED
        BY <3>1, <4>2, <4>3
    <3>5. QED
      BY <3>3, <3>4
  <2>12. OptionsInv'
    BY <1>1, <2>1, <2>4, <2>8, <2>9, <2>10, <2>11, GivenOptions
  <2>13. /\ ParsedLock' = ParsedLock
         /\ ManifestFor("globalManifest", GlobalManifest)' = ManifestFor("globalManifest", GlobalManifest)
         /\ ManifestFor("manifest", Manifest)' = ManifestFor("manifest", Manifest)
    BY <1>1, <2>1, GiveNoLock, GiveManifests
  <2>14. QED
    BY <1>1, <2>2, <2>9, <2>12, <2>13 DEF MixinInv
<1>2. QED
  BY <1>1, GiveStep DEF GiveParams
-----------------------------------------------------------------------------
(***************************************************************************)
(* The beginning of a command.                                             *)
(***************************************************************************)
CommandInv == OptionsInv /\ MixinInv /\ EnvironmentInv /\ RegistryInv /\ SearchInv

LEMMA FreshInv == Fresh => CommandInv
<1> SUFFICES ASSUME Fresh PROVE CommandInv
  OBVIOUS
<1>1. /\ phase = "options" /\ given = <<>> /\ mixin = NewMixin
      /\ env = None /\ registry = None /\ dbs = None /\ next = 1
      /\ output = <<>> /\ printed = None /\ DOMAIN given = {}
  BY DEF Fresh
<1>2. \A flag : GivenFor(flag) = {}
  BY <1>1 DEF GivenFor
<1>3. \A f : Param(f) = None
  BY <1>2 DEF Param
<1>4. \A f : AskedFor(f) = None
  <2> TAKE f
  <2>1. {i \in DOMAIN given : Sets(i, f)} = {}
    BY <1>1
  <2>2. QED
    BY <2>1 DEF AskedFor
<1>5. /\ DOMAIN mixin = DOMAIN NewMixin /\ mixin.params = NoParams
      /\ mixin.lockfile = None /\ mixin.globalManifest = None /\ mixin.manifest = None
  BY <1>1 DEF NewMixin
<1>6. /\ NoParams.query = [f \in QueryFields |-> None]
      /\ \A f \in {"globalManifest", "manifest", "lockfile"} : NoParams[f] = None
  BY DEF NoParams
<1>7. mixin.params.query = [f \in QueryFields |-> AskedFor(f)]
  BY <1>4, <1>5, <1>6
<1>8. \A f \in {"globalManifest", "manifest", "lockfile"} :
          /\ mixin.params[f] = SourceFromJSON(f, Param(f))
          /\ mixin.params[f] # Refused
  BY <1>3, <1>5, <1>6, MarkersAssumption DEF SourceFromJSON
<1>9. /\ given \in Seq(Range(given))
      /\ \A i \in DOMAIN given : given[i].flag \in Accepted[command]
      /\ \A i, j \in DOMAIN given : given[i].flag = given[j].flag => i = j
  BY <1>1
<1>10. OptionsInv
  BY <1>2, <1>5, <1>7, <1>8, <1>9 DEF OptionsInv
<1>11. /\ ParsedLock = None /\ ManifestFor("globalManifest", GlobalManifest) = None
       /\ ManifestFor("manifest", Manifest) = None
  BY <1>2 DEF ParsedLock, ManifestFor
<1>12. MixinInv
  BY <1>1, <1>5, <1>11, MarkersAssumption DEF MixinInv
<1>13. EnvironmentInv /\ RegistryInv /\ SearchInv
  BY <1>1 DEF EnvironmentInv, RegistryInv, SearchInv
<1>14. QED
  BY <1>10, <1>12, <1>13 DEF CommandInv

LEMMA InitHolds == Init => SessionInv
<1> SUFFICES ASSUME Init PROVE SessionInv
  OBVIOUS
<1>1. /\ session = 1 /\ command \in DOMAIN Accepted /\ phase = "options"
      /\ env = None /\ dbs = None /\ output = <<>> /\ printed = None /\ files = Files0
      /\ pins = [path \in LockPaths |-> [n \in Range(Lexical) |-> PinOf(Files0[path], n)]]
  BY DEF Init, Fresh
<1>2. 1 \in 1..MaxSessions
  BY PointsAssumption
<1>3. TypeOK
  BY <1>1, <1>2 DEF TypeOK
<1>4. FilesInv
  BY <1>1 DEF FilesInv
<1>5. PinsInv
  <2>1. ASSUME NEW path \in LockPaths, NEW n \in Range(Lexical), PinOf(Files0[path], n) # None
        PROVE  LET lock == LockFromJSON(Files0[path])
               IN  /\ Files0[path] # None /\ n \in DOMAIN lock.registry.inputs
                   /\ lock.registry.inputs[n].from = PinOf(Files0[path], n)
    <3>1. LockFromJSON(Files0[path]) # Refused
      BY <2>1 DEF PinOf
    <3>2. Files0[path] # None
      BY <3>1 DEF LockFromJSON, LockOf, ReadObject
    <3>3. QED
      BY <2>1, <3>2 DEF PinOf
  <2>2. QED
    BY <1>1, <2>1, LocksAssumption DEF PinsInv
<1>6. CommandInv
  BY FreshInv DEF Init
<1>7. QED
  BY <1>3, <1>4, <1>5, <1>6 DEF CommandInv, SessionInv

LEMMA NextSessionHolds ==
  ASSUME SessionInv, NextSession
  PROVE  TypeOK' /\ CommandInv'
<1>1. TypeOK'
  <2>1. session' \in 1..MaxSessions
    BY PointsAssumption DEF NextSession, SessionInv, TypeOK
  <2>2. QED
    BY <2>1 DEF NextSession, TypeOK
<1>2. Fresh'
  BY DEF NextSession, Fresh
<1>3. CommandInv'
  BY <1>2, FreshInv, PTL
<1>4. QED
  BY <1>1, <1>3

LEMMA AgainStep == SessionInv /\ Again => SessionInv'
<1> SUFFICES ASSUME SessionInv, Again PROVE SessionInv'
  OBVIOUS
<1>1. TypeOK' /\ CommandInv'
  BY NextSessionHolds DEF Again
<1>2. FilesInv' /\ PinsInv'
  BY DEF Again, SessionInv, FilesInv, PinsInv
<1>3. QED
  BY <1>1, <1>2 DEF CommandInv, SessionInv
-----------------------------------------------------------------------------
(***************************************************************************)
(* A lock that is saved: what is read from it is what was written.         *)
(***************************************************************************)
LEMMA WrittenRegistry ==
  ASSUME MarkersAreAtoms, NEW reg, IsRegistry(reg), reg.inputs # None,
         RegistryFromJSON(RegistryToJSON(reg)) # Refused
  PROVE  LET r == RegistryFromJSON(RegistryToJSON(reg))
         IN  /\ DOMAIN r.inputs = DOMAIN reg.inputs
             /\ \A n \in DOMAIN reg.inputs : r.inputs[n].from = reg.inputs[n].from
<1> DEFINE r == RegistryFromJSON(RegistryToJSON(reg))
           obj == WriteObject(reg)
           read == ReadObject(obj, DOMAIN NoRegistry, RegistryMemberFromJSON)
           own == reg.inputs
           inputs == InputsFromJSON(own)
<1>1. read # Refused /\ r = [f \in DOMAIN NoRegistry |-> Or(read[f], NoRegistry[f])]
  BY DEF RegistryFromJSON, RegistryToJSON
<1>2. /\ read = [f \in DOMAIN NoRegistry |->
                   IF f \in DOMAIN obj THEN RegistryMemberFromJSON(f, obj[f]) ELSE None]
      /\ \A f \in DOMAIN obj : RegistryMemberFromJSON(f, obj[f]) # Refused
  BY <1>1 DEF ReadObject
<1>3. "inputs" \in DOMAIN NoRegistry
  BY DEF NoRegistry
<1>4. "inputs" \in DOMAIN obj /\ obj["inputs"] = own
  BY <1>3 DEF IsRegistry, WriteObject
<1>5. \A n \in DOMAIN own : DOMAIN own[n] = {"subtrees", "from"}
  BY DEF IsRegistry
<1> HIDE DEF r, obj, read, own
<1>6. read["inputs"] = inputs /\ inputs # Refused
  BY <1>2, <1>3, <1>4 DEF RegistryMemberFromJSON
<1>7. /\ inputs = [n \in DOMAIN own |-> InputFromJSON(own[n])]
      /\ \A n \in DOMAIN own : InputFromJSON(own[n]) # Refused
  BY <1>6 DEF InputsFromJSON
<1>8. ASSUME NEW n \in DOMAIN own PROVE InputFromJSON(own[n]).from = own[n].from
  BY <1>5, <1>7 DEF InputFromJSON, ReadObject, ReadValue
<1>9. inputs # None
  BY <1>7 DEF MarkersAreAtoms
<1> HIDE DEF inputs
<1>10. r.inputs = inputs
  BY <1>1, <1>3, <1>6, <1>9 DEF Or
<1>11. QED
  BY <1>7, <1>8, <1>10 DEF r, own

LEMMA WrittenLock ==
  ASSUME MarkersAreAtoms, NEW lock, LockFromJSON(LockToJSON(lock)) # Refused
  PROVE  /\ RegistryFromJSON(RegistryToJSON(lock.registry)) # Refused
         /\ LockFromJSON(LockToJSON(lock)).registry =
                RegistryFromJSON(RegistryToJSON(lock.registry))
<1> DEFINE json == LockToJSON(lock)
           read == ReadObject(json, {"manifest", "registry"}, LockMemberFromJSON)
           reg == RegistryFromJSON(RegistryToJSON(lock.registry))
<1>1. DOMAIN json = {"manifest", "registry"}
      /\ json["registry"] = RegistryToJSON(lock.registry)
  BY DEF LockToJSON
<1> HIDE DEF json
<1>2. /\ read # Refused
      /\ read = [f \in {"manifest", "registry"} |->
                   IF f \in DOMAIN json THEN LockMemberFromJSON(f, json[f]) ELSE None]
      /\ \A f \in DOMAIN json : LockMemberFromJSON(f, json[f]) # Refused
  BY DEF LockFromJSON, LockOf, ReadObject, json
<1>3. read.registry = reg /\ reg # Refused
  BY <1>1, <1>2 DEF LockMemberFromJSON
<1>4. reg # None
  BY <1>3 DEF RegistryFromJSON, MarkersAreAtoms
<1>5. LockFromJSON(json) = [manifest |-> Or(read.manifest, EmptyManifest(Manifest)),
                            registry |-> Or(read.registry, NoRegistry)]
  BY <1>2 DEF LockFromJSON, LockOf
<1> HIDE DEF read
<1>6. LockFromJSON(json).registry = reg
  BY <1>3, <1>4, <1>5 DEF Or
<1>7. QED
  BY <1>3, <1>6 DEF json

LEMMA UpdatedInputs ==
  ASSUME MarkersAreAtoms, NEW old, IsRegistry(old), NEW own, IsRegistry(own),
         own.inputs # None, NEW name, UpdatedRegistry(old, own, name) # Refused
  PROVE  LET new == UpdatedRegistry(old, own, name)
         IN  /\ IsRegistry(new) /\ new.inputs # None
             /\ name = None => new = own
             /\ name # None =>
                  /\ DOMAIN new.inputs = {name} \cup DOMAIN old.inputs
                  /\ \A n \in DOMAIN new.inputs :
                         new.inputs[n] = IF n = name THEN own.inputs[n] ELSE old.inputs[n]
<1>1. CASE name = None
  BY <1>1 DEF UpdatedRegistry
<1>2. CASE name # None
  <2> DEFINE new == UpdatedRegistry(old, own, name)
             mine == [n \in {name} |-> own.inputs[n]]
             inputs == Overlay(mine, old.inputs)
  <2>1. DOMAIN own = DOMAIN NoRegistry /\ "inputs" \in DOMAIN NoRegistry
    BY DEF IsRegistry, NoRegistry
  <2>2. name \in DOMAIN own.inputs /\ new = [own EXCEPT !.inputs = inputs]
    BY <1>2, <2>1 DEF UpdatedRegistry
  <2>3. /\ DOMAIN inputs = {name} \cup DOMAIN old.inputs
        /\ \A n \in DOMAIN inputs :
               inputs[n] = IF n = name THEN own.inputs[n] ELSE old.inputs[n]
        /\ inputs # None
    BY DEF Overlay, MarkersAreAtoms
  <2> HIDE DEF new, inputs
  <2>4. DOMAIN new = DOMAIN own /\ new.inputs = inputs
    BY <2>1, <2>2
  <2>5. \A n \in DOMAIN inputs : DOMAIN inputs[n] = {"subtrees", "from"}
    BY <2>2, <2>3 DEF IsRegistry
  <2>6. QED
    BY <1>2, <2>1, <2>3, <2>4, <2>5 DEF IsRegistry, new
<1>3. QED
  BY <1>1, <1>2

\* What an update prints pins what it was for where its references point, and
\* leaves the rest of the old lock as it was.
LEMMA UpdatePins ==
  ASSUME MarkersAreAtoms, SessionInv, printed # None, NEW n, NEW old,
         LockFromJSON(printed) # Refused, NewPin(n, old) # None,
         /\ old # None
         /\ env.lock # None
         => n \in DOMAIN env.lock.registry.inputs /\ env.lock.registry.inputs[n].from = old
  PROVE  LET lock == LockFromJSON(printed)
         IN  /\ n \in DOMAIN lock.registry.inputs
             /\ lock.registry.inputs[n].from = NewPin(n, old)
<1> DEFINE rm == RegistryOfManifest(env.manifest)
           own == LockRegistry(rm)
           new == UpdatedRegistry(env.lock.registry, own, mixin.input)
           locked == [env.lock EXCEPT !.registry = new]
           read == LockFromJSON(printed)
<1>1. /\ env # None /\ env.lock # None /\ own # Refused /\ new # Refused
      /\ printed = LockToJSON(locked)
      /\ FilesInv /\ OptionsInv /\ MixinInv /\ EnvironmentInv
  BY DEF SessionInv, RegistryInv
<1>2. GoodManifest(env.manifest, Manifest) /\ IsLock(env.lock)
  BY <1>1, EnvironmentIsGood
<1>3. GoodRegistry(rm)
  BY <1>2, RegistryOfGood
<1> HIDE DEF rm
<1>4. /\ IsRegistry(own) /\ own.inputs # None /\ DOMAIN own.inputs = DOMAIN rm.inputs
      /\ \A k \in DOMAIN own.inputs : own.inputs[k].from = Target(rm.inputs[k].from)
  BY <1>1, <1>3, LockedRegistry DEF GoodRegistry
<1> HIDE DEF own
<1>5. /\ IsRegistry(new) /\ new.inputs # None
      /\ mixin.input = None => new = own
      /\ mixin.input # None =>
           /\ DOMAIN new.inputs = {mixin.input} \cup DOMAIN env.lock.registry.inputs
           /\ \A k \in DOMAIN new.inputs :
                  new.inputs[k] = IF k = mixin.input THEN own.inputs[k]
                                  ELSE env.lock.registry.inputs[k]
  BY <1>1, <1>2, <1>4, UpdatedInputs DEF IsLock
<1>6. mixin.input # None => mixin.input \in DOMAIN own.inputs
  BY <1>1 DEF UpdatedRegistry
<1> HIDE DEF new
<1>7. locked.registry = new
  BY <1>2 DEF IsLock
<1> HIDE DEF locked
<1>8. /\ DOMAIN read.registry.inputs = DOMAIN new.inputs
      /\ \A k \in DOMAIN new.inputs : read.registry.inputs[k].from = new.inputs[k].from
  BY <1>1, <1>5, <1>7, WrittenLock, WrittenRegistry
<1> HIDE DEF read
<1>9. n \in DOMAIN new.inputs /\ new.inputs[n].from = NewPin(n, old)
  <2>1. CASE mixin.input \notin {None, n}
    <3>1. NewPin(n, old) = old
      BY <2>1 DEF NewPin
    <3>2. QED
      BY <1>1, <1>5, <2>1, <3>1
  <2>2. CASE mixin.input \in {None, n}
    <3>1. n \in DOMAIN rm.inputs /\ NewPin(n, old) = Target(rm.inputs[n].from)
      BY <2>2 DEF NewPin, rm
    <3>2. QED
      BY <1>4, <1>5, <2>2, <3>1
  <2>3. QED
    BY <2>1, <2>2
<1>10. QED
  BY <1>8, <1>9 DEF read

LEMMA SaveStep ==
  ASSUME MarkersAreAtoms, SessionInv, Save
  PROVE  SessionInv'
<1>1. TypeOK' /\ CommandInv'
  BY NextSessionHolds DEF Save
<1>2. PICK path \in GivenFor("lockfile") :
         /\ files' = [files EXCEPT ![path] = printed]
         /\ pins' = [pins EXCEPT ![path] = [n \in DOMAIN @ |-> NewPin(n, @[n])]]
  BY DEF Save
<1>3. /\ FilesInv /\ PinsInv /\ OptionsInv /\ MixinInv /\ EnvironmentInv /\ RegistryInv
      /\ printed # None /\ env # None /\ env.lock # None /\ command = "update"
      /\ session \in 1..MaxSessions /\ Taken
  BY DEF SessionInv, Save, RegistryInv, TypeOK, Taken
<1>4. \E lock : printed = LockToJSON(lock)
  BY <1>3 DEF RegistryInv
<1>5. printed # None /\ DOMAIN printed = {"manifest", "registry"}
  BY <1>3, <1>4 DEF LockToJSON
<1>6. FilesInv'
  <2>1. DOMAIN files' = DOMAIN Files0 /\ DOMAIN files = DOMAIN Files0
    BY <1>2, <1>3 DEF FilesInv
  <2>2. ASSUME NEW p \in DOMAIN files'
        PROVE  \/ files'[p] = Files0[p]
               \/ files'[p] # None /\ DOMAIN files'[p] = {"manifest", "registry"}
    <3>1. CASE p = path
      BY <1>2, <1>5, <2>1, <3>1
    <3>2. CASE p # path
      BY <1>2, <1>3, <2>1, <3>2 DEF FilesInv
    <3>3. QED
      BY <3>1, <3>2
  <2>3. QED
    BY <2>1, <2>2 DEF FilesInv
<1>7. /\ path \in DOMAIN files /\ env.lock = LockFromJSON(files[path])
      /\ env.lock # Refused
  <2>1. phase # "options"
    BY <1>3 DEF EnvironmentInv
  <2>2. The(GivenFor("lockfile")) = path /\ GivenFor("lockfile") # {}
    BY <1>2, <1>3, GivenOnce
  <2>3. mixin.lockfile = LockFile(path) /\ mixin.lockfile # Refused
    BY <1>3, <2>1, <2>2 DEF MixinInv, ParsedLock
  <2>4. env.lock = mixin.lockfile
    BY <1>3, EnvironmentIsGood
  <2>5. QED
    BY <2>3, <2>4 DEF LockFile, Exists
<1>8. ASSUME NEW n \in Range(Lexical), path \in LockPaths
      PROVE  /\ pins'[path][n] # None =>
                  \A s \in 1..MaxSessions : pins'[path][n] \notin DOMAIN Points[s]
             /\ LockFromJSON(files'[path]) # Refused /\ pins'[path][n] # None =>
                  /\ n \in DOMAIN LockFromJSON(files'[path]).registry.inputs
                  /\ LockFromJSON(files'[path]).registry.inputs[n].from = pins'[path][n]
  <2> DEFINE old == pins[path][n]
  <2>1. /\ path \in DOMAIN pins /\ DOMAIN pins[path] = Range(Lexical)
        /\ old # None => \A s \in 1..MaxSessions : old \notin DOMAIN Points[s]
        /\ old # None => /\ n \in DOMAIN env.lock.registry.inputs
                         /\ env.lock.registry.inputs[n].from = old
    BY <1>3, <1>7, <1>8 DEF PinsInv
  <2>2. pins'[path][n] = NewPin(n, old)
    BY <1>2, <2>1
  <2>3. files'[path] = printed
    BY <1>2, <1>7
  <2> HIDE DEF old
  <2>4. NewPin(n, old) # None => \A s \in 1..MaxSessions : NewPin(n, old) \notin DOMAIN Points[s]
    BY <1>3, <2>1, TargetTwice DEF NewPin
  <2>5. LockFromJSON(printed) # Refused /\ NewPin(n, old) # None =>
           /\ n \in DOMAIN LockFromJSON(printed).registry.inputs
           /\ LockFromJSON(printed).registry.inputs[n].from = NewPin(n, old)
    BY <1>3, <2>1, UpdatePins
  <2>6. QED
    BY <2>2, <2>3, <2>4, <2>5
<1>9. PinsInv'
  <2>1. DOMAIN pins' = LockPaths
    BY <1>2, <1>3 DEF PinsInv
  <2>2. ASSUME NEW p \in LockPaths
        PROVE  /\ DOMAIN pins'[p] = Range(Lexical)
               /\ \A n \in Range(Lexical) :
                    LET lock == LockFromJSON(files'[p])
                    IN  /\ pins'[p][n] # None => files'[p] # None
                        /\ pins'[p][n] # None =>
                               \A s \in 1..MaxSessions : pins'[p][n] \notin DOMAIN Points[s]
                        /\ lock # Refused /\ pins'[p][n] # None =>
                               /\ n \in DOMAIN lock.registry.inputs
                               /\ lock.registry.inputs[n].from = pins'[p][n]
    <3>1. CASE p = path
      <4>1. DOMAIN pins'[p] = Range(Lexical) /\ files'[p] # None
        BY <1>2, <1>3, <1>5, <1>7, <3>1 DEF PinsInv
      <4>2. QED
        BY <1>8, <3>1, <4>1
    <3>2. CASE p # path
      <4>1. pins'[p] = pins[p] /\ files'[p] = files[p]
        BY <1>2, <3>2
      <4>2. QED
        BY <1>3, <4>1 DEF PinsInv
    <3>3. QED
      BY <3>1, <3>2
  <2>3. QED
    BY <2>1, <2>2 DEF PinsInv
<1>10. QED
  BY <1>1, <1>6, <1>9 DEF CommandInv, SessionInv
-----------------------------------------------------------------------------
(***************************************************************************)
(* The theorems.                                                           *)
(***************************************************************************)
LEMMA StutterStep ==
  ASSUME SessionInv, UNCHANGED vars
  PROVE  SessionInv'
<1>1. UNCHANGED <<session, phase, command, given, mixin, env, registry, dbs, args, next,
                  output, printed, cached, files, pins>>
  BY DEF vars, commandVars
<1>2. /\ TypeOK /\ OptionsInv /\ MixinInv /\ EnvironmentInv /\ RegistryInv /\ SearchInv
      /\ FilesInv /\ PinsInv
  BY DEF SessionInv
<1>3. Taken' <=> Taken
  BY <1>1 DEF Taken
<1>4. /\ EnvironmentOf' = EnvironmentOf /\ \A e : CombinedRegistryOf(e)' = CombinedRegistryOf(e)
      /\ \A reg : LockRegistry(reg)' = LockRegistry(reg)
      /\ \A ref : Target(ref)' = Target(ref)
      /\ \A f, default : SourceOr(f, default)' = SourceOr(f, default)
  BY <1>1, SameMixin
<1>5. TypeOK' /\ FilesInv' /\ PinsInv'
  BY <1>1, <1>2 DEF TypeOK, FilesInv, PinsInv
<1>6. OptionsInv'
  BY <1>1, <1>2, <1>3, OptionsKept
<1>7. MixinInv'
  <2>1. ParsedLock' = ParsedLock /\ \A f, kind : ManifestFor(f, kind)' = ManifestFor(f, kind)
    BY <1>1, SameOptions
  <2>2. QED
    BY <1>1, <1>2, <1>3, <1>4, <2>1 DEF MixinInv
<1>8. EnvironmentInv'
  BY <1>1, <1>2, <1>4 DEF EnvironmentInv
<1>9. RegistryInv'
  BY <1>1, <1>2, <1>4 DEF RegistryInv
<1>10. SearchInv'
  <2>1. Query' = Query
    BY <1>1 DEF Query
  <2>2. \A i : RevOf(i)' = RevOf(i)
    BY <1>1, <1>4 DEF RevOf
  <2>3. \A rev : Visible(rev)' = Visible(rev)
    BY <1>1 DEF Visible
  <2>4. \A input : SubtreesOf(input)' = SubtreesOf(input)
    BY <1>4 DEF SubtreesOf
  <2>5. \A i : PrefixesOf(i)' = PrefixesOf(i)
    BY <1>1, <2>2, <2>4 DEF PrefixesOf
  <2>6. QED
    BY <1>1, <1>2, <2>1, <2>2, <2>3, <2>5 DEF SearchInv
<1>11. QED
  BY <1>5, <1>6, <1>7, <1>8, <1>9, <1>10 DEF SessionInv

LEMMA SessionStep ==
  ASSUME MarkersAreAtoms
  PROVE  SessionInv /\ [Next]_vars => SessionInv'
<1> SUFFICES ASSUME SessionInv, [Next]_vars PROVE SessionInv'
  OBVIOUS
<1>1. CASE GiveGARegistry
  BY <1>1, GiveGARegistryStep
<1>2. ASSUME NEW path \in Values("globalManifest"), GiveGlobalManifest(path) PROVE SessionInv'
  BY <1>2, GiveGlobalManifestStep
<1>3. ASSUME NEW path \in Values("manifest"), GiveManifest(path) PROVE SessionInv'
  BY <1>3, GiveManifestStep
<1>4. ASSUME NEW path \in Values("lockfile"), GiveLockfile(path) PROVE SessionInv'
  BY <1>4, GiveLockfileStep
<1>5. ASSUME NEW name \in Values("input"), GiveInput(name) PROVE SessionInv'
  BY <1>5, GiveInputStep
<1>6. ASSUME NEW dir \in Values("dir"), GiveDir(dir) PROVE SessionInv'
  BY <1>6, GiveDirStep
<1>7. ASSUME NEW field \in QueryFields, NEW value \in Values(field), GiveQuery(field, value)
      PROVE  SessionInv'
  BY <1>7, GiveQueryStep
<1>8. ASSUME NEW json \in Values("params"), GiveParams(json) PROVE SessionInv'
  BY <1>8, GiveParamsStep
<1>9. CASE InitEnvironment
  BY <1>9, InitEnvironmentStep
<1>10. CASE GetEnvironment
  BY <1>10, GetEnvironmentStep
<1>11. CASE GetCombinedRegistry
  BY <1>11, GetCombinedRegistryStep
<1>12. CASE Update
  BY <1>12, UpdateStep
<1>13. CASE OpenRegistry
  BY <1>13, OpenRegistryStep
<1>14. CASE ScrapeInput
  BY <1>14, ScrapeInputStep
<1>15. CASE SearchInput
  BY <1>15, SearchInputStep
<1>16. CASE Fail
  BY <1>16, FailStep
<1>17. CASE Save
  BY <1>17, SaveStep
<1>18. CASE Again
  BY <1>18, AgainStep
<1>19. CASE UNCHANGED vars
  BY <1>19, StutterStep
<1>20. QED
  BY <1>1, <1>2, <1>3, <1>4, <1>5, <1>6, <1>7, <1>8, <1>9, <1>10, <1>11, <1>12, <1>13,
     <1>14, <1>15, <1>16, <1>17, <1>18, <1>19 DEF Next

\* Each step of a command finds what the step before it has left, whichever
\* files, options and sessions came before.
THEOREM SessionInvariant == ASSUME MarkersAreAtoms PROVE Spec => []SessionInv
<1>1. Init => SessionInv
  BY InitHolds
<1>2. SessionInv /\ [Next]_vars => SessionInv'
  BY SessionStep
<1>3. QED
  BY <1>1, <1>2, PTL DEF Spec

\* A command only goes on with structures that the next step can read, and
\* opens each input once (getPkgDbRegistry()).
THEOREM SessionTypes == ASSUME MarkersAreAtoms PROVE Spec => []TypeOK
<1>1. SessionInv => TypeOK
  BY DEF SessionInv
<1>2. QED
  BY <1>1, SessionInvariant, PTL

\* A search prints under the name of an input only packages of the revision
\* that was opened, that the query asks for and the merged options allow,
\* whatever order the options came in (EnvironmentMixin, SearchCommand::run()).
THEOREM OnlyWantedIsPrinted == ASSUME MarkersAreAtoms PROVE Spec => []PrintedIsWanted
<1>1. SessionInv => PrintedIsWanted
  BY PrintedIsWantedHolds
<1>2. QED
  BY <1>1, SessionInvariant, PTL

\* A search that ends well has printed all of them, of the subtrees the input
\* is for and the systems of the manifest (scrapeSystems()).
THEOREM SearchIsComplete == ASSUME MarkersAreAtoms PROVE Spec => []NothingLeftOut
<1>1. SessionInv => NothingLeftOut
  BY NothingLeftOutHolds
<1>2. QED
  BY <1>1, SessionInvariant, PTL

\* With --ga-registry nothing but a lock moves an input away from where the
\* hard coded registry has it (initManifest(), lockRegistry()).
THEOREM GARegistryIsUsed == ASSUME MarkersAreAtoms PROVE Spec => []GARegistryOnly
<1>1. SessionInv => GARegistryOnly
  BY GARegistryOnlyHolds
<1>2. QED
  BY <1>1, SessionInvariant, PTL

\* An input that a lock pins stays at the revision that the last update of it
\* has found, in every later command that reads the lock (UpdateCommand::run(),
\* Environment::getCombinedRegistryRaw()).
THEOREM LockPinsHold == ASSUME MarkersAreAtoms PROVE Spec => []PinsHold
<1>1. SessionInv => PinsHold
  BY PinsHoldHolds
<1>2. QED
  BY <1>1, SessionInvariant, PTL
=============================================================================
