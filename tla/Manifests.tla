----------------------------- MODULE Manifests -----------------------------
(***************************************************************************)
(* Manifests (src/resolver/manifest-raw.cc): how the four kinds of them    *)
(* are read from JSON, checked, written, and turned into one another, what *)
(* their options merge to, and the descriptors of an environment           *)
(* (resolver/manifest.hh).                                                 *)
(*                                                                         *)
(* The members of JSON objects are named like the fields they are read     *)
(* into.                                                                   *)
(***************************************************************************)
EXTENDS Inputs

(***************************************************************************)
(* Options.                                                                *)
(***************************************************************************)
AllowFields == {"unfree", "broken", "licenses"}
SemverFields == {"preferPreReleases"}
OptionFields == {"systems", "allow", "semver", "packageGroupingStrategy",
                 "activationStrategy"}

NoOptions == [f \in OptionFields |-> None]

\* A null `semver' is refused, unlike any other member.
OptionsFromJSON(json) ==
    LET Read(f, v) ==
            CASE f = "allow" /\ v # None -> ReadPlain(v, AllowFields)
              [] f = "semver" -> ReadPlain(v, SemverFields)
              [] OTHER -> ReadValue(v)
    IN  IF json = None THEN None ELSE ReadObject(json, OptionFields, Read)

Written(struct) == IF struct = None THEN None ELSE WriteObject(struct)

OptionsToJSON(opts) ==
    IF opts = None THEN None
    ELSE WriteObject([opts EXCEPT !.allow = Written(@), !.semver = Written(@)])

MergeFields(base, over) == [f \in DOMAIN base |-> Or(over[f], base[f])]

MergeOptional(base, over) ==
    IF base = None \/ over = None THEN Or(over, base) ELSE MergeFields(base, over)

\* Options::merge(), and a mutant that takes `allow' as a whole.
MergeOptions_WholeAllow(base, over) ==
    [MergeFields(base, over) EXCEPT !.semver = MergeOptional(base.semver, over.semver)]
MergeOptions(base, over) ==
    [MergeFields(base, over) EXCEPT !.allow = MergeOptional(base.allow, over.allow),
                                    !.semver = MergeOptional(base.semver, over.semver)]

Field(struct, f) == IF struct = None THEN None ELSE struct[f]

\* Options::operator PkgQueryArgs(), ManifestBase::getBaseQueryArgs().
ArgsOf(opts) ==
    [NoArgs EXCEPT
        !.systems = Or(opts.systems, @),
        !.allowUnfree = Or(Field(opts.allow, "unfree"), @),
        !.allowBroken = Or(Field(opts.allow, "broken"), @),
        !.licenses = Field(opts.allow, "licenses"),
        !.preferPreReleases = Or(Field(opts.semver, "preferPreReleases"), @)]

\* Environment::getCombinedOptions(), of the global manifest, the manifest of
\* the old lock and the environment's own.
Over(base, options) == IF options = None THEN base ELSE MergeOptions(base, options)

CombinedOptions(global, old, own) == Over(Over(Over(NoOptions, global), old), own)

(***************************************************************************)
(* The members of manifests.                                               *)
(***************************************************************************)
GlobalManifestGA == {"options"}
GlobalManifest == GlobalManifestGA \cup {"registry"}
ManifestGA == GlobalManifestGA \cup {"install", "vars", "hook"}
Manifest == ManifestGA \cup {"registry", "envBase"}

EmptyManifest(kind) == [f \in kind |-> None]

\* HookRaw, EnvBaseRaw: at most one of two members.
AtMostOne(struct) == \A f, g \in DOMAIN struct : f = g \/ None \in {struct[f], struct[g]}
OneOfFromJSON(json, fields) ==
    LET read == ReadPlain(json, fields)
    IN  IF read = Refused \/ ~AtMostOne(read) THEN Refused ELSE read

InstallFromJSON(json) ==
    IF json = Malformed \/ \E i \in DOMAIN json : FromJSON(json[i]) = Refused
    THEN Refused ELSE [i \in DOMAIN json |-> FromJSON(json[i])]

\* A variable has a value.
VarsFromJSON(json) ==
    IF json = Malformed \/ \E v \in DOMAIN json : json[v] \in {None, Malformed}
    THEN Refused ELSE json

MemberFromJSON(f, json) ==
    IF json = None THEN None
    ELSE CASE f = "registry" -> RegistryFromJSON(json)
           [] f = "options" -> OptionsFromJSON(json)
           [] f = "install" -> InstallFromJSON(json)
           [] f = "vars" -> VarsFromJSON(json)
           [] f = "hook" -> OneOfFromJSON(json, {"script", "file"})
           [] f = "envBase" -> OneOfFromJSON(json, {"floxhub", "dir"})

(***************************************************************************)
(* check().  Only an environment's own registry is checked; one that lacks *)
(* a reference fails as well.                                              *)
(***************************************************************************)
Has(m, f) == f \in DOMAIN m /\ m[f] # None

ValidManifest(m) ==
    /\ Has(m, "install") =>
           \A i \in DOMAIN m.install : m.install[i] # None => ValidRaw(m.install[i])
    /\ Has(m, "hook") => AtMostOne(m.hook)
    /\ Has(m, "envBase") => AtMostOne(m.envBase)
    /\ DOMAIN m = Manifest /\ Has(m, "registry") =>
           \A n \in DOMAIN m.registry.inputs : Reachable(m.registry.inputs[n])

Checked(m) == IF m = Refused \/ ~ValidManifest(m) THEN Refused ELSE m

ManifestFromJSON(json, kind) == Checked(ReadObject(json, kind, MemberFromJSON))

ManifestToJSON(m) ==
    LET Write(f) == CASE f = "options" -> OptionsToJSON(m[f])
                      [] f = "install" -> [i \in DOMAIN m[f] |-> ToJSON(m[f][i])]
                      [] f = "registry" -> RegistryToJSON(m[f])
                      [] f \in {"hook", "envBase"} -> WriteObject(m[f])
                      [] OTHER -> m[f]
    IN  IF ValidManifest(m) THEN [f \in {g \in DOMAIN m : m[g] # None} |-> Write(f)] ELSE Refused

(***************************************************************************)
(* The GA forms have no registry of their own: theirs is the GA registry.  *)
(***************************************************************************)
ToGA(m) ==
    IF Has(m, "registry") /\ ~Equals(m.registry, GARegistry) THEN Refused
    ELSE [f \in DOMAIN m \cap ManifestGA |-> m[f]]

FromGA(m, kind) ==
    [f \in kind |-> IF f = "registry" THEN GARegistry
                    ELSE IF f \in DOMAIN m THEN m[f] ELSE None]

\* ManifestBase::initRegistry().
RegistryOfManifest(m) ==
    IF "registry" \in DOMAIN m THEN Or(m.registry, NoRegistry) ELSE GARegistry

\* ManifestBase::getSystems().
SystemsOf(m) == Or(Field(m.options, "systems"), <<ThisSystem>>)

(***************************************************************************)
(* EnvironmentManifestBase: the descriptors, and that their systems are    *)
(* systems of the manifest.                                                *)
(***************************************************************************)
DescriptorsOf(m) ==
    IF m.install = None THEN [i \in {} |-> None]
    ELSE [i \in DOMAIN m.install |-> InstalledDescriptor(i, m.install[i])]

EnvironmentManifest(m) ==
    LET descriptors == DescriptorsOf(m)
        systems == Field(m.options, "systems")
    IN  IF /\ ValidManifest(m)
           /\ \A i \in DOMAIN descriptors :
                 /\ descriptors[i] # Refused
                 /\ descriptors[i].systems # None =>
                        /\ systems # None
                        /\ ToSet(descriptors[i].systems) \subseteq ToSet(systems)
        THEN descriptors ELSE Refused
=============================================================================
