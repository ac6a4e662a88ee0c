------------------------------- MODULE Lookup -------------------------------
(***************************************************************************)
(* From an entry of a manifest to a package: how Environment looks a       *)
(* descriptor up in one input for one system.                              *)
(*                                                                         *)
(* An entry is written into a manifest, the manifest is read and checked,  *)
(* may be written to a lockfile and read back, and makes a descriptor; the *)
(* options of the global manifest, of the old lock's manifest and of the   *)
(* manifest are merged; the arguments of a query are filled from these,    *)
(* the input and the descriptor in turn; and the first row of the query is *)
(* taken.  A descriptor may also be written as a string, for the command   *)
(* `parse descriptor', which prints the query it stands for.               *)
(***************************************************************************)
EXTENDS Manifests

CONSTANTS
    Iid,                \* the entry's install ID
    Entries,            \* entries, as JSON
    Strings,            \* descriptors written as strings
    GlobalOptions, OldOptions, ManifestOptions, \* `options', as JSON
    Reg,                \* the registry
    Catalog             \* the rows of an input's database

\* A path as a text has its parts, without nulls; as a list it may have nulls.
IsPath(path) ==
    /\ path.list \in BOOLEAN /\ path.parts \in Seq(Range(path.parts))
    /\ path.list \/ None \notin Range(path.parts)

\* A member that can be read is a value of its type.
IsEntry(e) ==
    e \notin {None, Malformed} =>
        \A f \in DOMAIN e : e[f] \notin {None, Malformed} =>
            /\ f = "version" => e[f] \in Texts
            /\ f \in {"path", "absPath"} => IsPath(e[f])
            /\ f = "path" => None \notin Range(e[f].parts)

ASSUME EntriesAssumption == Iid # None /\ \A e \in Entries : IsEntry(e)

ASSUME StringsAssumption ==
    None \notin Strings /\ \A s \in Strings :
        /\ s.parts \in Seq(Range(s.parts)) /\ s.version \in Texts \cup {None}
        /\ {None, Refused, Malformed} \cap Range(s.parts) = {}
        /\ s.input \notin {Refused, Malformed}

\* These manifests were read before the look-up.
ASSUME OptionsAssumption ==
    \A options \in GlobalOptions \cup OldOptions : OptionsFromJSON(options) # Refused

ASSUME RegAssumption ==
    \A n \in DOMAIN Reg.inputs :
        PreferredSubtrees(Reg, n) # None => PreferredSubtrees(Reg, n) \in Seq(Subtrees)

\* A row as the scraper writes it (PkgDb::addPackage()).
IsRow(row) ==
    /\ row.relPath \in Seq(Range(row.relPath)) /\ row.relPath # <<>>
    /\ {row.pname, AttrName(row)} \subseteq DOMAIN Alphabet
    /\ row.version \in Texts \cup {None}
    /\ row.semver = IF row.version = None THEN None ELSE CoerceSemver(row.version)

ASSUME CatalogAssumption ==
    /\ Alphabet \in [DOMAIN Alphabet -> Int]
    /\ IsFiniteSet(Catalog) /\ None \notin Catalog /\ \A row \in Catalog : IsRow(row)

VARIABLES
    stage,      \* how far the lookup has come
    string,     \* the string a descriptor was written as, or None
    entry,      \* the entry that was written
    settings,   \* the `options' that were written with it
    manifest,   \* ManifestRaw
    desc,       \* ManifestDescriptor
    request,    \* the system and the input to look in, and the other options
    args,       \* PkgQueryArgs
    found       \* the row that was found, or None

vars == <<stage, string, entry, settings, manifest, desc, request, args, found>>

Stages == {"start", "manifest", "descriptor", "query", "printed", "done", "refused"}

Init ==
    /\ stage = "start"
    /\ string = None /\ entry = None /\ settings = None /\ manifest = None
    /\ desc = None /\ request = None /\ args = None /\ found = None

\* An exception ends the command.
Reach(next, result) == stage' = IF result = Refused THEN "refused" ELSE next

(***************************************************************************)
(* The string form.                                                        *)
(***************************************************************************)
Parse(s) ==
    /\ stage = "start"
    /\ LET raw == ParseString(s)
           parsed == IF raw = Refused THEN Refused ELSE DescriptorOf(raw)
       IN  /\ Reach("descriptor", parsed)
           /\ desc' = parsed
    /\ string' = s
    /\ UNCHANGED <<entry, settings, manifest, request, args, found>>

PrintQuery ==
    /\ stage = "descriptor" /\ string # None
    /\ args' = FillArgs(desc, NoArgs)
    /\ Reach("printed", args')
    /\ UNCHANGED <<string, entry, settings, manifest, desc, request, found>>

(***************************************************************************)
(* The manifest.                                                           *)
(***************************************************************************)
ManifestOf(e, options) ==
    ManifestFromJSON([install |-> [i \in {Iid} |-> e], options |-> options], Manifest)

ReadManifest(e, options) ==
    /\ stage = "start"
    /\ entry' = e /\ settings' = options
    /\ manifest' = ManifestOf(e, options)
    /\ Reach("manifest", manifest')
    /\ UNCHANGED <<string, desc, request, args, found>>

\* The manifest as the lockfile has it.
ReadBack ==
    /\ stage = "manifest"
    /\ manifest' = ManifestFromJSON(ManifestToJSON(manifest), Manifest)
    /\ Reach("manifest", manifest')
    /\ UNCHANGED <<string, entry, settings, desc, request, args, found>>

MakeDescriptor ==
    /\ stage = "manifest"
    /\ LET descriptors == EnvironmentManifest(manifest)
       IN  /\ Reach("descriptor", descriptors)
           /\ desc' = IF descriptors = Refused THEN Refused ELSE descriptors[Iid]
    /\ UNCHANGED <<string, entry, settings, manifest, request, args, found>>

(***************************************************************************)
(* tryResolveDescriptorIn().                                               *)
(***************************************************************************)
QueryArgs(options, input, system) ==
    LET base == FillFromRegistry(Reg, input, ArgsOf(options))
        filled == FillArgs(desc, base)
    IN  IF filled = Refused THEN Refused
        ELSE LET limited == [filled EXCEPT !.systems = <<system>>]
             IN  IF ValidArgs(limited) THEN limited ELSE Refused

Skips(system) == desc.systems # None /\ system \notin ToSet(desc.systems)

TryResolveIn(global, old, input, system) ==
    LET options == CombinedOptions(OptionsFromJSON(global), OptionsFromJSON(old), manifest.options)
    IN  /\ stage = "descriptor" /\ string = None
        /\ system \in ToSet(SystemsOf(manifest))
        /\ request' = [system |-> system, input |-> input, global |-> global, old |-> old]
        /\ IF Skips(system) THEN stage' = "done" /\ args' = None
           ELSE args' = QueryArgs(options, input, system) /\ Reach("query", args')
        /\ UNCHANGED <<string, entry, settings, manifest, desc, found>>

RunQuery ==
    /\ stage = "query"
    /\ LET rows == Firsts(Catalog, args)
       IN  found' \in IF rows = {} THEN {None} ELSE rows
    /\ stage' = "done"
    /\ UNCHANGED <<string, entry, settings, manifest, desc, request, args>>

Next ==
    \/ \E s \in Strings : Parse(s)
    \/ PrintQuery
    \/ \E e \in Entries, options \in ManifestOptions : ReadManifest(e, options)
    \/ ReadBack
    \/ MakeDescriptor
    \/ \E g \in GlobalOptions, o \in OldOptions, n \in DOMAIN Reg.inputs, s \in AllSystems :
           TryResolveIn(g, o, n, s)
    \/ RunQuery

Spec == Init /\ [][Next]_vars
-----------------------------------------------------------------------------
(* Every intermediate structure is one that the next step can read: a      *)
(* descriptor has a version or a range and not both, no glob is left in    *)
(* its path, its subtree is one of the two that exist, and the arguments   *)
(* of a query pass PkgQueryArgs::check().                                  *)
TypeOK ==
    /\ stage \in Stages
    /\ string \in Strings \cup {None}
    /\ entry \in Entries \cup {None}
    /\ stage \in {"manifest", "descriptor", "query", "done"} /\ string = None =>
           DOMAIN manifest = Manifest
    /\ stage \in {"descriptor", "query", "printed", "done"} =>
           /\ desc.version = None \/ desc.semver = None
           /\ desc.subtree \in Subtrees \cup {None}
           /\ desc.path # None => \A i \in DOMAIN desc.path : desc.path[i] # None
    /\ stage = "printed" => args.version = None \/ args.semver = None
    /\ stage = "query" => ValidArgs(args)
    /\ found \in Catalog \cup {None}

\* What a lockfile keeps of a manifest: an entry without any field becomes null
\* (manifest-raw.cc:649).
SameManifest(m, n) ==
    n = [m EXCEPT !.install = [i \in {Iid} |-> IF @[i] = NoFields THEN None ELSE @[i]]]

ManifestInv ==
    LET given == ManifestOf(entry, settings)
    IN  given # Refused /\ (manifest = given \/ SameManifest(given, manifest))

DescriptorInv ==
    /\ desc # Refused
    /\ string # None => ParseString(string) # Refused
    /\ desc = IF string # None THEN DescriptorOf(ParseString(string))
              ELSE InstalledDescriptor(Iid, ManifestOf(entry, settings).install[Iid])

QueryInv ==
    LET options == CombinedOptions(OptionsFromJSON(request.global),
                                   OptionsFromJSON(request.old), OptionsFromJSON(settings))
    IN  /\ request \in [system : AllSystems, input : DOMAIN Reg.inputs,
                         global : GlobalOptions, old : OldOptions]
        /\ IF Skips(request.system) THEN stage = "done" /\ args = None
           ELSE args = QueryArgs(options, request.input, request.system) /\ args # Refused

FoundInv ==
    found \in IF Skips(request.system) \/ Firsts(Catalog, args) = {} THEN {None}
              ELSE Firsts(Catalog, args)

(* Each structure is what the steps before it make of what was written,    *)
(* whether the manifest went through a lockfile or not.                    *)
LookupInv ==
    /\ TypeOK
    /\ stage \in {"start", "manifest", "query", "done"} => string = None
    /\ stage \in {"manifest", "descriptor", "query", "done"} /\ string = None =>
           ManifestInv
    /\ stage \in {"descriptor", "query", "printed", "done"} => DescriptorInv
    /\ stage \in {"query", "done"} => QueryInv
    /\ IF stage = "done" THEN FoundInv ELSE found = None

(***************************************************************************)
(* The rows that an entry and the options ask for, told without the        *)
(* structures in between.  docs/manifests.md says the same but for this:   *)
(* it has an entry's name also match the whole `name' of a package (:106,  *)
(* and descriptor.hh:59), where the query compares pname and attrName      *)
(* alone (pkg-query.cc:204, as pkg-query.hh:88 says); it has an entry      *)
(* without systems resolved on the current one only (:117), where the code *)
(* takes those of the manifest's options; and its default for unfree (:39) *)
(* is not the code's.  In all three, what is wanted here is the code's     *)
(* reading: no property speaks of a package known by its `name' alone.     *)
(***************************************************************************)
Asked(f) == IF entry # None /\ f \in DOMAIN entry THEN entry[f] ELSE None

Member(json, f) == IF json # None /\ f \in DOMAIN json THEN json[f] ELSE None

\* The manifest has priority over the old lock, the old lock over the global
\* manifest, setting by setting.
Setting(section, f, default) ==
    LET At(options) == Member(Member(options, section), f)
    IN  Or(At(settings), Or(At(request.old), Or(At(request.global), default)))

\* A range is what cleanRange() leaves of it: one that is cut inside its tag
\* admits versions below the one it names.
IsVersion(version, row) ==
    CASE version.op = "=" -> row.version = [version EXCEPT !.op = ""]
      [] version.op # "=" /\ version.kind \in {"star", "any"} -> row.semver # None
      [] version.op = "" /\ (version.kind \in {"date", "word"} \/ IsSemver(version)) ->
             row.version = version
      [] OTHER -> row.semver # None /\ Satisfies(row.semver, CleanRange(version))

\* Nothing follows the last dot of a text.
IsWritten(path, attrs) ==
    \/ path.parts = attrs /\ (path.list \/ Last(attrs) # "")
    \/ path.parts = Append(attrs, "") /\ ~path.list

IsAt(path, row) == IsWritten(path, row.relPath)

IsAtAbsolute(path, row) ==
    \E system \in {row.system, "*", "null", None} :
        IsWritten(path, <<row.subtree, system>> \o row.relPath)

IsAllowed(row) ==
    /\ row.broken = TRUE => Setting("allow", "broken", FALSE)
    /\ row.unfree = TRUE => Setting("allow", "unfree", TRUE)
    /\ Setting("allow", "licenses", <<>>) # <<>> =>
           row.license \in ToSet(Setting("allow", "licenses", <<>>))

\* A name is a pname or an attrName; an entry with an empty one asks for none.
Wanted(row) ==
    /\ row.system = request.system
    /\ Asked("systems") # None => row.system \in ToSet(Asked("systems"))
    /\ Or(Asked("name"), Iid) \in {row.pname, AttrName(row), ""}
    /\ Asked("version") # None => IsVersion(Asked("version"), row)
    /\ Asked("path") # None => IsAt(Asked("path"), row)
    /\ IF Asked("absPath") # None THEN IsAtAbsolute(Asked("absPath"), row)
       ELSE PreferredSubtrees(Reg, request.input) # None =>
                row.subtree \in ToSet(PreferredSubtrees(Reg, request.input))
    /\ IsAllowed(row)

(* The package that is found is one the entry asks for and the options     *)
(* allow: name, version, range, paths, systems, subtrees, licenses and the *)
(* rest survive five conversions between structures that each name them    *)
(* differently (manifest-raw.cc, descriptor.cc, environment.cc:333).       *)
FoundIsWanted == found # None => Wanted(found)

(* A lookup that finds nothing missed nothing: no row of the database is   *)
(* what the entry asks for (environment.cc:352).  A row that has only its  *)
(* whole `name' in common with the entry counts as not asked for, although *)
(* docs/manifests.md:106 promises it: pnameOrAttrName never finds one.     *)
NothingMissed ==
    stage = "done" /\ found = None => \A row \in Catalog : ~Wanted(row)

(***************************************************************************)
(* The order of what is found (pkg-query.cc:352).                          *)
(***************************************************************************)
\* A `~' range asks for pre-releases by naming one, whatever the options say.
PreReleasesPreferred ==
    IF Asked("version") # None /\ Asked("version").op = "~" THEN Asked("version").tag # 0
    ELSE Setting("semver", "preferPreReleases", FALSE)

\* Another row that was as good, its version apart.
Rival(row) ==
    LET name == Or(Asked("name"), Iid)
    IN  /\ Wanted(row) /\ row.semver # None /\ found.semver # None
        /\ <<row.subtree, row.pname, Depth(row)>> = <<found.subtree, found.pname, Depth(found)>>
        /\ (AttrName(row) = name) = (AttrName(found) = name)

\* The numbers of two versions have as many digits.
SameWidth(v, w) == \A i \in 1..3 : (v.nums[i] < 10) = (w.nums[i] < 10)

(* The version that is found is the one the options prefer: no pre-release *)
(* while there is a stable version, unless pre-releases are preferred, and *)
(* no older version while there is a newer one of the same kind.  Numbers  *)
(* of different widths are left out: the columns of v_Semvers are texts,   *)
(* by which 9 is above 10.                                                 *)
BestFirst ==
    found # None => \A row \in Catalog :
        LET ours == found.semver
            theirs == row.semver
        IN  Rival(row) =>
              /\ ~PreReleasesPreferred /\ ours.tag # 0 => theirs.tag # 0
              /\ /\ SameWidth(ours, theirs)
                 /\ PreReleasesPreferred \/ ours.tag = theirs.tag
                 => ~LexLess(ours.nums, theirs.nums)

(***************************************************************************)
(* The string form and the entry with the same name, path and version.     *)
(***************************************************************************)
SameEntry(s) ==
    LET parts == SplitAttrPath(s.parts)
        path == [list |-> FALSE, parts |-> s.parts]
        form == IF Len(parts) = 1 THEN "name"
                ELSE IF Len(parts) > 2 /\ parts[1] \in Subtrees THEN "absPath" ELSE "path"
    IN  [f \in {form, "version", "repository"} |->
            CASE f = form -> IF form = "name" THEN parts[1] ELSE path
              [] f = "version" -> s.version
              [] f = "repository" -> s.input]

(* A descriptor written as a string is the one its fields would make in a  *)
(* manifest: the two parsers of attribute paths, descriptor.cc:140 and     *)
(* :462, agree on dots, globs and absolute paths.                          *)
StringFormAgrees ==
    stage = "descriptor" /\ string # None => desc = DescriptorOf(FromJSON(SameEntry(string)))

(* What a lockfile keeps of a manifest is the manifest: written and read   *)
(* back it is accepted, and none of its fields is lost or changed.         *)
SurvivesReadingBack ==
    [][ReadBack => manifest' # Refused /\ SameManifest(manifest, manifest')]_vars
=============================================================================
