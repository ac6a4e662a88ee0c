---------------------------- MODULE Lookup_proofs ----------------------------
(***************************************************************************)
(* What is looked up is found, and the best of it, for all entries,        *)
(* options, registries and rows.                                           *)
(***************************************************************************)
EXTENDS Lookup, Vectors_proofs, FiniteSetTheorems, SequenceTheorems

\* The markers for null, an exception and a wrong type are no functions, hence
\* no objects, structures or lists, and null is no subtree.  TLC's model values
\* are like that.
MarkersAreAtoms ==
  /\ \A f : f = [x \in DOMAIN f |-> f[x]] => f \notin {None, Refused, Malformed}
  /\ None \notin Subtrees
-----------------------------------------------------------------------------
(***************************************************************************)
(* What is read from JSON, written and read again.                         *)
(***************************************************************************)
IsObject(a, fields) ==
  /\ a = [f \in fields |-> a[f]]
  /\ \A f \in fields : a[f] \notin {Malformed, Refused}

LEMMA ObjectIsNone ==
  ASSUME MarkersAreAtoms, NEW a, NEW fields, IsObject(a, fields)
  PROVE  a \notin {None, Malformed, Refused} /\ DOMAIN a = fields
<1>1. DOMAIN a = fields /\ a = [f \in DOMAIN a |-> a[f]]
  BY DEF IsObject
<1>2. QED
  BY <1>1 DEF MarkersAreAtoms

LEMMA PlainRead ==
  ASSUME MarkersAreAtoms, NEW v, NEW fields, ReadPlain(v, fields) # Refused
  PROVE  LET a == ReadPlain(v, fields)
         IN  /\ IsObject(a, fields) /\ v \notin {None, Malformed}
             /\ DOMAIN v \subseteq fields
             /\ \A f \in fields : a[f] = Member(v, f)
<1> DEFINE a == ReadPlain(v, fields)
<1>1. /\ v \notin {None, Malformed} /\ DOMAIN v \subseteq fields
      /\ \A f \in DOMAIN v : v[f] \notin {Malformed, Refused}
      /\ a = [f \in fields |-> IF f \in DOMAIN v THEN v[f] ELSE None]
  BY DEF ReadPlain, ReadObject, ReadValue
<1> HIDE DEF a
<1>2. \A f \in fields : a[f] = Member(v, f) /\ a[f] \notin {Malformed, Refused}
  BY <1>1, MarkersAssumption DEF Member
<1>3. a = [f \in fields |-> a[f]]
  BY <1>1
<1>4. QED
  BY <1>1, <1>2, <1>3 DEF IsObject, a

LEMMA ObjectWritten ==
  ASSUME MarkersAreAtoms, NEW a, NEW fields, IsObject(a, fields)
  PROVE  LET w == WriteObject(a)
         IN  /\ w = [f \in DOMAIN w |-> w[f]] /\ w \notin {None, Malformed, Refused}
             /\ DOMAIN w = {f \in fields : a[f] # None}
             /\ \A f \in DOMAIN w : w[f] = a[f]
<1>1. DOMAIN a = fields
  BY ObjectIsNone
<1> DEFINE w == WriteObject(a)
<1>2. w = [f \in {g \in fields : a[g] # None} |-> a[f]]
  BY <1>1 DEF WriteObject
<1> HIDE DEF w
<1>3. w = [f \in DOMAIN w |-> w[f]]
  BY <1>2
<1>4. w \notin {None, Malformed, Refused}
  BY <1>3 DEF MarkersAreAtoms
<1>5. QED
  BY <1>2, <1>3, <1>4 DEF w

LEMMA PlainKept ==
  ASSUME MarkersAreAtoms, NEW a, NEW fields, IsObject(a, fields)
  PROVE  ReadPlain(WriteObject(a), fields) = a
<1> DEFINE w == WriteObject(a)
           b == ReadPlain(w, fields)
<1>1. /\ w \notin {None, Malformed, Refused}
      /\ DOMAIN w = {f \in fields : a[f] # None} /\ \A f \in DOMAIN w : w[f] = a[f]
  BY ObjectWritten
<1> HIDE DEF w
<1>2. \A f \in DOMAIN w : w[f] \notin {Malformed, Refused}
  BY <1>1 DEF IsObject
<1>3. b = [f \in fields |-> IF f \in DOMAIN w THEN w[f] ELSE None]
  BY <1>1, <1>2 DEF ReadPlain, ReadObject, ReadValue
<1>4. \A f \in fields : b[f] = a[f]
  BY <1>1, <1>3
<1>5. a = [f \in fields |-> a[f]] /\ b = [f \in fields |-> b[f]]
  BY <1>3 DEF IsObject
<1> HIDE DEF b
<1>6. QED
  BY <1>4, <1>5 DEF b, w
-----------------------------------------------------------------------------
(***************************************************************************)
(* Options.                                                                *)
(***************************************************************************)
IsOptions(o) ==
  o # None => /\ IsObject(o, OptionFields)
              /\ o.allow # None => IsObject(o.allow, AllowFields)
              /\ o.semver # None => IsObject(o.semver, SemverFields)

\* The structure o holds what the JSON j says.
Means(o, j) ==
  /\ IsOptions(o)
  /\ \A f \in AllowFields : Field(Field(o, "allow"), f) = Member(Member(j, "allow"), f)
  /\ \A f \in SemverFields : Field(Field(o, "semver"), f) = Member(Member(j, "semver"), f)

LEMMA SectionRead ==
  ASSUME MarkersAreAtoms, NEW v, NEW fields, ReadPlain(v, fields) # Refused
  PROVE  LET a == ReadPlain(v, fields)
         IN  IsObject(a, fields) /\ \A f \in fields : Field(a, f) = Member(v, f)
BY PlainRead, ObjectIsNone DEF Field

LEMMA OptionsRead ==
  ASSUME MarkersAreAtoms, NEW json, OptionsFromJSON(json) # Refused
  PROVE  Means(OptionsFromJSON(json), json)
<1> DEFINE o == OptionsFromJSON(json)
<1>1. CASE json = None
  BY <1>1 DEF OptionsFromJSON, Means, IsOptions, Field, Member
<1>2. CASE json # None
  <2> DEFINE Read(f, v) ==
            CASE f = "allow" /\ v # None -> ReadPlain(v, AllowFields)
              [] f = "semver" -> ReadPlain(v, SemverFields)
              [] OTHER -> ReadValue(v)
  <2>1. /\ o = [f \in OptionFields |-> IF f \in DOMAIN json THEN Read(f, json[f]) ELSE None]
        /\ \A f \in DOMAIN json : Read(f, json[f]) # Refused
    BY <1>2 DEF OptionsFromJSON, ReadObject
  <2>2. \A f : f \notin {"allow", "semver"} => \A v : Read(f, v) = ReadValue(v)
    OBVIOUS
  <2>3. \A v : Read("allow", v) = IF v # None THEN ReadPlain(v, AllowFields) ELSE ReadValue(v)
    OBVIOUS
  <2>4. \A v : Read("semver", v) = ReadPlain(v, SemverFields)
    OBVIOUS
  <2>5. {"allow", "semver"} \subseteq OptionFields
    BY DEF OptionFields
  <2>6. \/ o.allow = None /\ Member(json, "allow") = None
        \/ /\ o.allow = ReadPlain(Member(json, "allow"), AllowFields)
           /\ ReadPlain(Member(json, "allow"), AllowFields) # Refused
    <3> HIDE DEF o, Read
    <3>1. CASE "allow" \in DOMAIN json
      BY <1>2, <2>1, <2>3, <2>5, <3>1, MarkersAssumption DEF Member, ReadValue
    <3>2. CASE "allow" \notin DOMAIN json
      BY <2>1, <2>5, <3>2 DEF Member
    <3>3. QED
      BY <3>1, <3>2
  <2>7. \/ o.semver = None /\ Member(json, "semver") = None
        \/ /\ o.semver = ReadPlain(Member(json, "semver"), SemverFields)
           /\ ReadPlain(Member(json, "semver"), SemverFields) # Refused
    <3> HIDE DEF o, Read
    <3>1. CASE "semver" \in DOMAIN json
      BY <1>2, <2>1, <2>4, <2>5, <3>1 DEF Member
    <3>2. CASE "semver" \notin DOMAIN json
      BY <2>1, <2>5, <3>2 DEF Member
    <3>3. QED
      BY <3>1, <3>2
  <2>8. o = [f \in OptionFields |-> o[f]]
    BY <2>1
  <2> HIDE DEF o, Read
  <2>9. /\ o.allow # None => IsObject(o.allow, AllowFields)
        /\ \A f \in AllowFields : Field(o.allow, f) = Member(Member(json, "allow"), f)
    BY <2>6, SectionRead DEF Field, Member
  <2>10. /\ o.semver # None => IsObject(o.semver, SemverFields)
         /\ \A f \in SemverFields : Field(o.semver, f) = Member(Member(json, "semver"), f)
    BY <2>7, SectionRead DEF Field, Member
  <2>11. \A f \in OptionFields : o[f] \notin {Malformed, Refused}
    <3>1. ASSUME NEW f \in OptionFields PROVE o[f] \notin {Malformed, Refused}
      <4>1. CASE f \notin {"allow", "semver"}
        BY <2>1, <2>2, <4>1, MarkersAssumption DEF ReadValue
      <4>2. CASE f = "allow"
        BY <2>9, <4>2, ObjectIsNone, MarkersAssumption
      <4>3. CASE f = "semver"
        BY <2>10, <4>3, ObjectIsNone, MarkersAssumption
      <4>4. QED
        BY <4>1, <4>2, <4>3
    <3>2. QED
      BY <3>1
  <2>12. IsObject(o, OptionFields)
    BY <2>8, <2>11 DEF IsObject
  <2>13. o # None
    BY <2>12, ObjectIsNone
  <2>14. IsOptions(o)
    BY <2>9, <2>10, <2>12 DEF IsOptions
  <2>15. QED
    BY <2>9, <2>10, <2>13, <2>14 DEF Means, Field, o
<1>3. QED
  BY <1>1, <1>2

\* One of the two nested structures, merged.
LEMMA SectionMerged ==
  ASSUME MarkersAreAtoms, NEW base, NEW over, NEW fields,
         base # None => IsObject(base, fields), over # None => IsObject(over, fields)
  PROVE  LET a == MergeOptional(base, over)
         IN  /\ a # None => IsObject(a, fields)
             /\ \A f \in fields : Field(a, f) = Or(Field(over, f), Field(base, f))
<1>1. CASE base = None \/ over = None
  BY <1>1 DEF MergeOptional, Field, Or
<1>2. CASE base # None /\ over # None
  <2> DEFINE a == MergeOptional(base, over)
  <2>1. DOMAIN base = fields /\ DOMAIN over = fields
    BY <1>2, ObjectIsNone
  <2>2. a = [f \in fields |-> Or(over[f], base[f])]
    BY <1>2, <2>1 DEF MergeOptional, MergeFields
  <2> HIDE DEF a
  <2>3. IsObject(a, fields)
    <3>1. \A f \in fields : a[f] \in {over[f], base[f]}
      BY <2>2 DEF Or
    <3>2. QED
      BY <1>2, <2>2, <3>1 DEF IsObject
  <2>4. a # None
    BY <2>3, ObjectIsNone
  <2>5. QED
    BY <1>2, <2>2, <2>3, <2>4 DEF Field, a
<1>3. QED
  BY <1>1, <1>2

\* Options are merged field by field; what an option is in the result it is in
\* the last of the merged structures that has it.
LEMMA MergedOptions ==
  ASSUME MarkersAreAtoms, NEW base, NEW over, IsOptions(base), base # None, IsOptions(over)
  PROVE  LET o == Over(base, over)
         IN  /\ IsOptions(o) /\ o # None
             /\ \A f \in AllowFields : Field(o.allow, f) =
                    Or(Field(Field(over, "allow"), f), Field(base.allow, f))
             /\ \A f \in SemverFields : Field(o.semver, f) =
                    Or(Field(Field(over, "semver"), f), Field(base.semver, f))
<1>1. CASE over = None
  BY <1>1 DEF Over, Field, Or
<1>2. CASE over # None
  <2> DEFINE allow == MergeOptional(base.allow, over.allow)
             semver == MergeOptional(base.semver, over.semver)
             o == Over(base, over)
  <2>1. DOMAIN base = OptionFields
    BY ObjectIsNone DEF IsOptions
  <2>2. o = [f \in OptionFields |-> IF f = "allow" THEN allow
                                    ELSE IF f = "semver" THEN semver
                                    ELSE Or(over[f], base[f])]
    BY <1>2, <2>1 DEF Over, MergeOptions, MergeFields, OptionFields
  <2>3. /\ allow # None => IsObject(allow, AllowFields)
        /\ \A f \in AllowFields : Field(allow, f) = Or(Field(over.allow, f), Field(base.allow, f))
    BY <1>2, SectionMerged DEF IsOptions
  <2>4. /\ semver # None => IsObject(semver, SemverFields)
        /\ \A f \in SemverFields :
               Field(semver, f) = Or(Field(over.semver, f), Field(base.semver, f))
    BY <1>2, SectionMerged DEF IsOptions
  <2> HIDE DEF o, allow, semver
  <2>5. o.allow = allow /\ o.semver = semver
    BY <2>2 DEF OptionFields
  <2>6. IsObject(o, OptionFields)
    <3>1. o = [f \in OptionFields |-> o[f]]
      BY <2>2
    <3>2. ASSUME NEW f \in OptionFields PROVE o[f] \notin {Malformed, Refused}
      <4>1. \A v \in {Malformed, Refused} : allow # v /\ semver # v
        BY <2>3, <2>4, ObjectIsNone, MarkersAssumption
      <4>2. base[f] \notin {Malformed, Refused} /\ over[f] \notin {Malformed, Refused}
        BY <1>2 DEF IsOptions, IsObject
      <4>3. QED
        BY <2>2, <4>1, <4>2 DEF Or
    <3>3. QED
      BY <3>1, <3>2 DEF IsObject
  <2>7. o # None
    BY <2>6, ObjectIsNone
  <2>8. IsOptions(o)
    BY <2>3, <2>4, <2>5, <2>6 DEF IsOptions
  <2>9. QED
    BY <1>2, <2>3, <2>4, <2>5, <2>7, <2>8 DEF Field, o
<1>3. QED
  BY <1>1, <1>2

\* Written and read back, options are what they were.
LEMMA WrittenOptions ==
  ASSUME MarkersAreAtoms, NEW o, IsOptions(o), o # None
  PROVE  LET w == OptionsToJSON(o)
         IN  /\ w \notin {None, Malformed, Refused}
             /\ DOMAIN w = {f \in OptionFields : o[f] # None}
             /\ \A f \in DOMAIN w : w[f] = IF f \in {"allow", "semver"} THEN WriteObject(o[f])
                                           ELSE o[f]
<1> DEFINE allow == Written(o.allow)
           semver == Written(o.semver)
           p == [o EXCEPT !.allow = Written(@), !.semver = Written(@)]
           w == OptionsToJSON(o)
<1>1. w = WriteObject(p)
  BY DEF OptionsToJSON
<1>2. /\ o.allow # None => allow = WriteObject(o.allow) /\ allow \notin {None, Malformed, Refused}
      /\ o.allow = None => allow = None
      /\ o.semver # None => semver = WriteObject(o.semver) /\ semver \notin {None, Malformed, Refused}
      /\ o.semver = None => semver = None
  BY ObjectWritten DEF Written, IsOptions
<1>3. DOMAIN o = OptionFields /\ \A f \in OptionFields : o[f] \notin {Malformed, Refused}
  BY ObjectIsNone DEF IsOptions, IsObject
<1>4. p = [f \in OptionFields |-> IF f = "allow" THEN allow
                                  ELSE IF f = "semver" THEN semver ELSE o[f]]
  BY <1>3 DEF OptionFields
<1> HIDE DEF allow, semver, p
<1>5. \A f \in OptionFields : p[f] \notin {Malformed, Refused}
  BY <1>2, <1>3, <1>4, MarkersAssumption
<1>6. p = [f \in OptionFields |-> p[f]]
  BY <1>4
<1>7. IsObject(p, OptionFields)
  BY <1>5, <1>6 DEF IsObject
<1>8. /\ w \notin {None, Malformed, Refused}
      /\ DOMAIN w = {f \in OptionFields : p[f] # None}
      /\ \A f \in DOMAIN w : w[f] = p[f]
  BY <1>1, <1>7, ObjectWritten
<1> HIDE DEF w
<1>9. \A f \in OptionFields : p[f] # None <=> o[f] # None
  BY <1>2, <1>4
<1>10. \A f \in OptionFields : p[f] # None =>
          p[f] = IF f \in {"allow", "semver"} THEN WriteObject(o[f]) ELSE o[f]
  BY <1>2, <1>4
<1>11. DOMAIN w = {f \in OptionFields : o[f] # None}
  BY <1>8, <1>9
<1>12. QED
  BY <1>8, <1>10, <1>11 DEF w

\* Options that are written and read again are the options.
LEMMA OptionsKept ==
  ASSUME MarkersAreAtoms, NEW o, IsOptions(o), o # None
  PROVE  OptionsFromJSON(OptionsToJSON(o)) = o
<1> DEFINE w == OptionsToJSON(o)
           b == OptionsFromJSON(w)
           Read(f, v) ==
            CASE f = "allow" /\ v # None -> ReadPlain(v, AllowFields)
              [] f = "semver" -> ReadPlain(v, SemverFields)
              [] OTHER -> ReadValue(v)
<1>1. /\ w \notin {None, Malformed, Refused}
      /\ DOMAIN w = {f \in OptionFields : o[f] # None}
      /\ \A f \in DOMAIN w : w[f] = IF f \in {"allow", "semver"} THEN WriteObject(o[f]) ELSE o[f]
  BY WrittenOptions
<1>2. o = [f \in OptionFields |-> o[f]] /\ \A f \in OptionFields : o[f] \notin {Malformed, Refused}
  BY DEF IsOptions, IsObject
<1> HIDE DEF w
<1>3. b = IF \E f \in DOMAIN w : Read(f, w[f]) = Refused THEN Refused
          ELSE [f \in OptionFields |-> IF f \in DOMAIN w THEN Read(f, w[f]) ELSE None]
  <2>1. DOMAIN w \subseteq OptionFields
    BY <1>1
  <2>2. QED
    BY <1>1, <2>1 DEF OptionsFromJSON, ReadObject
<1>4. ASSUME NEW f \in DOMAIN w PROVE Read(f, w[f]) = o[f]
  <2>1. CASE f \notin {"allow", "semver"}
    <3>1. Read(f, w[f]) = ReadValue(w[f])
      BY <2>1
    <3>2. QED
      BY <1>1, <1>2, <2>1, <3>1 DEF ReadValue
  <2>2. CASE f = "allow"
    <3>1. IsObject(o.allow, AllowFields) /\ w[f] = WriteObject(o.allow)
      BY <1>1, <2>2 DEF IsOptions
    <3>2. WriteObject(o.allow) # None
      BY <3>1, ObjectWritten
    <3>3. ReadPlain(WriteObject(o.allow), AllowFields) = o.allow
      BY <3>1, PlainKept
    <3>4. QED
      BY <2>2, <3>1, <3>2, <3>3
  <2>3. CASE f = "semver"
    <3>1. IsObject(o.semver, SemverFields) /\ w[f] = WriteObject(o.semver)
      BY <1>1, <2>3 DEF IsOptions
    <3>2. ReadPlain(w[f], SemverFields) = o.semver
      BY <3>1, PlainKept
    <3>3. QED
      BY <2>3, <3>2
  <2>4. QED
    BY <2>1, <2>2, <2>3
<1> HIDE DEF b, Read
<1>5. \A f \in DOMAIN w : Read(f, w[f]) # Refused
  BY <1>1, <1>2, <1>4
<1>6. b = [f \in OptionFields |-> IF f \in DOMAIN w THEN Read(f, w[f]) ELSE None]
  BY <1>3, <1>5
<1>7. \A f \in OptionFields : b[f] = o[f]
  BY <1>1, <1>4, <1>6
<1>8. b = [f \in OptionFields |-> b[f]]
  BY <1>6
<1>9. QED
  BY <1>2, <1>7, <1>8 DEF b, w

\* Three structures of options, and the query arguments they make.
LEMMA CombinedArgs ==
  ASSUME MarkersAreAtoms, NEW g, NEW l, NEW o, IsOptions(g), IsOptions(l), IsOptions(o)
  PROVE  LET a == ArgsOf(CombinedOptions(g, l, o))
             At(section, f) == Or(Field(Field(o, section), f),
                                  Or(Field(Field(l, section), f), Field(Field(g, section), f)))
         IN  /\ a = [x \in DOMAIN NoArgs |-> a[x]]
             /\ \A x \in DOMAIN NoArgs \ {"systems", "allowUnfree", "allowBroken", "licenses",
                                          "preferPreReleases"} : a[x] = NoArgs[x]
             /\ a.allowUnfree = Or(At("allow", "unfree"), TRUE)
             /\ a.allowBroken = Or(At("allow", "broken"), FALSE)
             /\ a.licenses = At("allow", "licenses")
             /\ a.preferPreReleases = Or(At("semver", "preferPreReleases"), FALSE)
<1> DEFINE x == Over(NoOptions, g)
           y == Over(x, l)
           z == Over(y, o)
<1>1. IsOptions(NoOptions) /\ NoOptions # None /\ NoOptions.semver = None /\ NoOptions.allow = None
  <2>1. IsObject(NoOptions, OptionFields)
    BY MarkersAssumption DEF IsObject, NoOptions
  <2>2. NoOptions.semver = None /\ NoOptions.allow = None
    BY DEF NoOptions, OptionFields
  <2>3. QED
    BY <2>1, <2>2, ObjectIsNone DEF IsOptions
<1>2. /\ IsOptions(x) /\ x # None
      /\ \A f \in AllowFields : Field(x.allow, f) =
             Or(Field(Field(g, "allow"), f), Field(NoOptions.allow, f))
      /\ \A f \in SemverFields : Field(x.semver, f) =
             Or(Field(Field(g, "semver"), f), Field(NoOptions.semver, f))
  BY <1>1, MergedOptions
<1> HIDE DEF x
<1>3. /\ IsOptions(y) /\ y # None
      /\ \A f \in AllowFields : Field(y.allow, f) =
             Or(Field(Field(l, "allow"), f), Field(x.allow, f))
      /\ \A f \in SemverFields : Field(y.semver, f) =
             Or(Field(Field(l, "semver"), f), Field(x.semver, f))
  BY <1>2, MergedOptions
<1> HIDE DEF y
<1>4. /\ \A f \in AllowFields : Field(z.allow, f) =
             Or(Field(Field(o, "allow"), f), Field(y.allow, f))
      /\ \A f \in SemverFields : Field(z.semver, f) =
             Or(Field(Field(o, "semver"), f), Field(y.semver, f))
  BY <1>3, MergedOptions
<1> HIDE DEF z
<1>5. CombinedOptions(g, l, o) = z
  BY DEF CombinedOptions, x, y, z
<1> DEFINE At(section, f) == Or(Field(Field(o, section), f),
                                Or(Field(Field(l, section), f), Field(Field(g, section), f)))
<1>6. /\ \A f \in AllowFields : Field(z.allow, f) = At("allow", f)
      /\ \A f \in SemverFields : Field(z.semver, f) = At("semver", f)
  BY <1>1, <1>2, <1>3, <1>4 DEF Or, Field
<1>7. {"unfree", "broken", "licenses"} \subseteq AllowFields /\ "preferPreReleases" \in SemverFields
  BY DEF AllowFields, SemverFields
<1> DEFINE systems == Or(z.systems, <<ThisSystem>>)
           unfree == Or(Field(z.allow, "unfree"), TRUE)
           broken == Or(Field(z.allow, "broken"), FALSE)
           licenses == Field(z.allow, "licenses")
           preRelease == Or(Field(z.semver, "preferPreReleases"), FALSE)
           a == ArgsOf(z)
<1>8. a = [NoArgs EXCEPT !.systems = systems, !.allowUnfree = unfree, !.allowBroken = broken,
                         !.licenses = licenses, !.preferPreReleases = preRelease]
  BY DEF ArgsOf, NoArgs
<1> HIDE DEF systems, unfree, broken, licenses, preRelease, a
<1>9. a.allowUnfree = unfree /\ a.allowBroken = broken
      /\ a.licenses = licenses /\ a.preferPreReleases = preRelease
  BY <1>8 DEF NoArgs
<1>10. \A f \in DOMAIN NoArgs \ {"systems", "allowUnfree", "allowBroken", "licenses",
                                 "preferPreReleases"} : a[f] = NoArgs[f]
  BY <1>8
<1>11. a = [f \in DOMAIN NoArgs |-> a[f]]
  BY <1>8
<1>12. /\ unfree = Or(At("allow", "unfree"), TRUE) /\ broken = Or(At("allow", "broken"), FALSE)
       /\ licenses = At("allow", "licenses")
       /\ preRelease = Or(At("semver", "preferPreReleases"), FALSE)
  BY <1>6, <1>7 DEF unfree, broken, licenses, preRelease
<1>13. QED
  BY <1>5, <1>9, <1>10, <1>11, <1>12 DEF a
-----------------------------------------------------------------------------
(***************************************************************************)
(* The manifest of one entry.                                              *)
(***************************************************************************)
IsRaw(raw) == raw # None => IsObject(raw, RawFields)

\* A manifest with one entry, and options.
Made(raw, opts) ==
  [f \in Manifest |-> IF f = "install" THEN [i \in {Iid} |-> raw]
                      ELSE IF f = "options" THEN opts ELSE None]

\* An entry without any field is written as null.
Nulled(raw) == IF raw = NoFields THEN None ELSE raw

LEMMA Members == Manifest = {"options", "registry", "install", "vars", "hook", "envBase"}
BY DEF Manifest, ManifestGA, GlobalManifestGA

LEMMA MadeMembers ==
  ASSUME MarkersAreAtoms, NEW raw, NEW opts
  PROVE  LET m == Made(raw, opts)
         IN  /\ DOMAIN m = Manifest /\ m \notin {None, Refused, Malformed}
             /\ m.install = [i \in {Iid} |-> raw] /\ m.install # None
             /\ m.install[Iid] = raw /\ m.options = opts
             /\ \A f \in Manifest \ {"install", "options"} : m[f] = None
             /\ ValidManifest(m) <=> (raw # None => ValidRaw(raw))
<1> DEFINE m == Made(raw, opts)
           I == [i \in {Iid} |-> raw]
<1>1. DOMAIN m = Manifest /\ m \notin {None, Refused, Malformed}
  BY DEF Made, MarkersAreAtoms
<1>2. /\ m.install = I /\ m.options = opts
      /\ \A f \in Manifest \ {"install", "options"} : m[f] = None
  BY Members DEF Made
<1>3. I # None /\ DOMAIN I = {Iid} /\ I[Iid] = raw
  BY DEF MarkersAreAtoms
<1> HIDE DEF m, I
<1>4. ~Has(m, "hook") /\ ~Has(m, "envBase") /\ ~Has(m, "registry") /\ Has(m, "install")
  BY <1>1, <1>2, <1>3, Members DEF Has
<1>5. ValidManifest(m) <=> (raw # None => ValidRaw(raw))
  BY <1>2, <1>3, <1>4 DEF ValidManifest
<1>6. QED
  BY <1>1, <1>2, <1>3, <1>5 DEF m, I

LEMMA RawRead ==
  ASSUME MarkersAreAtoms, NEW e, FromJSON(e) # Refused
  PROVE  LET raw == FromJSON(e)
         IN  /\ IsRaw(raw) /\ e # Malformed
             /\ raw = None <=> e = None
             /\ e # None => /\ DOMAIN e \subseteq RawFields
                            /\ \A f \in RawFields : raw[f] = Member(e, f)
BY PlainRead, ObjectIsNone, MarkersAssumption DEF FromJSON, IsRaw

LEMMA RawKept ==
  ASSUME MarkersAreAtoms, NEW raw, IsRaw(raw)
  PROVE  FromJSON(ToJSON(raw)) = Nulled(raw)
<1>1. CASE raw \in {None, NoFields}
  BY <1>1 DEF ToJSON, FromJSON, Nulled
<1>2. CASE raw \notin {None, NoFields}
  <2>1. IsObject(raw, RawFields)
    BY <1>2 DEF IsRaw
  <2>2. WriteObject(raw) # None
    BY <2>1, ObjectWritten
  <2>3. ReadPlain(WriteObject(raw), RawFields) = raw
    BY <2>1, PlainKept
  <2>4. QED
    BY <1>2, <2>2, <2>3 DEF ToJSON, FromJSON, Nulled
<1>3. QED
  BY <1>1, <1>2

\* A manifest that has at most an entry and options.
LEMMA MadeFromJSON ==
  ASSUME MarkersAreAtoms, NEW json, NEW e, NEW options,
         json \notin {None, Malformed},
         {"install"} \subseteq DOMAIN json, DOMAIN json \subseteq {"install", "options"},
         json["install"] = [i \in {Iid} |-> e],
         options = Member(json, "options")
  PROVE  LET m == ManifestFromJSON(json, Manifest)
         IN  m # Refused =>
               /\ FromJSON(e) # Refused /\ OptionsFromJSON(options) # Refused
               /\ m = Made(FromJSON(e), OptionsFromJSON(options)) /\ ValidManifest(m)
<1> DEFINE I == [i \in {Iid} |-> e]
           m == ManifestFromJSON(json, Manifest)
           value == [f \in DOMAIN json |-> MemberFromJSON(f, json[f])]
<1>1. I \notin {None, Malformed} /\ DOMAIN I = {Iid} /\ I[Iid] = e
  BY DEF MarkersAreAtoms
<1>2. InstallFromJSON(I) = IF FromJSON(e) = Refused THEN Refused ELSE [i \in {Iid} |-> FromJSON(e)]
  BY <1>1 DEF InstallFromJSON
<1>3. MemberFromJSON("install", json["install"]) = InstallFromJSON(I)
  BY <1>1 DEF MemberFromJSON
<1>4. "options" \in DOMAIN json => MemberFromJSON("options", json["options"]) = OptionsFromJSON(options)
  BY DEF MemberFromJSON, Member, OptionsFromJSON
<1>5. "options" \notin DOMAIN json => OptionsFromJSON(options) = None
  BY DEF Member, OptionsFromJSON
<1> HIDE DEF I
<1>6. SUFFICES ASSUME m # Refused
               PROVE  /\ FromJSON(e) # Refused /\ OptionsFromJSON(options) # Refused
                      /\ m = Made(FromJSON(e), OptionsFromJSON(options)) /\ ValidManifest(m)
  OBVIOUS
<1>7. /\ m = [f \in Manifest |-> IF f \in DOMAIN json THEN MemberFromJSON(f, json[f]) ELSE None]
      /\ \A f \in DOMAIN json : MemberFromJSON(f, json[f]) # Refused
      /\ ValidManifest(m)
  BY <1>6 DEF ManifestFromJSON, Checked, ReadObject
<1>8. FromJSON(e) # Refused /\ OptionsFromJSON(options) # Refused
  BY <1>2, <1>3, <1>4, <1>5, <1>7, MarkersAssumption
<1> HIDE DEF m
<1>9. \A f \in Manifest : m[f] = Made(FromJSON(e), OptionsFromJSON(options))[f]
  BY <1>2, <1>3, <1>4, <1>5, <1>7, <1>8, Members DEF Made
<1>10. m = Made(FromJSON(e), OptionsFromJSON(options))
  BY <1>7, <1>9 DEF Made
<1>11. QED
  BY <1>7, <1>8, <1>10 DEF m

\* It is refused for no other reason.
LEMMA MadeAccepted ==
  ASSUME MarkersAreAtoms, NEW json, NEW e, NEW options,
         json \notin {None, Malformed},
         {"install"} \subseteq DOMAIN json, DOMAIN json \subseteq {"install", "options"},
         json["install"] = [i \in {Iid} |-> e],
         options = Member(json, "options"),
         FromJSON(e) # Refused, OptionsFromJSON(options) # Refused,
         FromJSON(e) # None => ValidRaw(FromJSON(e))
  PROVE  ManifestFromJSON(json, Manifest) # Refused
<1> DEFINE I == [i \in {Iid} |-> e]
           r == ReadObject(json, Manifest, MemberFromJSON)
           made == Made(FromJSON(e), OptionsFromJSON(options))
<1>1. I \notin {None, Malformed} /\ DOMAIN I = {Iid} /\ I[Iid] = e
  BY DEF MarkersAreAtoms
<1>2. InstallFromJSON(I) = [i \in {Iid} |-> FromJSON(e)]
  BY <1>1 DEF InstallFromJSON
<1>3. MemberFromJSON("install", json["install"]) = [i \in {Iid} |-> FromJSON(e)]
  BY <1>1, <1>2 DEF MemberFromJSON
<1>4. [i \in {Iid} |-> FromJSON(e)] # Refused
  BY DEF MarkersAreAtoms
<1>5. "options" \in DOMAIN json => MemberFromJSON("options", json["options"]) = OptionsFromJSON(options)
  BY DEF MemberFromJSON, Member, OptionsFromJSON
<1>6. "options" \notin DOMAIN json => OptionsFromJSON(options) = None
  BY DEF Member, OptionsFromJSON
<1>7. \A f \in DOMAIN json : MemberFromJSON(f, json[f]) # Refused
  BY <1>3, <1>4, <1>5
<1>8. r = [f \in Manifest |-> IF f \in DOMAIN json THEN MemberFromJSON(f, json[f]) ELSE None]
  BY <1>7, Members DEF ReadObject
<1> HIDE DEF r
<1>9. \A f \in Manifest : r[f] = made[f]
  BY <1>3, <1>5, <1>6, <1>8, Members DEF Made
<1>10. r = made
  BY <1>8, <1>9 DEF Made
<1>11. r # Refused /\ ValidManifest(r)
  BY <1>10, MadeMembers
<1>12. QED
  BY <1>11 DEF ManifestFromJSON, Checked, r

\* What is read of the look-up's manifest is its entry and its options.
LEMMA ManifestOfEntry ==
  ASSUME MarkersAreAtoms, NEW e, NEW options, ManifestOf(e, options) # Refused
  PROVE  LET m == ManifestOf(e, options)
         IN  /\ FromJSON(e) # Refused /\ OptionsFromJSON(options) # Refused
             /\ m = Made(FromJSON(e), OptionsFromJSON(options)) /\ ValidManifest(m)
<1> DEFINE json == [install |-> [i \in {Iid} |-> e], options |-> options]
<1>1. /\ json \notin {None, Malformed}
      /\ DOMAIN json = {"install", "options"} /\ json["install"] = [i \in {Iid} |-> e]
      /\ options = json["options"]
  BY DEF MarkersAreAtoms
<1>2. ManifestOf(e, options) = ManifestFromJSON(json, Manifest)
  BY DEF ManifestOf
<1> HIDE DEF json
<1>3. options = Member(json, "options")
  BY <1>1 DEF Member
<1>4. QED
  BY <1>1, <1>2, <1>3, MadeFromJSON

\* What a lockfile has of the manifest is the manifest.
LEMMA ManifestKept ==
  ASSUME MarkersAreAtoms, NEW raw, NEW opts, IsRaw(raw), IsOptions(opts),
         raw # None => ValidRaw(raw)
  PROVE  ManifestFromJSON(ManifestToJSON(Made(raw, opts)), Manifest) = Made(Nulled(raw), opts)
<1> DEFINE m == Made(raw, opts)
           json == ManifestToJSON(m)
           e == ToJSON(raw)
           options == OptionsToJSON(opts)
<1>1. /\ DOMAIN m = Manifest /\ m.install # None /\ m.options = opts
      /\ m.install = [i \in {Iid} |-> raw] /\ ValidManifest(m)
      /\ \A f \in Manifest \ {"install", "options"} : m[f] = None
  BY MadeMembers
<1> HIDE DEF m
<1> DEFINE Write(f) == CASE f = "options" -> OptionsToJSON(m[f])
                         [] f = "install" -> [i \in DOMAIN m[f] |-> ToJSON(m[f][i])]
                         [] f = "registry" -> RegistryToJSON(m[f])
                         [] f \in {"hook", "envBase"} -> WriteObject(m[f])
                         [] OTHER -> m[f]
<1>2. json = [f \in {g \in DOMAIN m : m[g] # None} |-> Write(f)]
  BY <1>1 DEF ManifestToJSON
<1>3. Write("install") = [i \in {Iid} |-> e]
  BY <1>1
<1>4. Write("options") = options
  BY <1>1
<1> HIDE DEF json, Write
<1>5. DOMAIN json = {"install"} \cup (IF opts = None THEN {} ELSE {"options"})
  BY <1>1, <1>2, Members
<1>6. json = [f \in DOMAIN json |-> json[f]]
  BY <1>2
<1>7. json \notin {None, Malformed}
  BY <1>6 DEF MarkersAreAtoms
<1>8. json["install"] = [i \in {Iid} |-> e]
  BY <1>1, <1>2, <1>3, Members
<1>9. options = Member(json, "options")
  <2>1. CASE opts = None
    BY <1>5, <2>1 DEF Member, OptionsToJSON
  <2>2. CASE opts # None
    BY <1>1, <1>2, <1>4, <1>5, <1>7, <2>2, Members DEF Member
  <2>3. QED
    BY <2>1, <2>2
<1>10. FromJSON(e) = Nulled(raw)
  BY RawKept
<1>11. OptionsFromJSON(options) = opts
  BY OptionsKept DEF OptionsToJSON, OptionsFromJSON
<1>12. Nulled(raw) # Refused /\ opts # Refused
  BY ObjectIsNone, MarkersAssumption DEF Nulled, IsRaw, IsOptions
<1>13. Nulled(raw) # None => ValidRaw(Nulled(raw))
  BY DEF Nulled
<1> HIDE DEF e, options
<1>14. ManifestFromJSON(json, Manifest) # Refused
  BY <1>5, <1>7, <1>8, <1>9, <1>10, <1>11, <1>12, <1>13, MadeAccepted
<1>15. ManifestFromJSON(json, Manifest) = Made(FromJSON(e), OptionsFromJSON(options))
  BY <1>5, <1>7, <1>8, <1>9, <1>14, MadeFromJSON
<1>16. QED
  BY <1>10, <1>11, <1>15 DEF json, m

\* A descriptor of an entry without fields is that of null.
LEMMA SameMade ==
  ASSUME MarkersAreAtoms, NEW raw, NEW opts, NEW n
  PROVE  SameManifest(Made(raw, opts), n) <=> n = Made(Nulled(raw), opts)
<1> DEFINE m == Made(raw, opts)
           I == [i \in {Iid} |-> IF m.install[i] = NoFields THEN None ELSE m.install[i]]
<1>1. m.install[Iid] = raw
  BY MadeMembers
<1>2. I = [i \in {Iid} |-> Nulled(raw)]
  BY <1>1 DEF Nulled
<1>3. [m EXCEPT !.install = I] = [f \in Manifest |-> IF f = "install" THEN I ELSE m[f]]
  BY DEF Made
<1>4. [f \in Manifest |-> IF f = "install" THEN I ELSE m[f]] = Made(Nulled(raw), opts)
  BY <1>2, Members DEF Made
<1>5. SameManifest(m, n) <=> n = [m EXCEPT !.install = I]
  BY DEF SameManifest
<1>6. QED
  BY <1>3, <1>4, <1>5
-----------------------------------------------------------------------------
(***************************************************************************)
(* Descriptors.                                                            *)
(***************************************************************************)
LEMMA SequenceIsNone ==
  ASSUME MarkersAreAtoms, NEW S, NEW s \in Seq(S)
  PROVE  s \notin {None, Refused, Malformed}
<1>1. s = [i \in DOMAIN s |-> s[i]]
  OBVIOUS
<1>2. QED
  BY <1>1 DEF MarkersAreAtoms

\* The version, and the range, that a version in an entry asks for.
ExactOf(text) ==
  IF text = None \/ text.kind = "empty" THEN None
  ELSE IF text.op = "=" THEN [text EXCEPT !.op = ""]
  ELSE IF text.op = "" /\ text.kind # "star" /\ IsExactVersion(text) THEN text
  ELSE None

RangeOf(text) ==
  IF text = None THEN None
  ELSE IF text.kind = "empty" THEN text
  ELSE IF text.op = "=" THEN None
  ELSE IF text.op = "" /\ text.kind # "star" /\ IsExactVersion(text) THEN None
  ELSE text

Open(system) == system \in {None, "null", "*"}

\* initManifestDescriptorVersion() sets the version or the range, and nothing else.
LEMMA WithVersionFields ==
  ASSUME NEW d, DOMAIN d = DOMAIN NoDescriptor, d.version = None, d.semver = None, NEW text
  PROVE  LET v == IF text = None THEN d ELSE WithVersion(d, text)
         IN  /\ DOMAIN v = DOMAIN NoDescriptor
             /\ v.version = ExactOf(text) /\ v.semver = RangeOf(text)
             /\ \A f \in DOMAIN NoDescriptor \ {"version", "semver"} : v[f] = d[f]
<1>1. {"version", "semver"} \subseteq DOMAIN NoDescriptor
  BY DEF NoDescriptor
<1>2. \A x : /\ DOMAIN [d EXCEPT !.version = x] = DOMAIN NoDescriptor
             /\ [d EXCEPT !.version = x].version = x /\ [d EXCEPT !.version = x].semver = None
             /\ \A f \in DOMAIN NoDescriptor \ {"version", "semver"} :
                    [d EXCEPT !.version = x][f] = d[f]
  BY <1>1
<1>3. \A x : /\ DOMAIN [d EXCEPT !.semver = x] = DOMAIN NoDescriptor
             /\ [d EXCEPT !.semver = x].semver = x /\ [d EXCEPT !.semver = x].version = None
             /\ \A f \in DOMAIN NoDescriptor \ {"version", "semver"} :
                    [d EXCEPT !.semver = x][f] = d[f]
  BY <1>1
<1>4. CASE text = None
  BY <1>4 DEF ExactOf, RangeOf
<1>5. CASE text # None /\ ExactOf(text) = None /\ RangeOf(text) = text
           /\ WithVersion(d, text) = [d EXCEPT !.semver = text]
  BY <1>3, <1>5
<1>6. CASE text # None /\ RangeOf(text) = None
           /\ WithVersion(d, text) = [d EXCEPT !.version = ExactOf(text)]
  BY <1>2, <1>6
<1>7. text # None => \/ /\ ExactOf(text) = None /\ RangeOf(text) = text
                        /\ WithVersion(d, text) = [d EXCEPT !.semver = text]
                     \/ /\ RangeOf(text) = None
                        /\ WithVersion(d, text) = [d EXCEPT !.version = ExactOf(text)]
  <2>1. SUFFICES ASSUME text # None
                 PROVE  \/ /\ ExactOf(text) = None /\ RangeOf(text) = text
                           /\ WithVersion(d, text) = [d EXCEPT !.semver = text]
                        \/ /\ RangeOf(text) = None
                           /\ WithVersion(d, text) = [d EXCEPT !.version = ExactOf(text)]
    OBVIOUS
  <2>2. CASE text.kind = "empty"
    BY <2>1, <2>2 DEF ExactOf, RangeOf, WithVersion
  <2>3. CASE text.kind # "empty" /\ text.op = "="
    <3>1. ExactOf(text) = [text EXCEPT !.op = ""] /\ RangeOf(text) = None
      BY <2>1, <2>3 DEF ExactOf, RangeOf
    <3>2. WithVersion(d, text) = [d EXCEPT !.version = [text EXCEPT !.op = ""]]
      BY <2>3 DEF WithVersion
    <3>3. QED
      BY <3>1, <3>2
  <2>4. CASE text.kind # "empty" /\ text.op # "=" /\ (text.op # "" \/ text.kind = "star")
    BY <2>1, <2>4 DEF ExactOf, RangeOf, WithVersion
  <2>5. CASE text.kind # "empty" /\ text.op = "" /\ text.kind # "star" /\ IsExactVersion(text)
    BY <2>1, <2>5 DEF ExactOf, RangeOf, WithVersion
  <2>6. CASE text.kind # "empty" /\ text.op = "" /\ text.kind # "star" /\ ~IsExactVersion(text)
    BY <2>1, <2>6 DEF ExactOf, RangeOf, WithVersion
  <2>7. QED
    BY <2>2, <2>3, <2>4, <2>5, <2>6
<1>8. QED
  BY <1>4, <1>5, <1>6, <1>7

\* initManifestDescriptorAbsPath() sets subtree, systems and path, or throws.
LEMMA WithAbsPathFields ==
  ASSUME MarkersAreAtoms, NEW d, DOMAIN d = DOMAIN NoDescriptor, NEW raw,
         WithAbsPath(d, raw) # Refused
  PROVE  LET a == WithAbsPath(d, raw)
             glob == Glob(raw.absPath)
         IN  /\ DOMAIN a = DOMAIN NoDescriptor
             /\ ~(Len(glob) < 3) /\ 1 \notin Globs(glob)
             /\ \A i \in 3..Len(glob) : glob[i] # None
             /\ ~Open(glob[2]) => raw.systems \in {None, <<glob[2]>>}
             /\ a.subtree = IF glob[1] \in Subtrees THEN glob[1] ELSE "ST_NONE"
             /\ a.path = SubSeq(glob, 3, Len(glob))
             /\ a.systems = IF Open(glob[2]) THEN None ELSE <<glob[2]>>
             /\ \A f \in DOMAIN NoDescriptor \ {"subtree", "path", "systems"} : a[f] = d[f]
<1> DEFINE glob == Glob(raw.absPath)
           subtree == IF glob[1] \in Subtrees THEN glob[1] ELSE "ST_NONE"
           path == SubSeq(glob, 3, Len(glob))
           systems == IF Open(glob[2]) THEN None ELSE <<glob[2]>>
           a == WithAbsPath(d, raw)
<1>1. /\ ~(Len(glob) < 3) /\ 1 \notin Globs(glob)
      /\ \A i \in 3..Len(glob) : glob[i] # None
      /\ ~Open(glob[2]) => raw.systems \in {None, <<glob[2]>>}
      /\ a = [d EXCEPT !.subtree = subtree, !.path = path, !.systems = systems]
  BY DEF WithAbsPath, Open
<1>2. {"subtree", "path", "systems"} \subseteq DOMAIN NoDescriptor
  BY DEF NoDescriptor
<1> HIDE DEF glob, subtree, path, systems, a
<1>3. /\ DOMAIN a = DOMAIN NoDescriptor
      /\ a.subtree = subtree /\ a.path = path /\ a.systems = systems
      /\ \A f \in DOMAIN NoDescriptor \ {"subtree", "path", "systems"} : a[f] = d[f]
  BY <1>1, <1>2
<1>4. QED
  BY <1>1, <1>3 DEF glob, subtree, path, systems, a

\* What is known of the paths and the version of an entry.
TypedRaw(raw) ==
  /\ raw.version # None => raw.version \in Texts
  /\ raw.path # None => IsPath(raw.path) /\ None \notin Range(raw.path.parts)
  /\ raw.absPath # None => IsPath(raw.absPath)

\* Splitting a path, and reading its globs, gives a list of its parts.
LEMMA SplitIsSeq ==
  ASSUME NEW S, NEW p \in Seq(S)
  PROVE  /\ SplitAttrPath(p) \in Seq(S) /\ Len(SplitAttrPath(p)) <= Len(p)
         /\ \A i \in 1..Len(SplitAttrPath(p)) : SplitAttrPath(p)[i] = p[i]
<1>1. CASE p # <<>> /\ Last(p) = ""
  <2>1. SplitAttrPath(p) = SubSeq(p, 1, Len(p) - 1)
    BY <1>1 DEF SplitAttrPath, Front
  <2>2. Len(p) \in Nat \ {0}
    BY <1>1, EmptySeq
  <2>3. QED
    BY <2>1, <2>2
<1>2. CASE ~(p # <<>> /\ Last(p) = "")
  <2>1. SplitAttrPath(p) = p
    BY <1>2 DEF SplitAttrPath
  <2>2. QED
    BY <2>1
<1>3. QED
  BY <1>1, <1>2

LEMMA GlobIsSeq ==
  ASSUME NEW path, IsPath(path)
  PROVE  Glob(path) \in Seq(Range(path.parts) \cup {None})
<1> DEFINE S == Range(path.parts)
           p == SplitAttrPath(path.parts)
<1>1. p \in Seq(S) /\ path.parts \in Seq(S)
  BY SplitIsSeq DEF IsPath
<1> HIDE DEF S, p
<1>2. [i \in DOMAIN p |-> IF p[i] \in {"*", "null"} THEN None ELSE p[i]] \in Seq(S \cup {None})
  BY <1>1
<1>3. path.parts \in Seq(S \cup {None})
  BY <1>1
<1>4. QED
  BY <1>2, <1>3 DEF Glob, S, p

\* What a descriptor's fields are, by the entry's.
LEMMA DescriptorFields ==
  ASSUME MarkersAreAtoms, NEW raw, TypedRaw(raw), DescriptorOf(raw) # Refused
  PROVE  LET d == DescriptorOf(raw)
             glob == Glob(raw.absPath)
         IN  /\ DOMAIN d = DOMAIN NoDescriptor
             /\ d.name = raw.name
             /\ d.version = ExactOf(raw.version) /\ d.semver = RangeOf(raw.version)
             /\ raw.absPath = None =>
                  /\ d.subtree = None /\ d.systems = raw.systems
                  /\ d.path = IF raw.path = None THEN None ELSE RawPath(raw)
             /\ raw.absPath # None =>
                  /\ Len(glob) >= 3 /\ glob[1] # None
                  /\ \A i \in 3..Len(glob) : glob[i] # None
                  /\ ~Open(glob[2]) => raw.systems \in {None, <<glob[2]>>}
                  /\ d.subtree = IF glob[1] \in Subtrees THEN glob[1] ELSE "ST_NONE"
                  /\ d.path = SubSeq(glob, 3, Len(glob))
                  /\ d.systems = IF Open(glob[2]) THEN raw.systems ELSE <<glob[2]>>
<1> DEFINE optional == Or(raw.optional, FALSE)
           priority == Or(raw.priority, 5)
           plain == [NoDescriptor EXCEPT
                       !.name = raw.name, !.optional = optional,
                       !.group = raw.group, !.input = raw.repository, !.priority = priority]
           versioned == IF raw.version = None THEN plain ELSE WithVersion(plain, raw.version)
           d1 == IF raw.absPath = None THEN versioned ELSE WithAbsPath(versioned, raw)
           systems == Or(d1.systems, raw.systems)
           path == IF d1.path = None /\ raw.path # None THEN RawPath(raw) ELSE d1.path
           d == DescriptorOf(raw)
           glob == Glob(raw.absPath)
<1>1. d1 # Refused /\ d = [d1 EXCEPT !.systems = systems, !.path = path]
  BY DEF DescriptorOf
<1>2. /\ DOMAIN plain = DOMAIN NoDescriptor /\ plain.name = raw.name
      /\ plain.version = None /\ plain.semver = None /\ plain.subtree = None
      /\ plain.systems = None /\ plain.path = None
  <2> HIDE DEF optional, priority
  <2>1. QED
    BY DEF NoDescriptor
<1> HIDE DEF plain, d
<1>3. /\ DOMAIN versioned = DOMAIN NoDescriptor
      /\ versioned.version = ExactOf(raw.version) /\ versioned.semver = RangeOf(raw.version)
      /\ \A f \in DOMAIN NoDescriptor \ {"version", "semver"} : versioned[f] = plain[f]
  BY <1>2, WithVersionFields
<1>4. {"name", "version", "semver", "subtree", "systems", "path"} \subseteq DOMAIN NoDescriptor
  BY DEF NoDescriptor
<1> HIDE DEF versioned
<1>5. /\ versioned.name = raw.name /\ versioned.subtree = None
      /\ versioned.systems = None /\ versioned.path = None
  BY <1>2, <1>3, <1>4
<1>6. CASE raw.absPath = None
  <2>1. d1 = versioned
    BY <1>6
  <2>2. systems = raw.systems /\ path = IF raw.path = None THEN None ELSE RawPath(raw)
    BY <1>5, <2>1 DEF Or
  <2> HIDE DEF d1, systems, path
  <2>3. /\ DOMAIN d = DOMAIN NoDescriptor /\ d.systems = systems /\ d.path = path
        /\ \A f \in DOMAIN NoDescriptor \ {"systems", "path"} : d[f] = versioned[f]
    BY <1>1, <1>3, <1>4, <2>1
  <2>4. QED
    BY <1>3, <1>4, <1>5, <1>6, <2>2, <2>3 DEF d
<1>7. CASE raw.absPath # None
  <2>1. d1 = WithAbsPath(versioned, raw)
    BY <1>7
  <2> HIDE DEF d1
  <2>2. /\ DOMAIN d1 = DOMAIN NoDescriptor
        /\ ~(Len(glob) < 3) /\ 1 \notin Globs(glob)
        /\ \A i \in 3..Len(glob) : glob[i] # None
        /\ ~Open(glob[2]) => raw.systems \in {None, <<glob[2]>>}
        /\ d1.subtree = IF glob[1] \in Subtrees THEN glob[1] ELSE "ST_NONE"
        /\ d1.path = SubSeq(glob, 3, Len(glob))
        /\ d1.systems = IF Open(glob[2]) THEN None ELSE <<glob[2]>>
        /\ \A f \in DOMAIN NoDescriptor \ {"subtree", "path", "systems"} : d1[f] = versioned[f]
    BY <1>1, <1>3, <2>1, WithAbsPathFields
  <2>3. glob \in Seq(Range(raw.absPath.parts) \cup {None})
    BY <1>7, GlobIsSeq DEF TypedRaw
  <2> HIDE DEF glob
  <2>4. Len(glob) >= 3 /\ glob[1] # None
    BY <2>2, <2>3 DEF Globs
  <2>5. SubSeq(glob, 3, Len(glob)) \in Seq(Range(raw.absPath.parts) \cup {None})
    BY <2>3, <2>4
  <2>6. SubSeq(glob, 3, Len(glob)) # None
    BY <2>5, SequenceIsNone
  <2>7. <<glob[2]>> # None
    BY DEF MarkersAreAtoms
  <2>8. path = SubSeq(glob, 3, Len(glob))
    BY <2>2, <2>6
  <2>9. systems = IF Open(glob[2]) THEN raw.systems ELSE <<glob[2]>>
    BY <2>2, <2>7 DEF Or
  <2> HIDE DEF systems, path
  <2>10. /\ DOMAIN d = DOMAIN NoDescriptor /\ d.systems = systems /\ d.path = path
         /\ \A f \in DOMAIN NoDescriptor \ {"systems", "path"} : d[f] = d1[f]
    BY <1>1, <1>4, <2>2
  <2>11. /\ d.name = raw.name /\ d.subtree = d1.subtree
         /\ d.version = ExactOf(raw.version) /\ d.semver = RangeOf(raw.version)
    BY <1>3, <1>4, <1>5, <2>2, <2>10
  <2>12. QED
    BY <1>7, <2>2, <2>4, <2>8, <2>9, <2>10, <2>11 DEF d, glob
<1>8. QED
  BY <1>6, <1>7

LEMMA OfItsRange ==
  ASSUME NEW S, NEW p \in Seq(S)
  PROVE  p \in Seq(Range(p)) /\ \A x : x \in Range(p) <=> \E i \in 1..Len(p) : p[i] = x
BY DEF Range

\* A path that is split is the path that was written, with or without a dot at
\* its end; dot stands for the empty part after it.
LEMMA FrontIsWritten ==
  ASSUME NEW S, NEW dot \in S, NEW p \in Seq(S), NEW q \in Seq(S), q # <<>>
  PROVE  (IF p # <<>> /\ Last(p) = dot THEN Front(p) ELSE p) = q
         <=> (p = q /\ Last(q) # dot) \/ p = Append(q, dot)
<1>1. Len(q) \in Nat \ {0} /\ Len(p) \in Nat
  BY EmptySeq
<1> DEFINE r == SubSeq(p, 1, Len(p) - 1)
           a == Append(q, dot)
<1>2. /\ a \in Seq(S) /\ a # <<>> /\ Len(a) = Len(q) + 1 /\ a[Len(q) + 1] = dot
      /\ \A i \in 1..Len(q) : a[i] = q[i]
  BY AppendProperties
<1>3. CASE p # <<>> /\ Last(p) = dot
  <2>1. Len(p) \in Nat \ {0} /\ p[Len(p)] = dot
    BY <1>3, EmptySeq DEF Last
  <2>2. Front(p) = r
    BY DEF Front
  <2>3. r \in Seq(S) /\ Len(r) = Len(p) - 1 /\ \A i \in 1..Len(p) - 1 : r[i] = p[i]
    <3>1. \A i \in 1..Len(p) - 1 : p[i] \in S
      BY <2>1
    <3>2. PICK n \in Int : n = Len(p) - 1
      BY <2>1
    <3>3. /\ SubSeq(p, 1, n) \in Seq(S) /\ Len(SubSeq(p, 1, n)) = n
          /\ \A i \in 1..n : SubSeq(p, 1, n)[i] = p[i]
      BY <2>1, <3>1, <3>2
    <3>4. QED
      BY <3>2, <3>3
  <2> HIDE DEF r, a
  <2>4. ASSUME r = q PROVE p = a
    <3>1. Len(p) = Len(a) /\ \A i \in 1..Len(p) : p[i] = a[i]
      BY <1>1, <1>2, <2>1, <2>3, <2>4
    <3>2. QED
      BY <1>2, <3>1, SeqEqual
  <2>5. ASSUME p = a PROVE r = q
    <3>1. Len(r) = Len(q) /\ \A i \in 1..Len(r) : r[i] = q[i]
      BY <1>1, <1>2, <2>1, <2>3, <2>5
    <3>2. QED
      BY <2>3, <3>1, SeqEqual
  <2>6. p = q => Last(q) = dot
    BY <1>3
  <2>7. QED
    BY <1>3, <2>2, <2>4, <2>5, <2>6 DEF a
<1>4. CASE ~(p # <<>> /\ Last(p) = dot)
  <2>1. Last(a) = dot
    BY <1>2 DEF Last
  <2> HIDE DEF a
  <2>2. p # a
    BY <1>2, <1>4, <2>1
  <2>3. p = q => Last(q) # dot
    BY <1>4
  <2>4. QED
    BY <1>4, <2>2, <2>3 DEF a
<1>5. QED
  BY <1>3, <1>4

LEMMA WiderSeq ==
  ASSUME NEW S, NEW T, S \subseteq T, NEW p \in Seq(S)
  PROVE  p \in Seq(T)
OBVIOUS

\* Splitting what a split has left changes nothing.
LEMMA SplitIsWritten ==
  ASSUME NEW S, NEW p \in Seq(S), NEW q \in Seq(S), q # <<>>
  PROVE  SplitAttrPath(p) = q <=> \/ p = q /\ Last(q) # ""
                                  \/ p = Append(q, "")
<1>1. PICK dot : dot = ""
  BY Zenon
<1> DEFINE U == S \cup {dot}
<1>2. dot \in U /\ S \subseteq U
  OBVIOUS
<1> HIDE DEF U
<1>3. p \in Seq(U) /\ q \in Seq(U)
  BY <1>2, WiderSeq
<1>4. (IF p # <<>> /\ Last(p) = dot THEN Front(p) ELSE p) = q
      <=> (p = q /\ Last(q) # dot) \/ p = Append(q, dot)
  BY <1>2, <1>3, FrontIsWritten
<1>5. SplitAttrPath(p) = IF p # <<>> /\ Last(p) = dot THEN Front(p) ELSE p
  BY <1>1, Zenon DEF SplitAttrPath
<1>6. SplitAttrPath(p) = q <=> (p = q /\ Last(q) # dot) \/ p = Append(q, dot)
  BY <1>4, <1>5
<1>7. QED
  BY <1>1, <1>6, Zenon

\* An entry that was read has paths and a version of their types.
LEMMA TypedEntry ==
  ASSUME MarkersAreAtoms, NEW e \in Entries, e # None, FromJSON(e) # Refused
  PROVE  TypedRaw(FromJSON(e))
<1> DEFINE raw == FromJSON(e)
<1>1. /\ e # Malformed /\ \A f \in RawFields : raw[f] = Member(e, f)
      /\ \A f \in RawFields : raw[f] # Malformed
  BY RawRead, ObjectIsNone DEF IsRaw, IsObject
<1>2. IsEntry(e)
  BY EntriesAssumption
<1> HIDE DEF raw
<1>3. \A f \in {"version", "path", "absPath"} :
        raw[f] # None => f \in DOMAIN e /\ raw[f] = e[f] /\ e[f] \notin {None, Malformed}
  BY <1>1 DEF Member, RawFields
<1>4. QED
  BY <1>1, <1>2, <1>3 DEF IsEntry, TypedRaw, raw
-----------------------------------------------------------------------------
(***************************************************************************)
(* Descriptors that are written as strings.                                *)
(***************************************************************************)
LEMMA FieldsMembers ==
  ASSUME NEW s, NEW form \in {"name", "path", "absPath"}, NEW value
  PROVE  LET raw == Fields(s, form, value)
         IN  /\ DOMAIN raw = RawFields /\ raw[form] = value
             /\ raw.version = s.version /\ raw.repository = s.input
             /\ \A f \in RawFields \ {form, "version", "repository"} : raw[f] = None
BY DEF Fields, NoFields, RawFields

LEMMA FieldsPaths ==
  ASSUME NEW s, NEW value
  PROVE  /\ Fields(s, "name", value).absPath = None
         /\ Fields(s, "path", value).absPath = None
         /\ Fields(s, "absPath", value).absPath = value
BY DEF Fields, NoFields, RawFields

\* The three forms of a string that is accepted.
LEMMA ParsedForm ==
  ASSUME MarkersAreAtoms, NEW s \in Strings, ParseString(s) # Refused
  PROVE  LET strings == SplitAttrPath(s.parts)
             attrs == Glob([list |-> FALSE, parts |-> s.parts])
             raw == ParseString(s)
         IN  /\ strings \in Seq(Range(s.parts))
             /\ attrs \in Seq(Range(s.parts) \cup {None})
             /\ \/ /\ raw = Fields(s, "name", strings[1])
                   /\ Len(strings) = 1
                \/ /\ raw = Fields(s, "path", [list |-> TRUE, parts |-> strings])
                   /\ Len(strings) >= 2 /\ ~(Len(strings) >= 3 /\ strings[1] \in Subtrees)
                \/ /\ raw = Fields(s, "absPath", [list |-> TRUE, parts |-> attrs])
                   /\ Len(strings) >= 3 /\ strings[1] \in Subtrees /\ attrs[1] = strings[1]
<1> DEFINE strings == SplitAttrPath(s.parts)
           attrs == Glob([list |-> FALSE, parts |-> s.parts])
           raw == ParseString(s)
<1>1. s.parts \in Seq(Range(s.parts))
  BY StringsAssumption
<1>2. strings \in Seq(Range(s.parts))
  BY <1>1, SplitIsSeq
<1>3. attrs = [i \in DOMAIN strings |-> IF strings[i] \in {"*", "null"} THEN None ELSE strings[i]]
  BY DEF Glob
<1>4. \/ Len(attrs) = 1 /\ attrs[1] # None /\ raw = Fields(s, "name", attrs[1])
      \/ /\ Len(attrs) # 1 /\ ~IsAbsolutePath(attrs) /\ ValidRelativePath(attrs)
         /\ raw = Fields(s, "path", [list |-> TRUE, parts |-> strings])
      \/ /\ Len(attrs) # 1 /\ IsAbsolutePath(attrs)
         /\ raw = Fields(s, "absPath", [list |-> TRUE, parts |-> attrs])
  BY Zenon DEF ParseString
<1> HIDE DEF strings, attrs, raw
<1>5. /\ attrs \in Seq(Range(s.parts) \cup {None}) /\ Len(attrs) = Len(strings)
      /\ Len(strings) \in Nat
      /\ \A i \in 1..Len(strings) :
             attrs[i] = IF strings[i] \in {"*", "null"} THEN None ELSE strings[i]
  BY <1>2, <1>3
<1>6. None \notin Subtrees
  BY DEF MarkersAreAtoms
<1>7. \A x \in {"*", "null"} : x \notin Subtrees
  BY DEF Subtrees
<1>8. CASE Len(attrs) = 1 /\ attrs[1] # None /\ raw = Fields(s, "name", attrs[1])
  <2>1. Len(strings) = 1 /\ attrs[1] = strings[1]
    BY <1>5, <1>8
  <2>2. QED
    BY <1>2, <1>5, <1>8, <2>1 DEF strings, attrs, raw
<1>9. CASE /\ Len(attrs) # 1 /\ ~IsAbsolutePath(attrs) /\ ValidRelativePath(attrs)
           /\ raw = Fields(s, "path", [list |-> TRUE, parts |-> strings])
  <2>1. Len(strings) >= 2 /\ ~(Len(strings) >= 3 /\ strings[1] \in Subtrees)
    BY <1>5, <1>7, <1>9 DEF IsAbsolutePath, ValidRelativePath
  <2>2. QED
    BY <1>2, <1>5, <1>9, <2>1 DEF strings, attrs, raw
<1>10. CASE /\ Len(attrs) # 1 /\ IsAbsolutePath(attrs)
            /\ raw = Fields(s, "absPath", [list |-> TRUE, parts |-> attrs])
  <2>1. Len(strings) >= 3 /\ strings[1] \in Subtrees /\ attrs[1] = strings[1]
    BY <1>5, <1>6, <1>10 DEF IsAbsolutePath
  <2>2. QED
    BY <1>2, <1>5, <1>10, <2>1 DEF strings, attrs, raw
<1>11. QED
  BY <1>4, <1>8, <1>9, <1>10

LEMMA TypedString ==
  ASSUME MarkersAreAtoms, NEW s \in Strings, ParseString(s) # Refused
  PROVE  TypedRaw(ParseString(s))
<1> DEFINE strings == SplitAttrPath(s.parts)
           attrs == Glob([list |-> FALSE, parts |-> s.parts])
           raw == ParseString(s)
<1>1. /\ strings \in Seq(Range(s.parts)) /\ attrs \in Seq(Range(s.parts) \cup {None})
      /\ \/ raw = Fields(s, "name", strings[1])
         \/ raw = Fields(s, "path", [list |-> TRUE, parts |-> strings])
         \/ raw = Fields(s, "absPath", [list |-> TRUE, parts |-> attrs])
  BY ParsedForm
<1>2. s.version # None => s.version \in Texts
  BY StringsAssumption
<1>3. None \notin Range(s.parts)
  BY StringsAssumption
<1> HIDE DEF strings, attrs, raw
<1>4. strings \in Seq(Range(strings)) /\ None \notin Range(strings)
  <2>1. strings \in Seq(Range(strings)) /\ \A x \in Range(strings) : x \in Range(s.parts)
    BY <1>1, OfItsRange
  <2>2. QED
    BY <1>3, <2>1
<1>5. attrs \in Seq(Range(attrs))
  BY <1>1, OfItsRange
<1>6. {"version", "path", "absPath"} \subseteq RawFields
  BY DEF RawFields
<1>7. CASE raw = Fields(s, "name", strings[1])
  <2>1. /\ raw.version = s.version
        /\ \A f \in RawFields \ {"name", "version", "repository"} : raw[f] = None
    BY <1>7, FieldsMembers
  <2>2. raw.path = None /\ raw.absPath = None
    BY <1>6, <2>1
  <2>3. QED
    BY <1>2, <2>1, <2>2 DEF TypedRaw, raw
<1>8. CASE raw = Fields(s, "path", [list |-> TRUE, parts |-> strings])
  <2>1. /\ raw.version = s.version /\ raw.path = [list |-> TRUE, parts |-> strings]
        /\ raw.absPath = None
    BY SMTT(30), <1>6, <1>8, FieldsMembers
  <2>2. QED
    BY <1>2, <1>4, <2>1 DEF TypedRaw, IsPath, raw
<1>9. CASE raw = Fields(s, "absPath", [list |-> TRUE, parts |-> attrs])
  <2>1. /\ raw.version = s.version /\ raw.absPath = [list |-> TRUE, parts |-> attrs]
        /\ \A f \in RawFields \ {"absPath", "version", "repository"} : raw[f] = None
    BY <1>9, FieldsMembers
  <2>2. raw.path = None
    BY <1>6, <2>1
  <2>3. QED
    BY <1>2, <1>5, <2>1, <2>2 DEF TypedRaw, IsPath, raw
<1>10. QED
  BY <1>1, <1>7, <1>8, <1>9

\* Entries that are alike but for how they write a path make the same descriptor.
LEMMA SameDescriptor ==
  ASSUME NEW r, NEW q,
         \A f \in RawFields \ {"path", "absPath"} : r[f] = q[f],
         r.path = None <=> q.path = None,
         r.path # None => RawPath(r) = RawPath(q),
         r.absPath = None <=> q.absPath = None,
         r.absPath # None => Glob(r.absPath) = Glob(q.absPath)
  PROVE  DescriptorOf(r) = DescriptorOf(q)
<1>1. /\ r.name = q.name /\ r.optional = q.optional /\ r.group = q.group
      /\ r.repository = q.repository /\ r.priority = q.priority /\ r.version = q.version
      /\ r.systems = q.systems
  BY DEF RawFields
<1>2. r.absPath # None => \A d : WithAbsPath(d, r) = WithAbsPath(d, q)
  BY <1>1 DEF WithAbsPath
<1> DEFINE plain(raw) == [NoDescriptor EXCEPT
                            !.name = raw.name, !.optional = Or(raw.optional, FALSE),
                            !.group = raw.group, !.input = raw.repository,
                            !.priority = Or(raw.priority, 5)]
           versioned(raw) == IF raw.version = None THEN plain(raw)
                             ELSE WithVersion(plain(raw), raw.version)
           made(raw) == IF raw.absPath = None THEN versioned(raw)
                          ELSE WithAbsPath(versioned(raw), raw)
<1>3. \A raw : DescriptorOf(raw) =
        IF made(raw) = Refused THEN Refused
        ELSE IF raw.path # None /\ made(raw).path # None /\ made(raw).path # RawPath(raw)
        THEN Refused
        ELSE [made(raw) EXCEPT !.systems = Or(@, raw.systems),
                                 !.path = IF @ = None /\ raw.path # None
                                          THEN RawPath(raw) ELSE @]
  BY Zenon DEF DescriptorOf
<1>4. versioned(r) = versioned(q)
  BY <1>1
<1> HIDE DEF versioned
<1>5. made(r) = made(q)
  BY <1>2, <1>4
<1> HIDE DEF made
<1>6. CASE r.path = None
  <2>1. q.path = None
    BY <1>6
  <2>2. QED
    BY <1>1, <1>3, <1>5, <1>6, <2>1
<1>7. CASE r.path # None
  BY <1>1, <1>3, <1>5, <1>7
<1>8. QED
  BY <1>6, <1>7

(* A descriptor that is written as a string is the one that its fields     *)
(* make in a manifest (descriptor.cc:140, :462).                           *)
LEMMA StringIsEntry ==
  ASSUME MarkersAreAtoms, NEW s \in Strings, ParseString(s) # Refused
  PROVE  DescriptorOf(ParseString(s)) = DescriptorOf(FromJSON(SameEntry(s)))
<1> DEFINE strings == SplitAttrPath(s.parts)
           attrs == Glob([list |-> FALSE, parts |-> s.parts])
           path == [list |-> FALSE, parts |-> s.parts]
           form == IF Len(strings) = 1 THEN "name"
                   ELSE IF Len(strings) > 2 /\ strings[1] \in Subtrees THEN "absPath" ELSE "path"
           value == IF form = "name" THEN strings[1] ELSE path
           e == SameEntry(s)
           q == FromJSON(e)
           r == ParseString(s)
<1>1. /\ strings \in Seq(Range(s.parts))
      /\ \/ r = Fields(s, "name", strings[1]) /\ Len(strings) = 1
         \/ /\ r = Fields(s, "path", [list |-> TRUE, parts |-> strings])
            /\ Len(strings) >= 2 /\ ~(Len(strings) >= 3 /\ strings[1] \in Subtrees)
         \/ /\ r = Fields(s, "absPath", [list |-> TRUE, parts |-> attrs])
            /\ Len(strings) >= 3 /\ strings[1] \in Subtrees
  BY ParsedForm
<1>2. attrs = Glob(path)
  OBVIOUS
<1>3. path.list = FALSE /\ SplitAttrPath(path.parts) = strings
  OBVIOUS
<1>4. form \in {"name", "path", "absPath"}
  OBVIOUS
<1>5. /\ e = [f \in DOMAIN e |-> e[f]] /\ DOMAIN e = {form, "version", "repository"}
      /\ e[form] = value /\ e["version"] = s.version /\ e["repository"] = s.input
  <2> DEFINE v(f) == CASE f = form -> value [] f = "version" -> s.version
                       [] f = "repository" -> s.input
  <2>1. e = [f \in {form, "version", "repository"} |-> v(f)]
    BY DEF SameEntry
  <2>2. form \notin {"version", "repository"}
    BY <1>4
  <2> HIDE DEF e, form, value
  <2>3. v(form) = value /\ v("version") = s.version /\ v("repository") = s.input
    BY <2>2
  <2> HIDE DEF v
  <2>4. QED
    BY <2>1, <2>3
<1>6. path \notin {None, Malformed, Refused}
  BY DEF MarkersAreAtoms
<1>7. form = "name" => strings[1] \notin {None, Malformed, Refused}
  <2>1. {None, Refused, Malformed} \cap Range(s.parts) = {}
    BY StringsAssumption
  <2> HIDE DEF strings
  <2>2. form = "name" => strings[1] \in Range(s.parts)
    BY <1>1
  <2>3. QED
    BY <2>1, <2>2
<1>8. value \notin {None, Malformed, Refused}
  BY <1>6, <1>7
<1>9. s.version \notin {Refused, Malformed} /\ s.input \notin {Refused, Malformed}
  <2>1. \A t \in Texts : t = [f \in DOMAIN t |-> t[f]]
    BY DEF Texts
  <2>2. s.version \in Texts \cup {None} /\ s.input \notin {Refused, Malformed}
    BY StringsAssumption
  <2>3. QED
    BY <2>1, <2>2, MarkersAssumption DEF MarkersAreAtoms
<1>10. /\ q = [f \in RawFields |-> IF f \in DOMAIN e THEN e[f] ELSE None]
  <2> HIDE DEF e, form, value
  <2>1. e \notin {None, Malformed}
    BY <1>5 DEF MarkersAreAtoms
  <2>2. DOMAIN e \subseteq RawFields
    BY <1>4, <1>5 DEF RawFields
  <2>3. \A f \in DOMAIN e : ReadValue(e[f]) = e[f] /\ e[f] # Refused
    BY <1>5, <1>8, <1>9 DEF ReadValue
  <2>4. QED
    BY <2>1, <2>2, <2>3 DEF FromJSON, ReadPlain, ReadObject
<1>11. {"name", "path", "absPath", "version", "repository"} \subseteq RawFields
  BY DEF RawFields
<1> HIDE DEF e, q, r, strings, attrs, path, form, value
<1>12. /\ q[form] = value /\ q.version = s.version /\ q.repository = s.input
       /\ \A f \in RawFields \ {form, "version", "repository"} : q[f] = None
  BY <1>4, <1>5, <1>10, <1>11
<1>13. Len(strings) \in Nat
  BY <1>1
<1>13a. /\ Len(strings) >= 2 => Len(strings) # 1
        /\ Len(strings) >= 3 => Len(strings) # 1
        /\ Len(strings) > 2 <=> Len(strings) >= 3
  <2>1. \A n \in Nat : (n >= 2 => n # 1) /\ (n >= 3 => n # 1) /\ (n > 2 <=> n >= 3)
    OBVIOUS
  <2>2. QED
    BY <1>13, <2>1, Zenon
<1>14. CASE r = Fields(s, "name", strings[1]) /\ Len(strings) = 1
  <2>1. form = "name" /\ value = strings[1]
    BY <1>14 DEF form, value
  <2>2. \A f \in RawFields : r[f] = q[f]
    BY <1>12, <1>14, <2>1, FieldsMembers
  <2>3. r.path = None /\ r.absPath = None /\ q.path = None /\ q.absPath = None
    BY <1>11, <1>12, <2>1, <2>2
  <2>4. QED
    BY <2>2, <2>3, SameDescriptor DEF q, r, e
<1>15. CASE /\ r = Fields(s, "path", [list |-> TRUE, parts |-> strings])
            /\ Len(strings) >= 2 /\ ~(Len(strings) >= 3 /\ strings[1] \in Subtrees)
  <2>1. form = "path"
    <3>1. Len(strings) >= 2 /\ ~(Len(strings) >= 3 /\ strings[1] \in Subtrees)
      BY <1>15
    <3>2. Len(strings) # 1 /\ ~(Len(strings) > 2 /\ strings[1] \in Subtrees)
      BY <1>13a, <3>1, Zenon
    <3>3. QED
      BY <3>2, Zenon DEF form
  <2>1a. value = path
    BY <2>1 DEF value
  <2>2. \A f \in RawFields \ {"path", "absPath"} : r[f] = q[f]
    BY <1>12, <1>15, <2>1, <2>1a, FieldsMembers
  <2>3. /\ r.path = [list |-> TRUE, parts |-> strings] /\ q.path = path
        /\ r.absPath = None /\ q.absPath = None
    BY <1>11, <1>12, <1>15, <2>1, <2>1a, FieldsMembers
  <2>4. r.path # None /\ q.path # None
    BY <1>6, <2>3 DEF MarkersAreAtoms
  <2>5. RawPath(r) = strings /\ RawPath(q) = strings
    BY <1>3, <2>3 DEF RawPath
  <2>6. QED
    BY <2>2, <2>3, <2>4, <2>5, SameDescriptor DEF q, r, e
<1>16. CASE /\ r = Fields(s, "absPath", [list |-> TRUE, parts |-> attrs])
            /\ Len(strings) >= 3 /\ strings[1] \in Subtrees
  <2>1. form = "absPath"
    <3>1. Len(strings) >= 3 /\ strings[1] \in Subtrees
      BY <1>16
    <3>2. Len(strings) # 1 /\ Len(strings) > 2 /\ strings[1] \in Subtrees
      BY <1>13a, <3>1, Zenon
    <3>3. QED
      BY <3>2, Zenon DEF form
  <2>1a. value = path
    BY <2>1 DEF value
  <2>2. \A f \in RawFields \ {"path", "absPath"} : r[f] = q[f]
    BY <1>12, <1>16, <2>1, <2>1a, FieldsMembers
  <2>3. /\ r.absPath = [list |-> TRUE, parts |-> attrs] /\ q.absPath = path
        /\ r.path = None /\ q.path = None
    BY <1>11, <1>12, <1>16, <2>1, <2>1a, FieldsMembers
  <2>4. r.absPath # None /\ q.absPath # None
    BY <1>6, <2>3 DEF MarkersAreAtoms
  <2>5. Glob(r.absPath) = attrs /\ Glob(q.absPath) = attrs
    <3>1. Glob(r.absPath) = attrs
      BY <2>3 DEF Glob
    <3>2. QED
      BY <1>2, <2>3, <3>1
  <2>6. QED
    BY <2>2, <2>3, <2>4, <2>5, SameDescriptor DEF q, r, e
<1>17. QED
  BY <1>1, <1>14, <1>15, <1>16
-----------------------------------------------------------------------------
(***************************************************************************)
(* What is known of a descriptor.                                          *)
(***************************************************************************)
LEMMA OneVersion ==
  ASSUME NEW text
  PROVE  ExactOf(text) = None \/ RangeOf(text) = None
BY DEF ExactOf, RangeOf

LEMMA RawPathIsSeq ==
  ASSUME NEW raw, TypedRaw(raw), raw.path # None
  PROVE  /\ RawPath(raw) \in Seq(Range(raw.path.parts))
         /\ \A i \in DOMAIN RawPath(raw) : RawPath(raw)[i] # None
<1>1. raw.path.parts \in Seq(Range(raw.path.parts)) /\ None \notin Range(raw.path.parts)
  BY DEF TypedRaw, IsPath
<1>2. SplitAttrPath(raw.path.parts) \in Seq(Range(raw.path.parts))
  BY <1>1, SplitIsSeq
<1>3. RawPath(raw) \in Seq(Range(raw.path.parts))
  BY <1>1, <1>2 DEF RawPath
<1>4. QED
  BY <1>1, <1>3

IsDescriptor(d) ==
  /\ DOMAIN d = DOMAIN NoDescriptor
  /\ d.version = None \/ d.semver = None
  /\ d.subtree \in Subtrees \cup {None}
  /\ d.path # None => \A i \in DOMAIN d.path : d.path[i] # None

\* A descriptor has a version or a range, one of the two subtrees, and no null in its path.
LEMMA DescriptorIsTyped ==
  ASSUME MarkersAreAtoms, NEW raw, TypedRaw(raw), DescriptorOf(raw) # Refused,
         raw.absPath # None => Glob(raw.absPath)[1] \in Subtrees
  PROVE  IsDescriptor(DescriptorOf(raw))
<1> DEFINE d == DescriptorOf(raw)
           glob == Glob(raw.absPath)
<1>1. /\ DOMAIN d = DOMAIN NoDescriptor
      /\ d.version = ExactOf(raw.version) /\ d.semver = RangeOf(raw.version)
      /\ raw.absPath = None =>
           /\ d.subtree = None
           /\ d.path = IF raw.path = None THEN None ELSE RawPath(raw)
      /\ raw.absPath # None =>
           /\ Len(glob) >= 3
           /\ \A i \in 3..Len(glob) : glob[i] # None
           /\ d.subtree = IF glob[1] \in Subtrees THEN glob[1] ELSE "ST_NONE"
           /\ d.path = SubSeq(glob, 3, Len(glob))
  BY DescriptorFields
<1> HIDE DEF d
<1>2. d.version = None \/ d.semver = None
  BY <1>1, OneVersion
<1>3. CASE raw.absPath = None
  <2>1. d.path # None => \A i \in DOMAIN d.path : d.path[i] # None
    BY <1>1, <1>3, RawPathIsSeq
  <2>2. QED
    BY <1>1, <1>2, <1>3, <2>1 DEF IsDescriptor, d
<1>4. CASE raw.absPath # None
  <2>1. glob \in Seq(Range(raw.absPath.parts) \cup {None})
    BY <1>4, GlobIsSeq DEF TypedRaw
  <2>2. d.subtree \in Subtrees
    BY <1>1, <1>4
  <2> HIDE DEF glob
  <2>3. \A i \in DOMAIN SubSeq(glob, 3, Len(glob)) : SubSeq(glob, 3, Len(glob))[i] # None
    BY <1>1, <1>4, <2>1
  <2>4. QED
    BY <1>1, <1>2, <1>4, <2>2, <2>3 DEF IsDescriptor, d
<1>5. QED
  BY <1>3, <1>4

LEMMA ParsedDescriptor ==
  ASSUME MarkersAreAtoms, NEW s \in Strings, ParseString(s) # Refused,
         DescriptorOf(ParseString(s)) # Refused
  PROVE  IsDescriptor(DescriptorOf(ParseString(s)))
<1> DEFINE strings == SplitAttrPath(s.parts)
           attrs == Glob([list |-> FALSE, parts |-> s.parts])
           raw == ParseString(s)
<1>1. \/ raw = Fields(s, "name", strings[1])
      \/ raw = Fields(s, "path", [list |-> TRUE, parts |-> strings])
      \/ /\ raw = Fields(s, "absPath", [list |-> TRUE, parts |-> attrs])
         /\ strings[1] \in Subtrees /\ attrs[1] = strings[1]
  BY ParsedForm
<1> HIDE DEF strings, attrs, raw
<1>2. "absPath" \in RawFields
  BY DEF RawFields
<1>3. raw.absPath # None => Glob(raw.absPath)[1] \in Subtrees
  <2>1. CASE raw = Fields(s, "name", strings[1])
    BY <2>1, FieldsPaths
  <2>2. CASE raw = Fields(s, "path", [list |-> TRUE, parts |-> strings])
    BY <2>2, FieldsPaths
  <2>3. CASE /\ raw = Fields(s, "absPath", [list |-> TRUE, parts |-> attrs])
             /\ strings[1] \in Subtrees /\ attrs[1] = strings[1]
    <3>1. raw.absPath = [list |-> TRUE, parts |-> attrs]
      BY <2>3, FieldsPaths
    <3>2. Glob(raw.absPath) = attrs
      BY <3>1 DEF Glob
    <3>3. QED
      BY <2>3, <3>2
  <2>4. QED
    BY <1>1, <2>1, <2>2, <2>3
<1>4. QED
  BY <1>3, TypedString, DescriptorIsTyped DEF raw

\* A descriptor with its install ID as its name, if it has no other.
LEMMA InstalledFields ==
  ASSUME MarkersAreAtoms, NEW raw, raw # None, InstalledDescriptor(Iid, raw) # Refused,
         TypedRaw(raw)
  PROVE  LET d == DescriptorOf(raw)
             i == InstalledDescriptor(Iid, raw)
         IN  /\ d # Refused /\ DOMAIN i = DOMAIN NoDescriptor
             /\ i.name = Or(raw.name, Iid)
             /\ \A f \in DOMAIN NoDescriptor \ {"name"} : i[f] = d[f]
<1> DEFINE d == DescriptorOf(raw)
           i == InstalledDescriptor(Iid, raw)
           name == Or(d.name, Iid)
<1>1. d # Refused /\ i = [d EXCEPT !.name = name]
  BY DEF InstalledDescriptor
<1>2. DOMAIN d = DOMAIN NoDescriptor /\ d.name = raw.name
  BY <1>1, DescriptorFields
<1>3. "name" \in DOMAIN NoDescriptor
  BY DEF NoDescriptor
<1> HIDE DEF d, i
<1>4. name = Or(raw.name, Iid)
  BY <1>2
<1> HIDE DEF name
<1>5. QED
  BY <1>1, <1>2, <1>3, <1>4 DEF d, i

LEMMA NullDescriptor ==
  ASSUME MarkersAreAtoms
  PROVE  LET i == InstalledDescriptor(Iid, None)
         IN  /\ i # Refused /\ DOMAIN i = DOMAIN NoDescriptor /\ i.name = Iid
             /\ \A f \in DOMAIN NoDescriptor \ {"name"} : i[f] = NoDescriptor[f]
<1> DEFINE i == InstalledDescriptor(Iid, None)
<1>1. i = [NoDescriptor EXCEPT !.name = Iid]
  BY DEF InstalledDescriptor
<1>2. i # Refused
  BY <1>1 DEF MarkersAreAtoms, NoDescriptor
<1>3. QED
  BY <1>1, <1>2 DEF NoDescriptor

LEMMA InstalledIsTyped ==
  ASSUME MarkersAreAtoms, NEW raw, InstalledDescriptor(Iid, raw) # Refused,
         raw # None => TypedRaw(raw) /\ ValidRaw(raw)
  PROVE  IsDescriptor(InstalledDescriptor(Iid, raw))
<1>1. CASE raw = None
  <2>1. {"version", "semver", "subtree", "path"} \subseteq DOMAIN NoDescriptor \ {"name"}
    BY DEF NoDescriptor
  <2>2. /\ NoDescriptor.version = None /\ NoDescriptor.subtree = None
        /\ NoDescriptor.path = None
    BY DEF NoDescriptor
  <2>3. QED
    BY <1>1, <2>1, <2>2, NullDescriptor DEF IsDescriptor
<1>2. CASE raw # None
  <2> DEFINE d == DescriptorOf(raw)
             i == InstalledDescriptor(Iid, raw)
  <2>1. /\ d # Refused /\ DOMAIN i = DOMAIN NoDescriptor
        /\ \A f \in DOMAIN NoDescriptor \ {"name"} : i[f] = d[f]
    BY <1>2, InstalledFields
  <2>2. IsDescriptor(d)
    BY <1>2, <2>1, DescriptorIsTyped DEF ValidRaw
  <2> HIDE DEF d, i
  <2>3. {"version", "semver", "subtree", "path"} \subseteq DOMAIN NoDescriptor \ {"name"}
    BY DEF NoDescriptor
  <2>4. QED
    BY <2>1, <2>2, <2>3 DEF IsDescriptor, i
<1>3. QED
  BY <1>1, <1>2

\* An entry without any field is as good as null.
LEMMA NulledDescriptor ==
  ASSUME MarkersAreAtoms, NEW raw
  PROVE  InstalledDescriptor(Iid, Nulled(raw)) = InstalledDescriptor(Iid, raw)
<1>1. CASE raw # NoFields
  BY <1>1 DEF Nulled
<1>2. CASE raw = NoFields
  <2> DEFINE plain == [NoDescriptor EXCEPT
                         !.name = None, !.optional = FALSE, !.group = None, !.input = None,
                         !.priority = 5]
             d == [plain EXCEPT !.systems = None, !.path = None]
  <2>1. NoFields # None
    BY DEF MarkersAreAtoms, NoFields
  <2>2. /\ NoFields.name = None /\ NoFields.optional = None /\ NoFields.group = None
        /\ NoFields.repository = None /\ NoFields.priority = None /\ NoFields.version = None
        /\ NoFields.systems = None /\ NoFields.path = None /\ NoFields.absPath = None
    BY DEF NoFields, RawFields
  <2>3. plain = NoDescriptor /\ d = NoDescriptor
    <3>1. NoDescriptor = [f \in DOMAIN NoDescriptor |-> NoDescriptor[f]]
      BY DEF NoDescriptor
    <3>2. /\ NoDescriptor.name = None /\ NoDescriptor.optional = FALSE
          /\ NoDescriptor.group = None /\ NoDescriptor.input = None
          /\ NoDescriptor.priority = 5 /\ NoDescriptor.systems = None
          /\ NoDescriptor.path = None
      BY DEF NoDescriptor
    <3>3. plain = [f \in DOMAIN NoDescriptor |-> plain[f]]
      OBVIOUS
    <3>4. \A f \in DOMAIN NoDescriptor : plain[f] = NoDescriptor[f]
      BY <3>2
    <3> HIDE DEF plain
    <3>5. plain = NoDescriptor
      BY <3>1, <3>3, <3>4
    <3>6. d = [f \in DOMAIN NoDescriptor |-> d[f]]
      BY <3>5
    <3>7. \A f \in DOMAIN NoDescriptor : d[f] = NoDescriptor[f]
      BY <3>2, <3>5
    <3> HIDE DEF d
    <3>8. QED
      BY <3>1, <3>5, <3>6, <3>7
  <2>4. NoDescriptor # Refused
    BY DEF MarkersAreAtoms, NoDescriptor
  <2>5. NoDescriptor.systems = None /\ NoDescriptor.path = None /\ NoDescriptor.name = None
    BY DEF NoDescriptor
  <2>6. DescriptorOf(NoFields) = NoDescriptor
    <3> HIDE DEF plain, d
    <3>1. plain = [NoDescriptor EXCEPT
                     !.name = NoFields.name, !.optional = Or(NoFields.optional, FALSE),
                     !.group = NoFields.group, !.input = NoFields.repository,
                     !.priority = Or(NoFields.priority, 5)]
      BY <2>2, Zenon DEF plain, Or
    <3>2. DescriptorOf(NoFields) =
            [plain EXCEPT !.systems = Or(@, NoFields.systems),
                          !.path = IF @ = None /\ NoFields.path # None THEN RawPath(NoFields)
                                   ELSE @]
      BY ZenonT(60), <2>2, <2>3, <2>4, <3>1 DEF DescriptorOf
    <3>3. QED
      BY <2>2, <2>3, <2>5, <3>2 DEF Or, d
  <2>7. QED
    BY <1>2, <2>1, <2>4, <2>5, <2>6 DEF InstalledDescriptor, Nulled, Or
<1>3. QED
  BY <1>1, <1>2
-----------------------------------------------------------------------------
(***************************************************************************)
(* The inductive invariant.                                                *)
(***************************************************************************)

\* A manifest that was read holds the entry, as it was typed and checked.
LEMMA ManifestRead ==
  ASSUME MarkersAreAtoms, NEW e \in Entries \cup {None}, NEW options,
         ManifestOf(e, options) # Refused
  PROVE  LET raw == FromJSON(e)
             opts == OptionsFromJSON(options)
             m == ManifestOf(e, options)
         IN  /\ raw # Refused /\ opts # Refused
             /\ m = Made(raw, opts) /\ ValidManifest(m)
             /\ m.install[Iid] = raw /\ m.options = opts /\ DOMAIN m = Manifest
             /\ IsRaw(raw) /\ Means(opts, options)
             /\ raw # None => TypedRaw(raw) /\ ValidRaw(raw)
<1> DEFINE raw == FromJSON(e)
           opts == OptionsFromJSON(options)
           m == ManifestOf(e, options)
<1>1. raw # Refused /\ opts # Refused /\ m = Made(raw, opts) /\ ValidManifest(m)
  BY ManifestOfEntry
<1>2. /\ m.install[Iid] = raw /\ m.options = opts /\ DOMAIN m = Manifest
      /\ raw # None => ValidRaw(raw)
  BY <1>1, MadeMembers
<1>3. IsRaw(raw) /\ (raw = None <=> e = None)
  BY <1>1, RawRead
<1>4. raw # None => TypedRaw(raw)
  BY <1>1, <1>3, TypedEntry
<1>5. Means(opts, options)
  BY <1>1, OptionsRead
<1>6. QED
  BY <1>1, <1>2, <1>3, <1>4, <1>5

\* The manifest, whether it was read back or not.
LEMMA ManifestNow ==
  ASSUME MarkersAreAtoms, ManifestInv
  PROVE  LET raw == FromJSON(entry)
             opts == OptionsFromJSON(settings)
         IN  /\ manifest \in {Made(raw, opts), Made(Nulled(raw), opts)}
             /\ ManifestOf(entry, settings) = Made(raw, opts)
             /\ ManifestOf(entry, settings) # Refused
<1>1. ManifestOf(entry, settings) # Refused
  BY DEF ManifestInv
<1>2. ManifestOf(entry, settings) = Made(FromJSON(entry), OptionsFromJSON(settings))
  BY <1>1, ManifestOfEntry
<1>3. \/ manifest = ManifestOf(entry, settings)
      \/ SameManifest(ManifestOf(entry, settings), manifest)
  BY DEF ManifestInv
<1>4. QED
  BY <1>1, <1>2, <1>3, SameMade

LEMMA InitInv == Init => LookupInv
BY DEF Init, LookupInv, TypeOK, Stages

LEMMA ParseInv ==
  ASSUME MarkersAreAtoms, LookupInv, NEW s \in Strings, Parse(s)
  PROVE  LookupInv'
<1> DEFINE raw == ParseString(s)
<1>1. /\ stage = "start" /\ string' = s /\ s # None
      /\ UNCHANGED <<entry, settings, manifest, request, args, found>>
      /\ desc' = IF raw = Refused THEN Refused ELSE DescriptorOf(raw)
      /\ stage' = IF desc' = Refused THEN "refused" ELSE "descriptor"
  BY StringsAssumption DEF Parse, Reach
<1>2. found = None /\ entry \in Entries \cup {None}
  BY <1>1 DEF LookupInv, TypeOK
<1>3. CASE desc' = Refused
  BY <1>1, <1>2, <1>3 DEF LookupInv, TypeOK, Stages
<1>4. CASE desc' # Refused
  <2>1. raw # Refused /\ desc' = DescriptorOf(raw)
    BY <1>1, <1>4
  <2>2. IsDescriptor(desc')
    BY <1>4, <2>1, ParsedDescriptor
  <2>3. DescriptorInv'
    BY <1>1, <1>4, <2>1 DEF DescriptorInv
  <2>4. TypeOK'
    BY <1>1, <1>2, <1>4, <2>2 DEF TypeOK, Stages, IsDescriptor
  <2>5. QED
    BY <1>1, <1>2, <1>4, <2>3, <2>4 DEF LookupInv
<1>5. QED
  BY <1>3, <1>4

LEMMA ReadManifestInv ==
  ASSUME MarkersAreAtoms, LookupInv, NEW e \in Entries, NEW options, ReadManifest(e, options)
  PROVE  LookupInv'
<1>1. /\ stage = "start" /\ entry' = e /\ settings' = options
      /\ manifest' = ManifestOf(e, options)
      /\ stage' = IF manifest' = Refused THEN "refused" ELSE "manifest"
      /\ UNCHANGED <<string, desc, request, args, found>>
  BY DEF ReadManifest, Reach
<1>2. found = None /\ string \in Strings \cup {None}
  BY <1>1 DEF LookupInv, TypeOK
<1>3. CASE manifest' = Refused
  BY <1>1, <1>2, <1>3 DEF LookupInv, TypeOK, Stages
<1>4. CASE manifest' # Refused
  <2>1. ManifestInv'
    BY <1>1, <1>4 DEF ManifestInv
  <2>2. DOMAIN manifest' = Manifest
    BY <1>1, <1>4, ManifestRead
  <2>3. TypeOK'
    BY <1>1, <1>2, <1>4, <2>2 DEF TypeOK, Stages
  <2>4. QED
    BY <1>1, <1>2, <1>4, <2>1, <2>3 DEF LookupInv
<1>5. QED
  BY <1>3, <1>4

\* Reading the manifest of a lock gives what was written, but for entries without fields.
LEMMA ReadBackKeeps ==
  ASSUME MarkersAreAtoms, LookupInv, ReadBack
  PROVE  LET raw == FromJSON(entry)
             opts == OptionsFromJSON(settings)
         IN  /\ stage = "manifest" /\ string = None /\ ManifestInv
             /\ ManifestOf(entry, settings) = Made(raw, opts)
             /\ manifest \in {Made(raw, opts), Made(Nulled(raw), opts)}
             /\ manifest' = Made(Nulled(raw), opts) /\ manifest' # Refused
<1> DEFINE raw == FromJSON(entry)
           opts == OptionsFromJSON(settings)
<1>1. /\ stage = "manifest"
      /\ manifest' = ManifestFromJSON(ManifestToJSON(manifest), Manifest)
  BY DEF ReadBack
<1>2. string = None /\ ManifestInv /\ entry \in Entries \cup {None}
  BY <1>1 DEF LookupInv, TypeOK
<1>3. /\ manifest \in {Made(raw, opts), Made(Nulled(raw), opts)}
      /\ ManifestOf(entry, settings) = Made(raw, opts)
      /\ ManifestOf(entry, settings) # Refused
  BY <1>2, ManifestNow
<1>4. /\ IsRaw(raw) /\ IsOptions(opts) /\ (raw # None => ValidRaw(raw))
  BY <1>2, <1>3, ManifestRead DEF Means
<1> HIDE DEF raw, opts
<1>5. IsRaw(Nulled(raw)) /\ Nulled(Nulled(raw)) = Nulled(raw)
      /\ (Nulled(raw) # None => ValidRaw(Nulled(raw)))
  BY <1>4 DEF Nulled, IsRaw
<1>6. manifest' = Made(Nulled(raw), opts)
  <2>1. CASE manifest = Made(raw, opts)
    BY <1>1, <1>4, <2>1, ManifestKept
  <2>2. CASE manifest = Made(Nulled(raw), opts)
    <3>1. manifest' = Made(Nulled(Nulled(raw)), opts)
      BY <1>1, <1>4, <1>5, <2>2, ManifestKept
    <3>2. QED
      BY <1>5, <3>1
  <2>3. QED
    BY <1>3, <2>1, <2>2
<1>7. manifest' # Refused
  BY <1>6, MadeMembers
<1>8. QED
  BY <1>1, <1>2, <1>3, <1>6, <1>7 DEF raw, opts

LEMMA ReadBackInv ==
  ASSUME MarkersAreAtoms, LookupInv, ReadBack
  PROVE  LookupInv'
<1> DEFINE raw == FromJSON(entry)
           opts == OptionsFromJSON(settings)
<1>1. /\ stage = "manifest" /\ string = None
      /\ ManifestInv /\ ManifestOf(entry, settings) = Made(raw, opts)
      /\ manifest' = Made(Nulled(raw), opts) /\ manifest' # Refused
  BY ReadBackKeeps
<1>2. /\ stage' = "manifest" /\ UNCHANGED <<string, entry, settings, desc, request, args, found>>
  BY <1>1 DEF ReadBack, Reach
<1>3. SameManifest(ManifestOf(entry, settings), manifest')
  BY <1>1, SameMade
<1>4. ManifestInv'
  BY <1>1, <1>2, <1>3 DEF ManifestInv
<1>5. DOMAIN manifest' = Manifest
  BY <1>1, MadeMembers
<1>6. TypeOK' /\ found = None
  BY <1>1, <1>2, <1>5 DEF LookupInv, TypeOK, Stages
<1>7. QED
  BY <1>1, <1>2, <1>4, <1>6 DEF LookupInv

LEMMA MakeDescriptorInv ==
  ASSUME MarkersAreAtoms, LookupInv, MakeDescriptor
  PROVE  LookupInv'
<1> DEFINE raw == FromJSON(entry)
           opts == OptionsFromJSON(settings)
           descriptors == EnvironmentManifest(manifest)
<1>1. /\ stage = "manifest"
      /\ stage' = IF descriptors = Refused THEN "refused" ELSE "descriptor"
      /\ desc' = IF descriptors = Refused THEN Refused ELSE descriptors[Iid]
      /\ UNCHANGED <<string, entry, settings, manifest, request, args, found>>
  BY DEF MakeDescriptor, Reach
<1>2. /\ string = None /\ ManifestInv /\ entry \in Entries \cup {None} /\ found = None
      /\ DOMAIN manifest = Manifest
  BY <1>1 DEF LookupInv, TypeOK
<1>3. CASE descriptors = Refused
  BY <1>1, <1>2, <1>3 DEF LookupInv, TypeOK, Stages
<1>4. CASE descriptors # Refused
  <2>1. /\ manifest \in {Made(raw, opts), Made(Nulled(raw), opts)}
        /\ ManifestOf(entry, settings) = Made(raw, opts)
        /\ ManifestOf(entry, settings) # Refused
    BY <1>2, ManifestNow
  <2>2. /\ ManifestOf(entry, settings).install[Iid] = raw
        /\ raw # None => TypedRaw(raw) /\ ValidRaw(raw)
    BY <1>2, <2>1, ManifestRead
  <2>3. PICK now \in {raw, Nulled(raw)} :
          manifest.install = [i \in {Iid} |-> now] /\ manifest.install # None
    BY <2>1, MadeMembers
  <2>4. /\ descriptors = DescriptorsOf(manifest)
        /\ \A i \in DOMAIN descriptors : descriptors[i] # Refused
    BY <1>4 DEF EnvironmentManifest
  <2>5. DescriptorsOf(manifest) = [i \in {Iid} |-> InstalledDescriptor(i, now)]
    BY <2>3 DEF DescriptorsOf
  <2> HIDE DEF descriptors
  <2>6. descriptors[Iid] = InstalledDescriptor(Iid, now) /\ descriptors[Iid] # Refused
    BY <2>4, <2>5
  <2>7. InstalledDescriptor(Iid, now) = InstalledDescriptor(Iid, raw)
    BY NulledDescriptor
  <2>8. desc' = InstalledDescriptor(Iid, raw) /\ desc' # Refused
    BY <1>1, <1>4, <2>6, <2>7
  <2>9. IsDescriptor(desc')
    BY <2>2, <2>8, InstalledIsTyped
  <2>10. DescriptorInv'
    BY <1>1, <1>2, <2>2, <2>8 DEF DescriptorInv
  <2>11. ManifestInv'
    BY <1>1, <1>2 DEF ManifestInv
  <2>12. TypeOK'
    BY <1>1, <1>2, <1>4, <2>9 DEF TypeOK, Stages, IsDescriptor, LookupInv
  <2>13. QED
    BY <1>1, <1>2, <1>4, <2>10, <2>11, <2>12 DEF LookupInv
<1>5. QED
  BY <1>3, <1>4

IsArgs(a) == a = [x \in DOMAIN NoArgs |-> a[x]]

\* The arguments b are those of a, filled by the descriptor d.
AreFilled(d, a, b) ==
  /\ AsksForRange(d) => d.semver.kind # "empty"
  /\ b.pnameOrAttrName = Or(d.name, a.pnameOrAttrName)
  /\ b.version = Or(d.version, a.version)
  /\ b.semver = IF AsksForRange(d) THEN d.semver ELSE a.semver
  /\ b.subtrees = IF d.subtree = None THEN a.subtrees ELSE <<d.subtree>>
  /\ b.systems = Or(d.systems, a.systems)
  /\ b.relPath = d.path
  /\ b.preferPreReleases = IF AsksForRange(d) /\ d.semver.op = "~"
                           THEN d.semver.tag # 0 ELSE a.preferPreReleases
  /\ \A x \in DOMAIN NoArgs \ {"pnameOrAttrName", "version", "semver", "subtrees",
                               "systems", "relPath", "preferPreReleases"} : b[x] = a[x]

\* What fillPkgQueryArgs() sets, and what it leaves alone.
LEMMA FillArgsFields ==
  ASSUME MarkersAreAtoms, NEW d, NEW a, IsArgs(a), FillArgs(d, a) # Refused
  PROVE  IsArgs(FillArgs(d, a)) /\ AreFilled(d, a, FillArgs(d, a))
<1> DEFINE name == Or(d.name, a.pnameOrAttrName)
           version == Or(d.version, a.version)
           semver == IF AsksForRange(d) THEN d.semver ELSE a.semver
           subtrees == IF d.subtree = None THEN a.subtrees ELSE <<d.subtree>>
           systems == Or(d.systems, a.systems)
           f == Filled(d, a)
           pre == IF AsksForRange(d) /\ d.semver.op = "~" THEN d.semver.tag # 0
                  ELSE a.preferPreReleases
           b == FillArgs(d, a)
<1>1. f = [a EXCEPT !.pnameOrAttrName = name, !.version = version, !.semver = semver,
                    !.subtrees = subtrees, !.systems = systems, !.relPath = d.path]
  BY DEF Filled
<1>2. (AsksForRange(d) => d.semver.kind # "empty")
      /\ b = [f EXCEPT !.preferPreReleases = IF AsksForRange(d) /\ d.semver.op = "~"
                                             THEN d.semver.tag # 0 ELSE @]
  BY DEF FillArgs
<1>3. {"pnameOrAttrName", "version", "semver", "subtrees", "systems", "relPath",
       "preferPreReleases"} \subseteq DOMAIN NoArgs
  BY DEF NoArgs
<1>4. DOMAIN a = DOMAIN NoArgs
  BY DEF IsArgs
<1> HIDE DEF name, version, semver, subtrees, systems, f, b
<1>5. /\ DOMAIN f = DOMAIN NoArgs /\ f.pnameOrAttrName = name /\ f.version = version
      /\ f.semver = semver /\ f.subtrees = subtrees /\ f.systems = systems
      /\ f.relPath = d.path /\ f.preferPreReleases = a.preferPreReleases
      /\ \A x \in DOMAIN NoArgs \ {"pnameOrAttrName", "version", "semver", "subtrees",
                                   "systems", "relPath", "preferPreReleases"} : f[x] = a[x]
  BY <1>1, <1>3, <1>4
<1>6. b = [f EXCEPT !.preferPreReleases = pre]
  BY <1>2, <1>5
<1> HIDE DEF pre
<1>7. /\ DOMAIN b = DOMAIN NoArgs /\ b.preferPreReleases = pre
      /\ \A x \in DOMAIN NoArgs \ {"preferPreReleases"} : b[x] = f[x]
  BY <1>3, <1>5, <1>6
<1>8. IsArgs(b)
  BY <1>5, <1>6 DEF IsArgs
<1>9. /\ b.pnameOrAttrName = name /\ b.version = version
      /\ b.semver = semver /\ b.subtrees = subtrees /\ b.systems = systems
      /\ b.relPath = d.path
  BY <1>3, <1>5, <1>7
<1>10. \A x \in DOMAIN NoArgs \ {"pnameOrAttrName", "version", "semver", "subtrees",
                                 "systems", "relPath", "preferPreReleases"} : b[x] = a[x]
  BY <1>5, <1>7
<1>11. QED
  BY <1>2, <1>7, <1>8, <1>9, <1>10
     DEF AreFilled, name, version, semver, subtrees, systems, pre, b

LEMMA PrintQueryInv ==
  ASSUME MarkersAreAtoms, LookupInv, PrintQuery
  PROVE  LookupInv'
<1>1. /\ stage = "descriptor" /\ string # None /\ args' = FillArgs(desc, NoArgs)
      /\ stage' = IF args' = Refused THEN "refused" ELSE "printed"
      /\ UNCHANGED <<string, entry, settings, manifest, desc, request, found>>
  BY DEF PrintQuery, Reach
<1>2. /\ DescriptorInv /\ found = None /\ TypeOK
      /\ desc.version = None \/ desc.semver = None
  BY <1>1 DEF LookupInv, TypeOK
<1>3. CASE args' = Refused
  BY <1>1, <1>2, <1>3 DEF LookupInv, TypeOK, Stages
<1>4. CASE args' # Refused
  <2>1. IsArgs(NoArgs) /\ NoArgs.version = None /\ NoArgs.semver = None
    BY DEF IsArgs, NoArgs
  <2>2. /\ args'.version = Or(desc.version, None)
        /\ args'.semver = IF AsksForRange(desc) THEN desc.semver ELSE None
    <3>1. AreFilled(desc, NoArgs, args')
      BY <1>1, <1>4, <2>1, FillArgsFields
    <3>2. QED
      BY <2>1, <3>1 DEF AreFilled
  <2>3. args'.version = None \/ args'.semver = None
    BY <1>2, <2>2 DEF Or, AsksForRange
  <2>4. TypeOK'
    BY <1>1, <1>2, <1>4, <2>3 DEF TypeOK, Stages
  <2>5. DescriptorInv'
    BY <1>1, <1>2 DEF DescriptorInv
  <2>6. QED
    BY <1>1, <1>2, <1>4, <2>4, <2>5 DEF LookupInv
<1>5. QED
  BY <1>3, <1>4

LEMMA TryResolveInv ==
  ASSUME MarkersAreAtoms, LookupInv, NEW g \in GlobalOptions, NEW o \in OldOptions,
         NEW n \in DOMAIN Reg.inputs, NEW s \in AllSystems, TryResolveIn(g, o, n, s)
  PROVE  LookupInv'
<1> DEFINE options == CombinedOptions(OptionsFromJSON(g), OptionsFromJSON(o), manifest.options)
           given == CombinedOptions(OptionsFromJSON(g), OptionsFromJSON(o),
                                    OptionsFromJSON(settings))
<1>1. /\ stage = "descriptor" /\ string = None
      /\ request' = [system |-> s, input |-> n, global |-> g, old |-> o]
      /\ UNCHANGED <<string, entry, settings, manifest, desc, found>>
      /\ \/ Skips(s) /\ stage' = "done" /\ args' = None
         \/ /\ ~Skips(s) /\ args' = QueryArgs(options, n, s)
            /\ stage' = IF args' = Refused THEN "refused" ELSE "query"
  BY DEF TryResolveIn, Reach
<1>2. /\ DescriptorInv /\ found = None /\ TypeOK /\ ManifestInv
      /\ entry \in Entries \cup {None}
  BY <1>1 DEF LookupInv, TypeOK
<1>3. options = given
  <2>1. /\ manifest \in {Made(FromJSON(entry), OptionsFromJSON(settings)),
                         Made(Nulled(FromJSON(entry)), OptionsFromJSON(settings))}
    BY <1>2, ManifestNow
  <2>2. manifest.options = OptionsFromJSON(settings)
    BY <2>1, MadeMembers
  <2>3. QED
    BY <2>2
<1>4. ManifestInv' /\ DescriptorInv'
  BY <1>1, <1>2 DEF ManifestInv, DescriptorInv
<1>5. /\ request'.system = s /\ request'.input = n /\ request'.global = g /\ request'.old = o
      /\ request' \in [system : AllSystems, input : DOMAIN Reg.inputs,
                       global : GlobalOptions, old : OldOptions]
  BY <1>1
<1>6. Skips(request.system)' <=> Skips(s)
  BY <1>1, <1>5 DEF Skips
<1>7. CASE Skips(s) /\ stage' = "done" /\ args' = None
  <2>1. QueryInv'
    BY <1>5, <1>6, <1>7 DEF QueryInv
  <2>2. FoundInv'
    BY <1>1, <1>2, <1>6, <1>7 DEF FoundInv
  <2>3. TypeOK'
    BY <1>1, <1>2, <1>7 DEF TypeOK, Stages
  <2>4. QED
    BY <1>1, <1>4, <1>7, <2>1, <2>2, <2>3 DEF LookupInv
<1>8. CASE ~Skips(s) /\ args' = Refused /\ stage' = "refused"
  BY <1>1, <1>2, <1>8 DEF LookupInv, TypeOK, Stages
<1>9. CASE ~Skips(s) /\ args' = QueryArgs(options, n, s) /\ args' # Refused /\ stage' = "query"
  <2>1. ValidArgs(args')
    BY <1>9 DEF QueryArgs
  <2>2. args' = QueryArgs(given, n, s)
    BY <1>3, <1>9
  <2>3. QueryArgs(given, n, s)' = QueryArgs(given, n, s)
    BY <1>1 DEF QueryArgs
  <2> HIDE DEF options
  <2>4. QueryInv'
    BY <1>1, <1>5, <1>6, <1>9, <2>2, <2>3 DEF QueryInv
  <2>5. TypeOK'
    BY <1>1, <1>2, <1>9, <2>1 DEF TypeOK, Stages
  <2>6. QED
    BY <1>1, <1>2, <1>4, <1>9, <2>4, <2>5 DEF LookupInv
<1>10. QED
  BY <1>1, <1>7, <1>8, <1>9

LEMMA RunQueryInv ==
  ASSUME LookupInv, RunQuery
  PROVE  LookupInv'
<1>1. /\ stage = "query" /\ stage' = "done"
      /\ found' \in IF Firsts(Catalog, args) = {} THEN {None} ELSE Firsts(Catalog, args)
      /\ UNCHANGED <<string, entry, settings, manifest, desc, request, args>>
  BY DEF RunQuery
<1>2. /\ DescriptorInv /\ QueryInv /\ TypeOK /\ string = None /\ ManifestInv
  BY <1>1 DEF LookupInv
<1>3. ~Skips(request.system)
  BY <1>1, <1>2 DEF QueryInv
<1>4. ManifestInv' /\ DescriptorInv'
  BY <1>1, <1>2 DEF ManifestInv, DescriptorInv
<1>5. ~Skips(request.system)'
  BY <1>1, <1>3 DEF Skips
<1>6. QueryInv'
  <2>1. \A options, n, s : QueryArgs(options, n, s)' = QueryArgs(options, n, s)
    BY <1>1 DEF QueryArgs
  <2>2. QED
    BY <1>1, <1>2, <1>3, <1>5, <2>1 DEF QueryInv
<1>7. FoundInv'
  BY <1>1, <1>5 DEF FoundInv
<1>8. found' \in Catalog \cup {None}
  BY <1>1 DEF Firsts, Execute
<1>9. TypeOK'
  BY <1>1, <1>2, <1>8 DEF TypeOK, Stages
<1>10. QED
  BY <1>1, <1>2, <1>4, <1>6, <1>7, <1>9 DEF LookupInv

LEMMA StutterInv ==
  ASSUME LookupInv, UNCHANGED vars
  PROVE  LookupInv'
BY DEF vars, LookupInv, TypeOK, ManifestInv, DescriptorInv, QueryInv, FoundInv, QueryArgs, Skips

\* Each step of a look-up keeps the invariant.
LEMMA NextInv ==
  ASSUME MarkersAreAtoms, LookupInv, [Next]_vars
  PROVE  LookupInv'
BY ParseInv, PrintQueryInv, ReadManifestInv, ReadBackInv, MakeDescriptorInv, TryResolveInv,
   RunQueryInv, StutterInv DEF Next

(* Every structure of a look-up is what the steps before it make of the     *)
(* entry and the options, each typed and checked, whether the manifest went *)
(* through a lockfile or not (environment.cc:333, manifest-raw.cc:649).     *)
THEOREM LookupInvariant == ASSUME MarkersAreAtoms PROVE Spec => []LookupInv
<1>1. Init => LookupInv
  BY InitInv
<1>2. LookupInv /\ [Next]_vars => LookupInv'
  BY NextInv
<1>3. QED
  BY <1>1, <1>2, PTL DEF Spec

(* A lockfile's manifest is the manifest it was made of: what is written is *)
(* accepted when it is read, and no field is lost.                          *)
THEOREM ReadingBackKeeps == ASSUME MarkersAreAtoms PROVE Spec => SurvivesReadingBack
<1>1. ASSUME LookupInv, ReadBack PROVE manifest' # Refused /\ SameManifest(manifest, manifest')
  <2> DEFINE raw == FromJSON(entry)
             opts == OptionsFromJSON(settings)
  <2>1. /\ manifest \in {Made(raw, opts), Made(Nulled(raw), opts)}
        /\ manifest' = Made(Nulled(raw), opts) /\ manifest' # Refused
    BY <1>1, ReadBackKeeps
  <2>2. Nulled(Nulled(raw)) = Nulled(raw)
    BY DEF Nulled
  <2> HIDE DEF raw, opts
  <2>3. CASE manifest = Made(raw, opts)
    BY <2>1, <2>3, SameMade
  <2>4. CASE manifest = Made(Nulled(raw), opts)
    BY <2>1, <2>2, <2>4, SameMade
  <2>5. QED
    BY <2>1, <2>3, <2>4
<1>2. LookupInv /\ [Next]_vars
      => [ReadBack => manifest' # Refused /\ SameManifest(manifest, manifest')]_vars
  BY <1>1
<1>3. QED
  BY <1>2, LookupInvariant, PTL DEF Spec, SurvivesReadingBack

(* What a descriptor's string form means is what its fields mean in a      *)
(* manifest, for every string that is accepted.                            *)
THEOREM StringFormsAgree == ASSUME MarkersAreAtoms PROVE Spec => []StringFormAgrees
<1>1. LookupInv => StringFormAgrees
  <2>1. SUFFICES ASSUME LookupInv, stage = "descriptor", string # None
                 PROVE  desc = DescriptorOf(FromJSON(SameEntry(string)))
    BY DEF StringFormAgrees
  <2>2. /\ string \in Strings /\ ParseString(string) # Refused
        /\ desc = DescriptorOf(ParseString(string))
    BY <2>1 DEF LookupInv, TypeOK, DescriptorInv
  <2>3. QED
    BY <2>2, StringIsEntry
<1>2. QED
  BY <1>1, LookupInvariant, PTL
-----------------------------------------------------------------------------
(***************************************************************************)
(* What is asked for.                                                      *)
(***************************************************************************)
Parts(path) == IF path.list THEN path.parts ELSE SplitAttrPath(path.parts)

LEMMA WrittenParts ==
  ASSUME NEW path, IsPath(path), NEW T, NEW attrs \in Seq(T), attrs # <<>>
  PROVE  IsWritten(path, attrs) <=> Parts(path) = attrs
<1>1. path.list \in BOOLEAN /\ path.parts \in Seq(Range(path.parts))
  BY DEF IsPath
<1> DEFINE S == T \cup Range(path.parts)
<1>2. T \subseteq S /\ Range(path.parts) \subseteq S
  OBVIOUS
<1> HIDE DEF S
<1>3. path.parts \in Seq(S) /\ attrs \in Seq(S)
  BY <1>1, <1>2, WiderSeq
<1>4. SplitAttrPath(path.parts) = attrs
      <=> (path.parts = attrs /\ Last(attrs) # "") \/ path.parts = Append(attrs, "")
  BY <1>3, SplitIsWritten
<1>5. CASE path.list
  BY <1>5 DEF IsWritten, Parts
<1>6. CASE ~path.list
  BY <1>4, <1>6, Zenon DEF IsWritten, Parts
<1>7. QED
  BY <1>5, <1>6

\* A list with its first two members apart.
LEMMA TwoAndMore ==
  ASSUME NEW S, NEW w \in Seq(S), NEW a \in S, NEW b \in S, NEW t \in Seq(S)
  PROVE  w = <<a, b>> \o t
         <=> Len(w) >= 2 /\ w[1] = a /\ w[2] = b /\ SubSeq(w, 3, Len(w)) = t
<1> DEFINE c == <<a, b>> \o t
           r == SubSeq(w, 3, Len(w))
<1>1. /\ c \in Seq(S) /\ Len(c) = Len(t) + 2 /\ c[1] = a /\ c[2] = b
      /\ \A i \in 3..Len(c) : c[i] = t[i - 2]
  <2>1. <<a, b>> \in Seq(S) /\ Len(<<a, b>>) = 2
    OBVIOUS
  <2>2. QED
    BY <2>1
<1>2. Len(w) >= 2 => /\ r \in Seq(S) /\ Len(r) = Len(w) - 2
                     /\ \A i \in 1..Len(w) - 2 : r[i] = w[i + 2]
  <2>1. \A i \in 3..Len(w) : w[i] \in S
    OBVIOUS
  <2>2. PICK n \in Nat : n = Len(w)
    OBVIOUS
  <2>3. n >= 2 => /\ SubSeq(w, 3, n) \in Seq(S) /\ Len(SubSeq(w, 3, n)) = n - 2
                  /\ \A i \in 1..n - 2 : SubSeq(w, 3, n)[i] = w[i + 2]
    BY <2>1, <2>2
  <2>4. QED
    BY <2>2, <2>3
<1> HIDE DEF c, r
<1>3. ASSUME w = c PROVE Len(w) >= 2 /\ w[1] = a /\ w[2] = b /\ r = t
  <2>1. Len(w) >= 2 /\ w[1] = a /\ w[2] = b
    BY <1>1, <1>3
  <2>2. Len(r) = Len(t) /\ \A i \in 1..Len(r) : r[i] = t[i]
    <3>1. Len(r) = Len(t) /\ Len(w) = Len(t) + 2 /\ Len(t) \in Nat
      BY <1>1, <1>2, <1>3, <2>1
    <3>2. SUFFICES ASSUME NEW i \in 1..Len(t) PROVE r[i] = t[i]
      BY <3>1
    <3>3. i \in 1..Len(w) - 2 /\ i + 2 \in 3..Len(c) /\ (i + 2) - 2 = i
      BY <1>1, <3>1
    <3>4. r[i] = w[i + 2] /\ c[i + 2] = t[i]
      BY <1>1, <1>2, <2>1, <3>3
    <3>5. QED
      BY <1>3, <3>4
  <2>3. QED
    BY <1>2, <2>1, <2>2, SeqEqual
<1>4. ASSUME Len(w) >= 2, w[1] = a, w[2] = b, r = t PROVE w = c
  <2>1. Len(w) = Len(c)
    BY <1>1, <1>2, <1>4
  <2>2. \A i \in 3..Len(w) : w[i] = c[i]
    <3>1. SUFFICES ASSUME NEW i \in 3..Len(w) PROVE w[i] = c[i]
      OBVIOUS
    <3>2. i - 2 \in 1..Len(w) - 2
      OBVIOUS
    <3>3. r[i - 2] = w[i]
      BY <1>2, <1>4, <3>2
    <3>4. QED
      BY <1>1, <1>4, <2>1, <3>3
  <2>3. \A i \in 1..Len(w) : w[i] = c[i]
    BY <1>1, <1>4, <2>2
  <2>4. QED
    BY <1>1, <2>1, <2>3, SeqEqual
<1>5. QED
  BY <1>3, <1>4 DEF c, r

\* A row is at an absolute path, on a system that is asked for, if it is where
\* the descriptor looks.
LEMMA AbsoluteIsFound ==
  ASSUME MarkersAreAtoms, NEW path, IsPath(path), NEW row, IsRow(row), NEW glob, glob = Glob(path),
         Len(glob) >= 3, glob[1] # None, \A i \in 3..Len(glob) : glob[i] # None,
         NEW systems, ~Open(glob[2]) => systems \in {None, <<glob[2]>>},
         NEW looked, looked = IF Open(glob[2]) THEN systems ELSE <<glob[2]>>
  PROVE  /\ IsAtAbsolute(path, row)
         /\ systems # None => row.system \in ToSet(systems)
         <=>
         /\ looked # None => row.system \in ToSet(looked)
         /\ row.subtree = glob[1] /\ row.relPath = SubSeq(glob, 3, Len(glob))
<1> DEFINE w == Parts(path)
           S == Range(path.parts) \cup Range(row.relPath)
                  \cup {row.subtree, row.system, "*", "null", None}
           Systems == {row.system, "*", "null", None}
<1>1. /\ path.list \in BOOLEAN /\ path.parts \in Seq(Range(path.parts))
      /\ path.list \/ None \notin Range(path.parts)
  BY DEF IsPath
<1>2. row.relPath \in Seq(Range(row.relPath))
  BY DEF IsRow
<1>3. w \in Seq(Range(path.parts))
  BY <1>1, SplitIsSeq DEF Parts
<1>4. /\ Range(path.parts) \subseteq S /\ Range(row.relPath) \subseteq S
      /\ row.subtree \in S /\ Systems \subseteq S
  OBVIOUS
<1> HIDE DEF S
<1>5. w \in Seq(S) /\ row.relPath \in Seq(S)
  BY <1>2, <1>3, <1>4, WiderSeq
<1>6. /\ glob \in Seq(S) /\ Len(glob) = Len(w) /\ Len(w) \in Nat
      /\ \A i \in 1..Len(w) : glob[i] = IF ~path.list /\ w[i] \in {"*", "null"} THEN None ELSE w[i]
      /\ ~path.list => \A i \in 1..Len(w) : w[i] # None
  <2>1. CASE path.list
    BY <1>5, <2>1 DEF Glob, Parts
  <2>2. CASE ~path.list
    <3>1. glob = [i \in DOMAIN w |-> IF w[i] \in {"*", "null"} THEN None ELSE w[i]]
      BY <2>2 DEF Glob, Parts
    <3>2. \A i \in 1..Len(w) : w[i] # None
      BY <1>1, <1>3, <2>2
    <3> HIDE DEF w
    <3>3. None \in S
      BY <1>4
    <3>4. QED
      BY <1>5, <2>2, <3>1, <3>2, <3>3
  <2>3. QED
    BY <1>1, <2>1, <2>2
<1> HIDE DEF w
<1>7. w[1] = glob[1] /\ \A i \in 3..Len(w) : w[i] = glob[i]
  BY <1>6
<1>8. SubSeq(w, 3, Len(w)) = SubSeq(glob, 3, Len(glob))
  BY <1>5, <1>6, <1>7
<1>9. \A sys \in Systems :
        IsWritten(path, <<row.subtree, sys>> \o row.relPath)
        <=> /\ w[1] = row.subtree /\ w[2] = sys
            /\ SubSeq(w, 3, Len(w)) = row.relPath
  <2>1. SUFFICES ASSUME NEW sys \in Systems
                 PROVE  IsWritten(path, <<row.subtree, sys>> \o row.relPath)
                        <=> /\ w[1] = row.subtree /\ w[2] = sys
                            /\ SubSeq(w, 3, Len(w)) = row.relPath
    OBVIOUS
  <2> DEFINE attrs == <<row.subtree, sys>> \o row.relPath
  <2>2. attrs \in Seq(S) /\ attrs # <<>>
    <3>1. <<row.subtree, sys>> \in Seq(S) /\ Len(<<row.subtree, sys>>) = 2
      BY <1>4
    <3>2. QED
      BY <1>5, <3>1
  <2>3. IsWritten(path, attrs) <=> w = attrs
    BY <2>2, WrittenParts DEF w
  <2>4. w = attrs <=> Len(w) >= 2 /\ w[1] = row.subtree /\ w[2] = sys
                      /\ SubSeq(w, 3, Len(w)) = row.relPath
    BY <1>4, <1>5, TwoAndMore
  <2>5. Len(w) >= 2
    BY <1>6
  <2>6. QED
    BY <2>3, <2>4, <2>5
<1>10. IsAtAbsolute(path, row)
       <=> /\ glob[1] = row.subtree /\ SubSeq(glob, 3, Len(glob)) = row.relPath
           /\ w[2] \in Systems
  BY <1>7, <1>8, <1>9 DEF IsAtAbsolute
<1>11. w[2] \in Systems <=> Open(glob[2]) \/ glob[2] = row.system
  BY <1>6 DEF Open
<1> HIDE DEF Systems
<1>12. CASE Open(glob[2])
  BY <1>10, <1>11, <1>12
<1>13. CASE ~Open(glob[2])
  <2>1. ToSet(<<glob[2]>>) = {glob[2]} /\ <<glob[2]>> # None
    BY DEF MarkersAreAtoms, ToSet
  <2>2. QED
    BY <1>10, <1>11, <1>13, <2>1
<1>14. QED
  BY <1>12, <1>13

\* A row has the version that is asked for, exactly or in its range.
LEMMA VersionIsFound ==
  ASSUME MarkersAreAtoms, NEW text \in Texts \cup {None}, NEW row,
         text # None => text.kind # "empty",
         NEW full, full.version = ExactOf(text), full.semver = RangeOf(text)
  PROVE  /\ IF full.version # None THEN row.version = full.version
            ELSE full.semver # None => row.semver # None
         /\ \/ full.semver = None \/ AnyVersion(full.semver)
            \/ row.semver \in SemverSat(full.semver, {row.semver})
         <=> (text # None => IsVersion(text, row))
<1>1. CASE text = None
  BY <1>1 DEF ExactOf, RangeOf
<1>2. CASE text # None
  <2>1. /\ text.kind \in {"dotted", "date", "word", "star", "any", "latest"}
        /\ text = [f \in DOMAIN text |-> text[f]]
    BY <1>2 DEF Texts
  <2>2. CASE text.op = "="
    <3> DEFINE plain == [text EXCEPT !.op = ""]
    <3>1. ExactOf(text) = plain /\ RangeOf(text) = None
      BY <1>2, <2>2 DEF ExactOf, RangeOf
    <3>2. plain = [f \in DOMAIN plain |-> plain[f]]
      BY <2>1
    <3>3. IsVersion(text, row) <=> row.version = plain
      BY <2>2 DEF IsVersion
    <3> HIDE DEF plain
    <3>4. plain # None
      BY <3>2 DEF MarkersAreAtoms
    <3>5. QED
      BY <1>2, <3>1, <3>3, <3>4
  <2>3. CASE text.op # "=" /\ text.kind \in {"star", "any"}
    <3>1. ExactOf(text) = None /\ RangeOf(text) = text /\ AnyVersion(text)
      BY <1>2, <2>3 DEF ExactOf, RangeOf, IsExactVersion, IsSemver, IsDate, IsSemverRange,
                        AnyVersion
    <3>2. IsVersion(text, row) <=> row.semver # None
      BY <2>3 DEF IsVersion, IsSemver
    <3>3. QED
      BY <1>2, <3>1, <3>2
  <2>4. CASE /\ text.op = "" /\ text.kind \notin {"star", "any"}
             /\ text.kind \in {"date", "word"} \/ IsSemver(text)
    <3>1. ExactOf(text) = text /\ RangeOf(text) = None
      BY <1>2, <2>1, <2>4 DEF ExactOf, RangeOf, IsExactVersion, IsDate, IsSemverRange
    <3>2. IsVersion(text, row) <=> row.version = text
      BY <2>4 DEF IsVersion
    <3>3. QED
      BY <1>2, <3>1, <3>2
  <2>5. CASE /\ text.op # "=" /\ text.kind \notin {"star", "any"}
             /\ ~(text.op = "" /\ (text.kind \in {"date", "word"} \/ IsSemver(text)))
    <3>1. ExactOf(text) = None /\ RangeOf(text) = text /\ ~AnyVersion(text)
      BY <1>2, <2>1, <2>5 DEF ExactOf, RangeOf, IsExactVersion, IsDate, IsSemverRange, AnyVersion
    <3>2. IsVersion(text, row) <=> row.semver # None /\ Satisfies(row.semver, CleanRange(text))
      BY <2>5 DEF IsVersion
    <3>3. row.semver \in SemverSat(text, {row.semver})
          <=> Satisfies(row.semver, CleanRange(text))
      BY DEF SemverSat
    <3>4. QED
      BY <1>2, <3>1, <3>2, <3>3
  <2>6. QED
    BY <2>2, <2>3, <2>4, <2>5
<1>3. QED
  BY <1>1, <1>2

\* The descriptor, when it is looked up, has what the entry asks for.
IsAsked(d) ==
  LET glob == Glob(Asked("absPath"))
  IN  /\ d.name = Or(Asked("name"), Iid) /\ d.name # None
      /\ d.version = ExactOf(Asked("version")) /\ d.semver = RangeOf(Asked("version"))
      /\ Asked("version") \in Texts \cup {None}
      /\ Asked("path") # None => IsPath(Asked("path")) /\ Asked("absPath") = None
      /\ Asked("absPath") = None =>
           /\ d.subtree = None /\ d.systems = Asked("systems")
           /\ d.path = IF Asked("path") = None THEN None ELSE Parts(Asked("path"))
      /\ Asked("absPath") # None =>
           /\ IsPath(Asked("absPath"))
           /\ Len(glob) >= 3 /\ glob[1] # None /\ glob[1] \in Subtrees
           /\ \A i \in 3..Len(glob) : glob[i] # None
           /\ ~Open(glob[2]) => Asked("systems") \in {None, <<glob[2]>>}
           /\ d.subtree = glob[1] /\ d.path = SubSeq(glob, 3, Len(glob))
           /\ d.systems = IF Open(glob[2]) THEN Asked("systems") ELSE <<glob[2]>>

\* A descriptor asks for what the entry says.
LEMMA DescriptorIsAsked ==
  ASSUME MarkersAreAtoms, LookupInv, stage \in {"descriptor", "query", "done"}, string = None
  PROVE  IsAsked(desc)
<1> DEFINE raw == FromJSON(entry)
<1>1. /\ DescriptorInv /\ ManifestInv /\ entry \in Entries \cup {None}
  BY DEF LookupInv, TypeOK
<1>2. ManifestOf(entry, settings) # Refused
  BY <1>1 DEF ManifestInv
<1>3. /\ raw # Refused /\ ManifestOf(entry, settings).install[Iid] = raw
      /\ raw # None => TypedRaw(raw) /\ ValidRaw(raw)
  BY <1>1, <1>2, ManifestRead
<1>4. desc = InstalledDescriptor(Iid, raw) /\ desc # Refused
  BY <1>1, <1>3 DEF DescriptorInv
<1>5. /\ raw = None <=> entry = None
      /\ entry # None => DOMAIN entry \subseteq RawFields
                         /\ \A f \in RawFields : raw[f] = Member(entry, f)
  BY <1>3, RawRead
<1>6. Iid # None
  BY EntriesAssumption
<1>7. {"name", "version", "systems", "path", "absPath"} \subseteq RawFields
  BY DEF RawFields
<1>8. {"version", "semver", "subtree", "systems", "path"} \subseteq DOMAIN NoDescriptor \ {"name"}
  BY DEF NoDescriptor
<1> HIDE DEF raw
<1>9. CASE raw = None
  <2>1. \A f : Asked(f) = None
    BY <1>5, <1>9 DEF Asked
  <2>2. /\ desc.name = Iid
        /\ \A f \in DOMAIN NoDescriptor \ {"name"} : desc[f] = NoDescriptor[f]
    BY <1>4, <1>9, NullDescriptor
  <2>3. /\ NoDescriptor.version = None /\ NoDescriptor.semver = None
        /\ NoDescriptor.subtree = None /\ NoDescriptor.systems = None
        /\ NoDescriptor.path = None
    BY DEF NoDescriptor
  <2>4. /\ desc.version = None /\ desc.semver = None /\ desc.subtree = None
        /\ desc.systems = None /\ desc.path = None
    BY <1>8, <2>2, <2>3
  <2>5. QED
    BY <1>6, <2>1, <2>2, <2>4 DEF IsAsked, ExactOf, RangeOf, Or
<1>10. CASE raw # None
  <2> DEFINE d == DescriptorOf(raw)
             glob == Glob(raw.absPath)
  <2>1. \A f \in RawFields : raw[f] = Asked(f)
    BY <1>5, <1>10 DEF Asked, Member
  <2>2. /\ raw.name = Asked("name") /\ raw.version = Asked("version")
        /\ raw.systems = Asked("systems") /\ raw.path = Asked("path")
        /\ raw.absPath = Asked("absPath")
    BY <1>7, <2>1
  <2>3. /\ d # Refused /\ desc.name = Or(raw.name, Iid)
        /\ \A f \in DOMAIN NoDescriptor \ {"name"} : desc[f] = d[f]
    BY <1>3, <1>4, <1>10, InstalledFields
  <2>4. /\ d.version = ExactOf(raw.version) /\ d.semver = RangeOf(raw.version)
        /\ raw.absPath = None =>
             /\ d.subtree = None /\ d.systems = raw.systems
             /\ d.path = IF raw.path = None THEN None ELSE RawPath(raw)
        /\ raw.absPath # None =>
             /\ Len(glob) >= 3 /\ glob[1] # None
             /\ \A i \in 3..Len(glob) : glob[i] # None
             /\ ~Open(glob[2]) => raw.systems \in {None, <<glob[2]>>}
             /\ d.subtree = IF glob[1] \in Subtrees THEN glob[1] ELSE "ST_NONE"
             /\ d.path = SubSeq(glob, 3, Len(glob))
             /\ d.systems = IF Open(glob[2]) THEN raw.systems ELSE <<glob[2]>>
    BY <1>3, <1>10, <2>3, DescriptorFields
  <2>5. raw.absPath # None => glob[1] \in Subtrees /\ raw.path = None
    BY <1>3, <1>10 DEF ValidRaw
  <2>6. TypedRaw(raw)
    BY <1>3, <1>10
  <2> HIDE DEF d
  <2>7. /\ desc.version = d.version /\ desc.semver = d.semver /\ desc.subtree = d.subtree
        /\ desc.systems = d.systems /\ desc.path = d.path
    BY <1>8, <2>3
  <2>8. raw.path # None => RawPath(raw) = Parts(raw.path)
    BY DEF RawPath, Parts
  <2>9. desc.name # None
    BY <1>6, <2>3 DEF Or
  <2>10. raw.absPath # None => desc.subtree = glob[1]
    BY <2>4, <2>5, <2>7
  <2> HIDE DEF glob
  <2>11. /\ raw.version \in Texts \cup {None}
         /\ raw.path # None => IsPath(raw.path) /\ raw.absPath = None
         /\ raw.absPath # None => IsPath(raw.absPath)
    BY <2>5, <2>6 DEF TypedRaw
  <2>12. /\ raw.absPath = None =>
              /\ desc.subtree = None /\ desc.systems = raw.systems
              /\ desc.path = IF raw.path = None THEN None ELSE Parts(raw.path)
         /\ raw.absPath # None =>
              /\ Len(glob) >= 3 /\ glob[1] # None /\ glob[1] \in Subtrees
              /\ \A i \in 3..Len(glob) : glob[i] # None
              /\ ~Open(glob[2]) => raw.systems \in {None, <<glob[2]>>}
              /\ desc.path = SubSeq(glob, 3, Len(glob))
              /\ desc.systems = IF Open(glob[2]) THEN raw.systems ELSE <<glob[2]>>
    BY <2>4, <2>5, <2>7, <2>8
  <2>13. /\ desc.version = ExactOf(raw.version) /\ desc.semver = RangeOf(raw.version)
    BY <2>4, <2>7
  <2>14. QED
    BY <2>2, <2>3, <2>9, <2>10, <2>11, <2>12, <2>13 DEF IsAsked, glob
<1>11. QED
  BY <1>9, <1>10

\* The arguments of the query have what the entry and the options ask for.
IsQuery(a) ==
  /\ IsArgs(a)
  /\ a.name = None /\ a.pname = None /\ a.partialMatch = None /\ a.partialNameMatch = None
  /\ a.pnameOrAttrName = desc.name
  /\ a.version = desc.version /\ a.semver = desc.semver
  /\ Asked("version") # None => Asked("version").kind # "empty"
  /\ a.subtrees = IF desc.subtree = None THEN PreferredSubtrees(Reg, request.input)
                  ELSE <<desc.subtree>>
  /\ a.systems = <<request.system>> /\ a.relPath = desc.path
  /\ a.allowUnfree = Setting("allow", "unfree", TRUE)
  /\ a.allowBroken = Setting("allow", "broken", FALSE)
  /\ Or(a.licenses, <<>>) = Setting("allow", "licenses", <<>>)
  /\ a.preferPreReleases = IF AsksForRange(desc) /\ desc.semver.op = "~" THEN desc.semver.tag # 0
                           ELSE Setting("semver", "preferPreReleases", FALSE)

\* The arguments of a query ask for what the descriptor, the input and the options say.
LEMMA QueryIsAsked ==
  ASSUME MarkersAreAtoms, LookupInv, stage \in {"query", "done"}, ~Skips(request.system)
  PROVE  IsQuery(args)
<1> DEFINE g == OptionsFromJSON(request.global)
           l == OptionsFromJSON(request.old)
           o == OptionsFromJSON(settings)
           a == ArgsOf(CombinedOptions(g, l, o))
           base == FillFromRegistry(Reg, request.input, a)
           filled == FillArgs(desc, base)
           At(section, f) == Or(Field(Field(o, section), f),
                                Or(Field(Field(l, section), f), Field(Field(g, section), f)))
<1>1. /\ string = None /\ DescriptorInv /\ ManifestInv /\ QueryInv
      /\ entry \in Entries \cup {None}
      /\ desc.version = None \/ desc.semver = None
  BY DEF LookupInv, TypeOK
<1>2. IsAsked(desc)
  BY <1>1, DescriptorIsAsked
<1>3. /\ Means(g, request.global) /\ Means(l, request.old) /\ Means(o, settings)
  <2>1. request.global \in GlobalOptions /\ request.old \in OldOptions
    BY <1>1 DEF QueryInv
  <2>2. ManifestOf(entry, settings) # Refused
    BY <1>1 DEF ManifestInv
  <2>3. QED
    BY <1>1, <2>1, <2>2, OptionsAssumption, OptionsRead, ManifestRead
<1>4. /\ IsArgs(a)
      /\ \A x \in DOMAIN NoArgs \ {"systems", "allowUnfree", "allowBroken", "licenses",
                                   "preferPreReleases"} : a[x] = NoArgs[x]
      /\ a.allowUnfree = Or(At("allow", "unfree"), TRUE)
      /\ a.allowBroken = Or(At("allow", "broken"), FALSE)
      /\ a.licenses = At("allow", "licenses")
      /\ a.preferPreReleases = Or(At("semver", "preferPreReleases"), FALSE)
  BY <1>3, CombinedArgs DEF Means, IsArgs
<1>5. filled # Refused /\ args = [filled EXCEPT !.systems = <<request.system>>]
  BY <1>1 DEF QueryInv, QueryArgs
<1>6. /\ \A x \in AllowFields : \A default :
           Setting("allow", x, default) = Or(At("allow", x), default)
      /\ \A x \in SemverFields : \A default :
           Setting("semver", x, default) = Or(At("semver", x), default)
  <2> HIDE DEF g, l, o
  <2>1. \A u, v, w, x : Or(u, Or(v, Or(w, x))) = Or(Or(u, Or(v, w)), x)
    BY DEF Or
  <2>2. ASSUME NEW x \in AllowFields, NEW default
        PROVE  Setting("allow", x, default) = Or(At("allow", x), default)
    <3>1. /\ Field(Field(o, "allow"), x) = Member(Member(settings, "allow"), x)
          /\ Field(Field(l, "allow"), x) = Member(Member(request.old, "allow"), x)
          /\ Field(Field(g, "allow"), x) = Member(Member(request.global, "allow"), x)
      BY <1>3 DEF Means
    <3>2. Setting("allow", x, default) =
            Or(Member(Member(settings, "allow"), x),
               Or(Member(Member(request.old, "allow"), x),
                  Or(Member(Member(request.global, "allow"), x), default)))
      BY DEF Setting
    <3>3. Setting("allow", x, default) =
            Or(Field(Field(o, "allow"), x),
               Or(Field(Field(l, "allow"), x), Or(Field(Field(g, "allow"), x), default)))
      BY <3>1, <3>2
    <3>4. QED
      BY <2>1, <3>3
  <2>3. ASSUME NEW x \in SemverFields, NEW default
        PROVE  Setting("semver", x, default) = Or(At("semver", x), default)
    <3>1. /\ Field(Field(o, "semver"), x) = Member(Member(settings, "semver"), x)
          /\ Field(Field(l, "semver"), x) = Member(Member(request.old, "semver"), x)
          /\ Field(Field(g, "semver"), x) = Member(Member(request.global, "semver"), x)
      BY <1>3 DEF Means
    <3>2. Setting("semver", x, default) =
            Or(Member(Member(settings, "semver"), x),
               Or(Member(Member(request.old, "semver"), x),
                  Or(Member(Member(request.global, "semver"), x), default)))
      BY DEF Setting
    <3>3. Setting("semver", x, default) =
            Or(Field(Field(o, "semver"), x),
               Or(Field(Field(l, "semver"), x), Or(Field(Field(g, "semver"), x), default)))
      BY <3>1, <3>2
    <3>4. QED
      BY <2>1, <3>3
  <2>4. QED
    BY <2>2, <2>3
<1>7. {"unfree", "broken", "licenses"} \subseteq AllowFields /\ "preferPreReleases" \in SemverFields
  BY DEF AllowFields, SemverFields
<1> HIDE DEF g, l, o, a, At
<1>8. /\ a.allowUnfree = Setting("allow", "unfree", TRUE)
      /\ a.allowBroken = Setting("allow", "broken", FALSE)
      /\ Or(a.licenses, <<>>) = Setting("allow", "licenses", <<>>)
      /\ a.preferPreReleases = Setting("semver", "preferPreReleases", FALSE)
  BY <1>4, <1>6, <1>7
<1>9. {"name", "pname", "partialMatch", "partialNameMatch", "pnameOrAttrName", "version",
       "semver", "subtrees", "systems", "relPath", "preferPreReleases", "licenses",
       "allowUnfree", "allowBroken"} \subseteq DOMAIN NoArgs
  BY DEF NoArgs
<1>10. /\ NoArgs.name = None /\ NoArgs.pname = None /\ NoArgs.partialMatch = None
       /\ NoArgs.partialNameMatch = None /\ NoArgs.pnameOrAttrName = None
       /\ NoArgs.version = None /\ NoArgs.semver = None
  BY DEF NoArgs
<1>11. /\ IsArgs(base) /\ base.subtrees = PreferredSubtrees(Reg, request.input)
       /\ \A x \in DOMAIN NoArgs \ {"subtrees"} : base[x] = a[x]
  <2>1. base = [a EXCEPT !.subtrees = PreferredSubtrees(Reg, request.input)]
    BY DEF FillFromRegistry
  <2>2. a = [x \in DOMAIN NoArgs |-> a[x]]
    BY <1>4 DEF IsArgs
  <2> HIDE DEF base
  <2>3. QED
    BY <1>9, <2>1, <2>2 DEF IsArgs
<1> HIDE DEF base
<1>12. IsArgs(filled) /\ AreFilled(desc, base, filled)
  BY <1>5, <1>11, FillArgsFields
<1> HIDE DEF filled
<1>13. /\ IsArgs(args) /\ args.systems = <<request.system>>
       /\ \A x \in DOMAIN NoArgs \ {"systems"} : args[x] = filled[x]
  BY <1>5, <1>9, <1>12 DEF IsArgs
<1>14. /\ base.name = None /\ base.pname = None /\ base.partialMatch = None
       /\ base.partialNameMatch = None /\ base.pnameOrAttrName = None
       /\ base.version = None /\ base.semver = None
  BY <1>4, <1>9, <1>10, <1>11
<1>15. /\ base.allowUnfree = a.allowUnfree /\ base.allowBroken = a.allowBroken
       /\ base.licenses = a.licenses /\ base.preferPreReleases = a.preferPreReleases
  BY <1>9, <1>11
<1>16. /\ filled.name = None /\ filled.pname = None /\ filled.partialMatch = None
       /\ filled.partialNameMatch = None
       /\ filled.allowUnfree = a.allowUnfree /\ filled.allowBroken = a.allowBroken
       /\ filled.licenses = a.licenses
  <2>1. \A x \in DOMAIN NoArgs \ {"pnameOrAttrName", "version", "semver", "subtrees",
                                  "systems", "relPath", "preferPreReleases"} : filled[x] = base[x]
    BY <1>12 DEF AreFilled
  <2>2. QED
    BY <1>9, <1>14, <1>15, <2>1
<1>17. /\ filled.pnameOrAttrName = desc.name /\ filled.version = desc.version
       /\ filled.semver = desc.semver
  <2>1. desc.name # None
    BY <1>2 DEF IsAsked
  <2>2. QED
    BY <1>1, <1>12, <1>14, <2>1 DEF AreFilled, Or, AsksForRange
<1>18. Asked("version") # None => Asked("version").kind # "empty"
  <2>1. SUFFICES ASSUME Asked("version") # None, Asked("version").kind = "empty" PROVE FALSE
    OBVIOUS
  <2>2. desc.version = None /\ desc.semver = Asked("version")
    BY <1>2, <2>1 DEF IsAsked, ExactOf, RangeOf
  <2>3. QED
    BY <1>12, <2>1, <2>2 DEF AreFilled, AsksForRange
<1>19. /\ filled.subtrees = IF desc.subtree = None THEN PreferredSubtrees(Reg, request.input)
                            ELSE <<desc.subtree>>
       /\ filled.relPath = desc.path
       /\ filled.preferPreReleases =
            IF AsksForRange(desc) /\ desc.semver.op = "~" THEN desc.semver.tag # 0
            ELSE Setting("semver", "preferPreReleases", FALSE)
  BY <1>8, <1>11, <1>12, <1>15 DEF AreFilled
<1>20. /\ args.name = filled.name /\ args.pname = filled.pname
       /\ args.partialMatch = filled.partialMatch
       /\ args.partialNameMatch = filled.partialNameMatch
       /\ args.pnameOrAttrName = filled.pnameOrAttrName /\ args.version = filled.version
       /\ args.semver = filled.semver /\ args.subtrees = filled.subtrees
       /\ args.relPath = filled.relPath /\ args.preferPreReleases = filled.preferPreReleases
       /\ args.licenses = filled.licenses /\ args.allowUnfree = filled.allowUnfree
       /\ args.allowBroken = filled.allowBroken
  BY <1>9, <1>13
<1>21. QED
  BY <1>8, <1>13, <1>16, <1>17, <1>18, <1>19, <1>20 DEF IsQuery

\* What a query keeps of the versions that it selects.
InRange(full, row) ==
  \/ full.semver = None \/ AnyVersion(full.semver)
  \/ row.semver \in SemverSat(full.semver, {row.semver})

\* execute() keeps the rows that are selected and in the range.
LEMMA Executed ==
  ASSUME NEW db, NEW full, NEW row
  PROVE  row \in Execute(db, full) <=> row \in db /\ Selected(row, full) /\ InRange(full, row)
BY DEF Execute, FilterSemvers, InRange, SemverSat

Place(row) ==
  /\ Asked("systems") # None => row.system \in ToSet(Asked("systems"))
  /\ Asked("path") # None => IsAt(Asked("path"), row)
  /\ IF Asked("absPath") # None THEN IsAtAbsolute(Asked("absPath"), row)
     ELSE PreferredSubtrees(Reg, request.input) # None =>
              row.subtree \in ToSet(PreferredSubtrees(Reg, request.input))

\* Where the descriptor looks is where the entry says.
LEMMA PlaceIsFound ==
  ASSUME MarkersAreAtoms, IsAsked(desc), NEW row, IsRow(row), row.system = request.system,
         NEW subtrees, subtrees = IF desc.subtree = None
                                  THEN PreferredSubtrees(Reg, request.input)
                                  ELSE <<desc.subtree>>
  PROVE  /\ ~Skips(row.system)
         /\ desc.path # None => row.relPath = desc.path
         /\ subtrees # None => row.subtree \in ToSet(subtrees)
         <=> Place(row)
<1> DEFINE glob == Glob(Asked("absPath"))
<1>1. ~Skips(row.system) <=> (desc.systems # None => row.system \in ToSet(desc.systems))
  BY DEF Skips
<1>2. /\ Asked("path") # None => IsPath(Asked("path")) /\ Asked("absPath") = None
      /\ Asked("absPath") = None =>
           /\ desc.subtree = None /\ desc.systems = Asked("systems")
           /\ desc.path = IF Asked("path") = None THEN None ELSE Parts(Asked("path"))
      /\ Asked("absPath") # None =>
           /\ IsPath(Asked("absPath"))
           /\ Len(glob) >= 3 /\ glob[1] # None
           /\ \A i \in 3..Len(glob) : glob[i] # None
           /\ ~Open(glob[2]) => Asked("systems") \in {None, <<glob[2]>>}
           /\ desc.subtree = glob[1] /\ desc.path = SubSeq(glob, 3, Len(glob))
           /\ desc.systems = IF Open(glob[2]) THEN Asked("systems") ELSE <<glob[2]>>
  BY DEF IsAsked
<1>3. row.relPath \in Seq(Range(row.relPath)) /\ row.relPath # <<>>
  BY DEF IsRow
<1>4. CASE Asked("absPath") = None
  <2>1. Asked("path") # None => /\ desc.path # None
                                /\ IsAt(Asked("path"), row) <=> row.relPath = desc.path
    <3>1. SUFFICES ASSUME Asked("path") # None
                   PROVE  desc.path # None /\ (IsAt(Asked("path"), row) <=> row.relPath = desc.path)
      OBVIOUS
    <3>2. IsPath(Asked("path")) /\ desc.path = Parts(Asked("path"))
      BY <1>2, <1>4, <3>1
    <3>3. IsWritten(Asked("path"), row.relPath) <=> Parts(Asked("path")) = row.relPath
      BY <1>3, <3>2, WrittenParts
    <3>4. Parts(Asked("path")) \in Seq(Range(Asked("path").parts))
      BY <3>2, SplitIsSeq DEF IsPath, Parts
    <3>5. desc.path # None
      BY <3>2, <3>4, SequenceIsNone
    <3>6. QED
      BY <3>2, <3>3, <3>5 DEF IsAt
  <2>2. QED
    BY <1>1, <1>2, <1>4, <2>1 DEF Place
<1>5. CASE Asked("absPath") # None
  <2> HIDE DEF glob
  <2>1. /\ IsPath(Asked("absPath")) /\ Asked("path") = None
        /\ Len(glob) >= 3 /\ glob[1] # None
        /\ \A i \in 3..Len(glob) : glob[i] # None
        /\ ~Open(glob[2]) => Asked("systems") \in {None, <<glob[2]>>}
        /\ desc.subtree = glob[1] /\ desc.path = SubSeq(glob, 3, Len(glob))
        /\ desc.systems = IF Open(glob[2]) THEN Asked("systems") ELSE <<glob[2]>>
    BY <1>2, <1>5
  <2>2. /\ IsAtAbsolute(Asked("absPath"), row)
        /\ Asked("systems") # None => row.system \in ToSet(Asked("systems"))
        <=>
        /\ desc.systems # None => row.system \in ToSet(desc.systems)
        /\ row.subtree = glob[1] /\ row.relPath = SubSeq(glob, 3, Len(glob))
    BY ZenonT(60), <2>1, AbsoluteIsFound DEF glob
  <2>3. subtrees = <<glob[1]>> /\ <<glob[1]>> # None /\ ToSet(<<glob[1]>>) = {glob[1]}
    BY <2>1 DEF MarkersAreAtoms, ToSet
  <2>4. glob \in Seq(Range(Asked("absPath").parts) \cup {None})
    BY <2>1, GlobIsSeq DEF glob
  <2>5. SubSeq(glob, 3, Len(glob)) \in Seq(Range(Asked("absPath").parts) \cup {None})
    BY <2>1, <2>4
  <2>6. desc.path # None
    BY <2>1, <2>5, SequenceIsNone
  <2>7. QED
    BY <1>1, <1>5, <2>1, <2>2, <2>3, <2>6 DEF Place
<1>6. QED
  BY <1>4, <1>5

\* A query finds what is wanted, and no other row.
LEMMA SelectedIsWanted ==
  ASSUME MarkersAreAtoms, IsAsked(desc), ~Skips(request.system), IsQuery(args),
         NEW row, IsRow(row)
  PROVE  Selected(row, args) /\ InRange(args, row) <=> Wanted(row)
<1>1. /\ args.name = None /\ args.pname = None
      /\ args.partialMatch = None /\ args.partialNameMatch = None
      /\ args.pnameOrAttrName = Or(Asked("name"), Iid) /\ args.pnameOrAttrName # None
  BY DEF IsQuery, IsAsked
<1>2. MatchesName(row, args) <=> Or(Asked("name"), Iid) \in {row.pname, AttrName(row), ""}
  BY <1>1 DEF MatchesName, Pattern, Given, Exact
<1>3. /\ IF args.version # None THEN row.version = args.version
         ELSE args.semver # None => row.semver # None
      /\ InRange(args, row)
      <=> (Asked("version") # None => IsVersion(Asked("version"), row))
  <2>1. /\ args.version = ExactOf(Asked("version")) /\ args.semver = RangeOf(Asked("version"))
        /\ Asked("version") \in Texts \cup {None}
        /\ Asked("version") # None => Asked("version").kind # "empty"
    BY DEF IsQuery, IsAsked
  <2>2. QED
    BY <2>1, VersionIsFound DEF InRange
<1>4. /\ args.licenses # None /\ args.licenses # <<>> => row.license \in ToSet(args.licenses)
      /\ ~args.allowBroken => row.broken # TRUE
      /\ ~args.allowUnfree => row.unfree # TRUE
      <=> IsAllowed(row)
  <2>1. /\ args.allowUnfree = Setting("allow", "unfree", TRUE)
        /\ args.allowBroken = Setting("allow", "broken", FALSE)
        /\ Or(args.licenses, <<>>) = Setting("allow", "licenses", <<>>)
    BY DEF IsQuery
  <2>2. (args.licenses # None /\ args.licenses # <<>> => row.license \in ToSet(args.licenses))
        <=> (Setting("allow", "licenses", <<>>) # <<>> =>
               row.license \in ToSet(Setting("allow", "licenses", <<>>)))
    BY <2>1 DEF Or
  <2>3. QED
    BY <2>1, <2>2 DEF IsAllowed
<1>5. row.system \in ToSet(args.systems) <=> row.system = request.system
  <2>1. args.systems = <<request.system>> /\ ToSet(<<request.system>>) = {request.system}
    BY DEF IsQuery, ToSet
  <2>2. QED
    BY <2>1
<1>6. row.system = request.system =>
        (/\ args.relPath # None => row.relPath = args.relPath
         /\ args.subtrees # None => row.subtree \in ToSet(args.subtrees)
         <=> Place(row))
  <2>1. SUFFICES ASSUME row.system = request.system
                 PROVE  /\ args.relPath # None => row.relPath = args.relPath
                        /\ args.subtrees # None => row.subtree \in ToSet(args.subtrees)
                        <=> Place(row)
    OBVIOUS
  <2>2. /\ args.relPath = desc.path
        /\ args.subtrees = IF desc.subtree = None THEN PreferredSubtrees(Reg, request.input)
                           ELSE <<desc.subtree>>
    BY DEF IsQuery
  <2>3. ~Skips(row.system)
    BY <2>1
  <2>4. /\ ~Skips(row.system)
        /\ desc.path # None => row.relPath = desc.path
        /\ args.subtrees # None => row.subtree \in ToSet(args.subtrees)
        <=> Place(row)
    BY <2>1, <2>2, PlaceIsFound
  <2>5. QED
    BY <2>2, <2>3, <2>4
<1>7. Selected(row, args) <=>
        /\ MatchesName(row, args)
        /\ IF args.version # None THEN row.version = args.version
           ELSE args.semver # None => row.semver # None
        /\ args.licenses # None /\ args.licenses # <<>> => row.license \in ToSet(args.licenses)
        /\ ~args.allowBroken => row.broken # TRUE
        /\ ~args.allowUnfree => row.unfree # TRUE
        /\ args.relPath # None => row.relPath = args.relPath
        /\ args.subtrees # None => row.subtree \in ToSet(args.subtrees)
        /\ row.system \in ToSet(args.systems)
  BY <1>1 DEF Selected
<1>8. Wanted(row) <=>
        /\ row.system = request.system
        /\ Or(Asked("name"), Iid) \in {row.pname, AttrName(row), ""}
        /\ Asked("version") # None => IsVersion(Asked("version"), row)
        /\ Place(row) /\ IsAllowed(row)
  BY DEF Wanted, Place
<1>9. QED
  BY <1>2, <1>3, <1>4, <1>5, <1>6, <1>7, <1>8, Zenon

\* On a system that the descriptor does not support there is nothing to find.
LEMMA SkippedIsUnwanted ==
  ASSUME MarkersAreAtoms, IsAsked(desc), Skips(request.system), NEW row, IsRow(row)
  PROVE  ~Wanted(row)
<1>1. SUFFICES ASSUME Wanted(row) PROVE FALSE
  OBVIOUS
<1>2. row.system = request.system /\ Place(row)
  BY <1>1 DEF Wanted, Place
<1>3. PICK subtrees : subtrees = IF desc.subtree = None
                                 THEN PreferredSubtrees(Reg, request.input)
                                 ELSE <<desc.subtree>>
  OBVIOUS
<1>4. ~Skips(row.system)
  BY <1>2, <1>3, PlaceIsFound
<1>5. QED
  BY <1>2, <1>4

(* The package that is found is one that the entry asks for, in the        *)
(* manifest's own words, and that the options allow.                       *)
THEOREM FoundPackagesAreWanted == ASSUME MarkersAreAtoms PROVE Spec => []FoundIsWanted
<1>1. LookupInv => FoundIsWanted
  <2>1. SUFFICES ASSUME LookupInv, found # None PROVE Wanted(found)
    BY DEF FoundIsWanted
  <2>2. /\ stage = "done" /\ string = None
        /\ found \in Firsts(Catalog, args) /\ ~Skips(request.system)
    BY <2>1 DEF LookupInv, FoundInv
  <2>3. found \in Execute(Catalog, args)
    BY <2>2 DEF Firsts
  <2>4. found \in Catalog /\ Selected(found, args) /\ InRange(args, found)
    BY <2>3, Executed
  <2>5. IsRow(found)
    BY <2>4, CatalogAssumption
  <2>6. IsAsked(desc) /\ IsQuery(args)
    BY <2>1, <2>2, DescriptorIsAsked, QueryIsAsked
  <2>7. QED
    BY <2>2, <2>4, <2>5, <2>6, SelectedIsWanted
<1>2. QED
  BY <1>1, LookupInvariant, PTL
-----------------------------------------------------------------------------
(***************************************************************************)
(* The order of a query is a strict one, so that a query that keeps a row  *)
(* has a first one.                                                        *)
(***************************************************************************)

\* A transitive and irreflexive relation has a least element in a finite set.
LEMMA LeastOfFinite ==
  ASSUME NEW S, IsFiniteSet(S), S # {}, NEW R,
         \A x \in S : <<x, x>> \notin R,
         \A x, y, z \in S : <<x, y>> \in R /\ <<y, z>> \in R => <<x, z>> \in R
  PROVE  \E x \in S : \A y \in S : <<y, x>> \notin R
<1> DEFINE Least(T) == \E x \in T : \A y \in T : <<y, x>> \notin R
           Good == {n \in Nat : \A T \in SUBSET S : Cardinality(T) = n /\ T # {} => Least(T)}
<1>1. 0 \in Good
  <2>1. SUFFICES ASSUME NEW T \in SUBSET S, Cardinality(T) = 0, T # {} PROVE Least(T)
    OBVIOUS
  <2>2. IsFiniteSet(T)
    BY FS_Subset
  <2>3. QED
    BY <2>1, <2>2, FS_EmptySet
<1>2. ASSUME NEW n \in Nat, n \in Good PROVE n + 1 \in Good
  <2>1. SUFFICES ASSUME NEW T \in SUBSET S, Cardinality(T) = n + 1, T # {} PROVE Least(T)
    OBVIOUS
  <2>2. PICK a \in T : TRUE
    BY <2>1
  <2> DEFINE U == T \ {a}
  <2>3. U \in SUBSET S /\ T = U \cup {a} /\ a \in S
    BY <2>2
  <2>4. Cardinality(U) = n
    <3>1. IsFiniteSet(T)
      BY FS_Subset
    <3>2. Cardinality(U) = Cardinality(T) - 1
      BY <2>2, <3>1, FS_RemoveElement
    <3>3. QED
      BY <2>1, <3>2
  <2>5. CASE U = {}
    BY <2>3, <2>5
  <2>6. CASE U # {}
    <3>1. PICK m \in U : \A y \in U : <<y, m>> \notin R
      BY <1>2, <2>3, <2>4, <2>6
    <3> HIDE DEF U
    <3>2. CASE <<a, m>> \notin R
      <4>1. \A y \in T : <<y, m>> \notin R
        BY <2>3, <3>1, <3>2
      <4>2. QED
        BY <2>3, <3>1, <4>1
    <3>3. CASE <<a, m>> \in R
      <4>1. \A y \in T : <<y, a>> \notin R
        BY <2>3, <3>1, <3>3
      <4>2. QED
        BY <2>2, <4>1
    <3>4. QED
      BY <3>2, <3>3
  <2>7. QED
    BY <2>5, <2>6
<1>3. Nat \subseteq Good
  <2> HIDE DEF Good
  <2>1. QED
    BY <1>1, <1>2, UptoInduction
<1>4. Cardinality(S) \in Nat
  BY FS_CardinalityType
<1>5. Cardinality(S) \in Good
  BY <1>3, <1>4
<1>6. Least(S)
  BY <1>5
<1>7. QED
  BY <1>6

\* The first of two comparisons that are not zero decides.
Chain(a, b, c) ==
  /\ a = 0 /\ b = 0 => c = 0
  /\ a < 0 /\ b <= 0 => c < 0
  /\ a <= 0 /\ b < 0 => c < 0

\* Each kind of comparison is one.
LEMMA NumbersChain ==
  ASSUME NEW m \in Int, NEW n \in Int, NEW p \in Int
  PROVE  Chain(Asc(m, n), Asc(n, p), Asc(m, p)) /\ Chain(Desc(m, n), Desc(n, p), Desc(m, p))
BY DEF Chain, Asc, Desc

LEMMA TagsChain ==
  ASSUME NEW m \in Nat, NEW n \in Nat, NEW p \in Nat
  PROVE  Chain(DescNullsFirst(m, n), DescNullsFirst(n, p), DescNullsFirst(m, p))
BY DEF Chain, Asc, Desc, DescNullsFirst

\* The order of texts is a strict one.
LEMMA LexIsStrict ==
  ASSUME NEW s \in Seq(Int), NEW t \in Seq(Int), NEW u \in Seq(Int)
  PROVE  ~LexLess(s, s) /\ (LexLess(s, t) /\ LexLess(t, u) => LexLess(s, u))
<1>1. ~LexLess(s, s)
  BY DEF LexLess
<1>2. ASSUME LexLess(s, t), LexLess(t, u) PROVE LexLess(s, u)
  <2>1. PICK i \in 1..Len(t) : /\ \A j \in 1..(i - 1) : j <= Len(s) /\ s[j] = t[j]
                               /\ i > Len(s) \/ s[i] < t[i]
    BY <1>2 DEF LexLess
  <2>2. PICK k \in 1..Len(u) : /\ \A j \in 1..(k - 1) : j <= Len(t) /\ t[j] = u[j]
                               /\ k > Len(t) \/ t[k] < u[k]
    BY <1>2 DEF LexLess
  <2>3. CASE i < k
    <3>1. i \in 1..Len(u) /\ t[i] = u[i]
      BY <2>2, <2>3
    <3>2. \A j \in 1..(i - 1) : j <= Len(s) /\ s[j] = u[j]
      BY <2>1, <2>2, <2>3
    <3>3. i > Len(s) \/ s[i] < u[i]
      BY <2>1, <3>1
    <3>4. QED
      BY <3>1, <3>2, <3>3 DEF LexLess
  <2>4. CASE i = k
    <3>1. t[k] < u[k]
      BY <2>2, <2>4
    <3>2. \A j \in 1..(k - 1) : j <= Len(s) /\ s[j] = u[j]
      BY <2>1, <2>2, <2>4
    <3>3. k > Len(s) \/ s[k] < u[k]
      <4>1. CASE k > Len(s)
        BY <4>1
      <4>2. CASE ~(k > Len(s))
        <5>1. s[k] < t[k] /\ k \in DOMAIN s /\ k \in DOMAIN t
          BY <2>1, <2>4, <4>2
        <5>2. s[k] \in Int /\ t[k] \in Int /\ u[k] \in Int
          BY <5>1
        <5>3. QED
          BY <3>1, <5>1, <5>2
      <4>3. QED
        BY <4>1, <4>2
    <3>4. QED
      BY <3>2, <3>3 DEF LexLess
  <2>5. CASE k < i
    <3>1. k <= Len(s) /\ s[k] = t[k] /\ t[k] < u[k]
      BY <2>1, <2>2, <2>5
    <3>2. \A j \in 1..(k - 1) : j <= Len(s) /\ s[j] = u[j]
      BY <2>1, <2>2, <2>5
    <3>3. QED
      BY <3>1, <3>2 DEF LexLess
  <2>6. QED
    BY <2>3, <2>4, <2>5
<1>3. QED
  BY <1>1, <1>2

LEMMA TextsChain ==
  ASSUME NEW s \in Seq(Int), NEW t \in Seq(Int), NEW u \in Seq(Int)
  PROVE  /\ Chain(TextAsc(s, t), TextAsc(t, u), TextAsc(s, u))
         /\ TextAsc(s, t) \in Int /\ TextAsc(s, s) = 0
<1>1. /\ ~LexLess(s, s) /\ ~LexLess(t, t) /\ ~LexLess(u, u)
      /\ LexLess(s, t) /\ LexLess(t, u) => LexLess(s, u)
  BY LexIsStrict
<1>2. QED
  BY <1>1 DEF Chain, TextAsc

LEMMA NullsChain ==
  ASSUME NEW s \in Seq(Int), NEW t \in Seq(Int), NEW u \in Seq(Int)
  PROVE  /\ Chain(NullsLast(s, t), NullsLast(t, u), NullsLast(s, u))
         /\ NullsLast(s, t) \in Int /\ NullsLast(s, s) = 0
<1>1. /\ Chain(TextAsc(s, t), TextAsc(t, u), TextAsc(s, u))
      /\ TextAsc(s, t) \in Int /\ TextAsc(t, u) \in Int /\ TextAsc(s, u) \in Int
      /\ TextAsc(s, s) = 0
  BY TextsChain
<1>2. \A v \in {s, t, u} : Len(v) \in Nat /\ (v = <<>> <=> Len(v) = 0)
  <2>1. \A v \in Seq(Int) : Len(v) \in Nat /\ (v = <<>> <=> Len(v) = 0)
    BY EmptySeq
  <2>2. QED
    BY <2>1
<1>3. PICK a \in Int : a = TextAsc(s, t)
  BY <1>1
<1>4. PICK b \in Int : b = TextAsc(t, u)
  BY <1>1
<1>5. PICK c \in Int : c = TextAsc(s, u)
  BY <1>1
<1>6. /\ NullsLast(s, t) = IF (Len(s) = 0) # (Len(t) = 0) THEN Len(t) - Len(s) ELSE a
      /\ NullsLast(t, u) = IF (Len(t) = 0) # (Len(u) = 0) THEN Len(u) - Len(t) ELSE b
      /\ NullsLast(s, u) = IF (Len(s) = 0) # (Len(u) = 0) THEN Len(u) - Len(s) ELSE c
      /\ NullsLast(s, s) = 0
  BY <1>1, <1>2, <1>3, <1>4, <1>5 DEF NullsLast, Asc
<1>7. Chain(a, b, c)
  BY <1>1, <1>3, <1>4, <1>5
<1>8. PICK m \in Nat, n \in Nat, p \in Nat : m = Len(s) /\ n = Len(t) /\ p = Len(u)
  BY <1>2
<1>9. QED
  BY SMTT(30), <1>6, <1>7, <1>8 DEF Chain

Chained(u, v, w) ==
  /\ {u, v, w} \subseteq Seq(Int) /\ Len(u) = Len(v) /\ Len(v) = Len(w)
  /\ \A i \in 1..Len(u) : Chain(u[i], v[i], w[i])

FirstIsBelow(u) == \E i \in DOMAIN u : u[i] < 0 /\ \A j \in 1..(i - 1) : u[j] = 0

LEMMA IntsConcat ==
  ASSUME NEW s \in Seq(Int), NEW t \in Seq(Int), NEW m \in Nat, NEW n \in Nat,
         Len(s) = m, Len(t) = n
  PROVE  /\ s \o t \in Seq(Int) /\ Len(s \o t) = m + n
         /\ \A i \in 1..(m + n) : (s \o t)[i] = IF i <= m THEN s[i] ELSE t[i - m]
BY ConcatProperties

\* Lists of criteria, one after the other.
LEMMA ChainedConcat ==
  ASSUME NEW u, NEW v, NEW w, NEW a, NEW b, NEW c, Chained(u, v, w), Chained(a, b, c)
  PROVE  Chained(u \o a, v \o b, w \o c)
<1>1. /\ u \in Seq(Int) /\ v \in Seq(Int) /\ w \in Seq(Int) /\ Len(u) = Len(v) /\ Len(v) = Len(w)
      /\ a \in Seq(Int) /\ b \in Seq(Int) /\ c \in Seq(Int) /\ Len(a) = Len(b) /\ Len(b) = Len(c)
      /\ \A i \in 1..Len(u) : Chain(u[i], v[i], w[i])
      /\ \A i \in 1..Len(a) : Chain(a[i], b[i], c[i])
  BY DEF Chained
<1>2. PICK m \in Nat : m = Len(u) /\ m = Len(v) /\ m = Len(w)
  BY <1>1
<1>3. PICK n \in Nat : n = Len(a) /\ n = Len(b) /\ n = Len(c)
  BY <1>1
<1>4. PICK f : f = u \o a
  OBVIOUS
<1>5. PICK g : g = v \o b
  OBVIOUS
<1>6. PICK h : h = w \o c
  OBVIOUS
<1>7. /\ f \in Seq(Int) /\ Len(f) = m + n
      /\ \A i \in 1..(m + n) : f[i] = IF i <= m THEN u[i] ELSE a[i - m]
  <2>1. u \in Seq(Int) /\ a \in Seq(Int) /\ Len(u) = m /\ Len(a) = n
    BY <1>1, <1>2, <1>3
  <2>2. /\ u \o a \in Seq(Int) /\ Len(u \o a) = m + n
        /\ \A i \in 1..(m + n) : (u \o a)[i] = IF i <= m THEN u[i] ELSE a[i - m]
    BY SMTT(30), <2>1, IntsConcat
  <2>3. QED
    BY <1>4, <2>2
<1>8. /\ g \in Seq(Int) /\ Len(g) = m + n
      /\ \A i \in 1..(m + n) : g[i] = IF i <= m THEN v[i] ELSE b[i - m]
  <2>1. v \in Seq(Int) /\ b \in Seq(Int) /\ Len(v) = m /\ Len(b) = n
    BY <1>1, <1>2, <1>3
  <2>2. /\ v \o b \in Seq(Int) /\ Len(v \o b) = m + n
        /\ \A i \in 1..(m + n) : (v \o b)[i] = IF i <= m THEN v[i] ELSE b[i - m]
    BY SMTT(30), <2>1, IntsConcat
  <2>3. QED
    BY <1>5, <2>2
<1>9. /\ h \in Seq(Int) /\ Len(h) = m + n
      /\ \A i \in 1..(m + n) : h[i] = IF i <= m THEN w[i] ELSE c[i - m]
  <2>1. w \in Seq(Int) /\ c \in Seq(Int) /\ Len(w) = m /\ Len(c) = n
    BY <1>1, <1>2, <1>3
  <2>2. /\ w \o c \in Seq(Int) /\ Len(w \o c) = m + n
        /\ \A i \in 1..(m + n) : (w \o c)[i] = IF i <= m THEN w[i] ELSE c[i - m]
    BY SMTT(30), <2>1, IntsConcat
  <2>3. QED
    BY <1>6, <2>2
<1>10. \A i \in 1..(m + n) : Chain(f[i], g[i], h[i])
  <2>1. SUFFICES ASSUME NEW i \in 1..(m + n) PROVE Chain(f[i], g[i], h[i])
    OBVIOUS
  <2>2. CASE i <= m
    <3>1. i \in 1..m
      BY <2>2
    <3>2. QED
      BY <1>1, <1>2, <1>7, <1>8, <1>9, <2>2, <3>1
  <2>3. CASE ~(i <= m)
    <3>1. i - m \in 1..n
      BY <2>3
    <3>2. QED
      BY <1>1, <1>3, <1>7, <1>8, <1>9, <2>3, <3>1
  <2>4. QED
    BY <2>2, <2>3
<1>11. Chained(f, g, h)
  BY <1>7, <1>8, <1>9, <1>10 DEF Chained
<1>12. QED
  BY <1>4, <1>5, <1>6, <1>11

LEMMA ChainedIsTransitive ==
  ASSUME NEW u, NEW v, NEW w, Chained(u, v, w), FirstIsBelow(u), FirstIsBelow(v)
  PROVE  FirstIsBelow(w)
<1>1. /\ u \in Seq(Int) /\ v \in Seq(Int) /\ w \in Seq(Int) /\ Len(u) = Len(v) /\ Len(v) = Len(w)
      /\ \A i \in 1..Len(u) : Chain(u[i], v[i], w[i])
  BY DEF Chained
<1>2. PICK n \in Nat : DOMAIN u = 1..n /\ DOMAIN v = 1..n /\ DOMAIN w = 1..n /\ n = Len(u)
  BY <1>1
<1>3. PICK i \in 1..n : u[i] < 0 /\ \A j \in 1..(i - 1) : u[j] = 0
  BY <1>2 DEF FirstIsBelow
<1>4. PICK k \in 1..n : v[k] < 0 /\ \A j \in 1..(k - 1) : v[j] = 0
  BY <1>2 DEF FirstIsBelow
<1>5. PICK m \in 1..n : m = IF i <= k THEN i ELSE k
  OBVIOUS
<1>6. \A j \in 1..(m - 1) : w[j] = 0
  <2>1. SUFFICES ASSUME NEW j \in 1..(m - 1) PROVE w[j] = 0
    OBVIOUS
  <2>2. u[j] = 0 /\ v[j] = 0 /\ j \in 1..n
    BY <1>3, <1>4, <1>5
  <2>3. QED
    BY <1>1, <1>2, <2>2 DEF Chain
<1>7. w[m] < 0
  <2>1. CASE m = i
    <3>1. u[m] < 0 /\ i <= k
      BY <1>3, <1>5, <2>1
    <3>2. v[m] = 0 \/ v[m] < 0
      BY <1>4, <2>1, <3>1
    <3>3. QED
      BY SMTT(30), <1>1, <1>2, <3>1, <3>2 DEF Chain
  <2>2. CASE m # i
    <3>1. m = k /\ u[m] <= 0 /\ v[m] < 0
      BY <1>3, <1>4, <1>5, <2>2
    <3>2. QED
      BY <1>1, <1>2, <3>1 DEF Chain
  <2>3. QED
    BY <2>1, <2>2
<1>8. QED
  BY <1>2, <1>6, <1>7 DEF FirstIsBelow

\* What the criteria compare.
Comparable(row) ==
  /\ Depth(row) \in Int
  /\ \A i \in 1..3 : SemverPart(row.semver, i) \in Seq(Int)
  /\ PreTag(row.semver) \in Nat
  /\ VersionType(row.version, row.semver) \in Nat
  /\ VersionDate(row.version, row.semver) \in Seq(Int)
  /\ Spelled(row.version) \in Seq(Int)
  /\ Alphabet[row.pname] \in Int /\ Alphabet[AttrName(row)] \in Int

LEMMA DigitsAreInts == ASSUME NEW n \in 0..99 PROVE Digits(n) \in Seq(Int)
<1>1. <<n>> \in Seq(Int) /\ n \div 10 \in Int /\ n % 10 \in Int
  OBVIOUS
<1>2. <<n \div 10, n % 10>> \in Seq(Int)
  BY <1>1
<1>3. QED
  BY <1>1, <1>2 DEF Digits

LEMMA TextFields ==
  ASSUME NEW v \in Texts
  PROVE  /\ v.nums \in Seq(Numbers) /\ Len(v.nums) <= 3 /\ v.tag \in Nat
         /\ v.nums \in Seq(Int) /\ \A i \in 1..Len(v.nums) : v.nums[i] \in 0..99
<1>1. v.nums \in Seq(Numbers) /\ Len(v.nums) <= 3 /\ v.tag \in Tags
  BY DEF Texts
<1>2. Numbers \subseteq 0..99 /\ Tags \subseteq Nat
  BY VersionsAssumption
<1>3. \A i \in 1..Len(v.nums) : v.nums[i] \in 0..99
  <2>1. \A s \in Seq(Numbers) : \A i \in 1..Len(s) : s[i] \in Numbers
    OBVIOUS
  <2>2. QED
    BY <1>1, <1>2, <2>1
<1>4. v.nums \in Seq(Int)
  BY <1>1, <1>2, SeqMonotonic, 0..99 \subseteq Int
<1>5. QED
  BY <1>1, <1>2, <1>3, <1>4

LEMMA SpelledIsSeq == ASSUME NEW v \in Texts PROVE Spelled(v) \in Seq(Int)
<1> DEFINE Part(i) == IF i > Len(v.nums) THEN <<>>
                      ELSE (IF i = 1 THEN <<>> ELSE <<-1>>) \o Digits(v.nums[i])
           tag == IF v.tag = 0 THEN <<>> ELSE <<-2, v.tag>>
<1>1. /\ Len(v.nums) \in Nat /\ v.tag \in Nat
      /\ \A i \in 1..Len(v.nums) : v.nums[i] \in 0..99
  BY TextFields
<1>2. <<>> \in Seq(Int) /\ <<-1>> \in Seq(Int) /\ <<200 + v.tag>> \in Seq(Int)
  BY <1>1
<1>3. tag \in Seq(Int)
  BY <1>1, <1>2
<1>4. \A s, t \in Seq(Int) : s \o t \in Seq(Int)
  BY ConcatProperties
<1>5. ASSUME NEW i \in 1..3 PROVE Part(i) \in Seq(Int)
  <2>1. CASE i > Len(v.nums)
    BY <1>2, <2>1
  <2>2. CASE ~(i > Len(v.nums))
    <3>1. v.nums[i] \in 0..99
      BY <1>1, <2>2
    <3>2. Digits(v.nums[i]) \in Seq(Int)
      BY <3>1, DigitsAreInts
    <3>3. PICK d \in Seq(Int) : d = Digits(v.nums[i])
      BY <3>2
    <3>4. (IF i = 1 THEN <<>> ELSE <<-1>>) \in Seq(Int)
      BY <1>2
    <3>5. (IF i = 1 THEN <<>> ELSE <<-1>>) \o Digits(v.nums[i]) \in Seq(Int)
      BY <1>4, <3>2, <3>4
    <3>6. QED
      BY <2>2, <3>5
  <2>3. QED
    BY <2>1, <2>2
<1>6. Part(1) \in Seq(Int) /\ Part(2) \in Seq(Int) /\ Part(3) \in Seq(Int)
  BY <1>5
<1>7. Spelled(v) \in {<<>>, <<200 + v.tag>>, Part(1) \o Part(2) \o Part(3) \o tag}
  BY DEF Spelled
<1> HIDE DEF Part, tag
<1>8. Part(1) \o Part(2) \o Part(3) \o tag \in Seq(Int)
  BY <1>3, <1>4, <1>6
<1>9. QED
  BY <1>2, <1>7, <1>8

\* A row of the scraper's has all that the criteria compare.
LEMMA RowIsComparable == ASSUME NEW row, IsRow(row) PROVE Comparable(row)
<1>1. /\ row.version \in Texts \cup {None}
      /\ row.semver = IF row.version = None THEN None ELSE CoerceSemver(row.version)
      /\ row.relPath \in Seq(Range(row.relPath))
      /\ {row.pname, AttrName(row)} \subseteq DOMAIN Alphabet
  BY DEF IsRow
<1>2. /\ Depth(row) \in Int /\ Alphabet[row.pname] \in Int /\ Alphabet[AttrName(row)] \in Int
  BY <1>1, CatalogAssumption DEF Depth
<1>3. VersionType(row.version, row.semver) \in Nat
  BY DEF VersionType
<1>4. VersionDate(row.version, row.semver) \in Seq(Int)
  <2>1. VersionType(row.version, row.semver) = 1 => row.version # None
    BY DEF VersionType
  <2>2. row.version # None => row.version.nums \in Seq(Int)
    BY <1>1, TextFields
  <2>3. <<>> \in Seq(Int)
    OBVIOUS
  <2>4. QED
    BY <2>1, <2>2, <2>3 DEF VersionDate
<1>5. Spelled(row.version) \in Seq(Int)
  <2>1. CASE row.version = None
    <3>1. Spelled(row.version) = <<>>
      BY <2>1 DEF Spelled
    <3>2. QED
      BY <3>1
  <2>2. CASE row.version # None
    BY <1>1, <2>2, SpelledIsSeq
  <2>3. QED
    BY <2>1, <2>2
<1>6. /\ \A i \in 1..3 : SemverPart(row.semver, i) \in Seq(Int)
      /\ PreTag(row.semver) \in Nat
  <2>1. CASE row.semver = None
    BY <2>1 DEF SemverPart, PreTag
  <2>2. CASE row.semver # None
    <3>1. PICK v \in Texts : v = row.version /\ row.semver = CoerceSemver(v)
      BY <1>1, <2>2
    <3>2. /\ row.semver.tag = v.tag
          /\ \A i \in 1..3 : row.semver.nums[i] = IF i <= Len(v.nums) THEN v.nums[i] ELSE 0
      <4>1. PICK nums : nums = [i \in 1..3 |-> IF i <= Len(v.nums) THEN v.nums[i] ELSE 0]
        OBVIOUS
      <4>2. row.semver = [v EXCEPT !.nums = nums]
        BY <2>2, <3>1, <4>1 DEF CoerceSemver
      <4>3. row.semver.tag = v.tag /\ row.semver.nums = nums
        BY <4>2 DEF Texts
      <4>4. QED
        BY <4>1, <4>3
    <3>3. /\ v.tag \in Nat /\ Len(v.nums) \in Nat
          /\ \A i \in 1..Len(v.nums) : v.nums[i] \in 0..99
      BY TextFields
    <3>4. \A i \in 1..3 : row.semver.nums[i] \in 0..99
      <4>1. PICK n \in Nat : n = Len(v.nums)
        BY <3>3
      <4>2. ASSUME NEW i \in 1..3 PROVE row.semver.nums[i] \in 0..99
        <5>1. row.semver.nums[i] = IF i <= n THEN v.nums[i] ELSE 0
          BY <3>2, <4>1
        <5>2. i <= n => v.nums[i] \in 0..99
          <6>1. i <= n => i \in 1..n
            OBVIOUS
          <6>2. QED
            BY <3>3, <4>1, <6>1, Zenon
        <5>3. 0 \in 0..99
          OBVIOUS
        <5>4. QED
          BY <5>1, <5>2, <5>3, Zenon
      <4>3. QED
        BY <4>2
    <3>5. \A i \in 1..3 : Digits(row.semver.nums[i]) \in Seq(Int)
      BY <3>4, DigitsAreInts
    <3>6. QED
      BY <2>2, <3>2, <3>3, <3>5 DEF SemverPart, PreTag
  <2>3. QED
    BY <2>1, <2>2
<1>7. QED
  BY <1>2, <1>3, <1>4, <1>5, <1>6 DEF Comparable

Zeros(u) == u \in Seq(Int) /\ \A i \in 1..Len(u) : u[i] = 0

LEMMA ZerosConcat == ASSUME NEW u, NEW v, Zeros(u), Zeros(v) PROVE Zeros(u \o v)
<1>1. u \in Seq(Int) /\ v \in Seq(Int)
  BY DEF Zeros
<1>2. PICK m \in Nat, n \in Nat : m = Len(u) /\ n = Len(v)
  BY <1>1
<1>3. /\ u \o v \in Seq(Int) /\ Len(u \o v) = m + n
      /\ \A i \in 1..(m + n) : (u \o v)[i] = IF i <= m THEN u[i] ELSE v[i - m]
  BY <1>1, <1>2, IntsConcat
<1>4. (\A i \in 1..m : u[i] = 0) /\ (\A i \in 1..n : v[i] = 0)
  BY <1>2 DEF Zeros
<1>5. ASSUME NEW i \in 1..(m + n) PROVE (u \o v)[i] = 0
  <2>1. CASE i <= m
    BY <1>3, <1>4, <2>1
  <2>2. CASE ~(i <= m)
    <3>1. i - m \in 1..n
      BY <2>2
    <3>2. QED
      BY <1>3, <1>4, <2>2, <3>1
  <2>3. QED
    BY <2>1, <2>2
<1>6. QED
  BY <1>3, <1>5 DEF Zeros

\* Vectors of criteria, as functions.
LEMMA FunctionsChain ==
  ASSUME NEW n \in Nat, NEW u \in [1..n -> Int], NEW v \in [1..n -> Int],
         NEW w \in [1..n -> Int], \A i \in 1..n : Chain(u[i], v[i], w[i])
  PROVE  Chained(u, v, w)
<1>1. ASSUME NEW f \in [1..n -> Int] PROVE f \in Seq(Int) /\ Len(f) = n
  <2>1. f \in Seq(Int)
    BY SeqDef
  <2>2. QED
    BY <2>1, LenProperties
<1>2. QED
  BY <1>1 DEF Chained

LEMMA FunctionIsZeros ==
  ASSUME NEW n \in Nat, NEW u \in [1..n -> Int], \A i \in 1..n : u[i] = 0
  PROVE  Zeros(u)
<1>1. u \in Seq(Int)
  BY SeqDef
<1>2. Len(u) = n
  BY <1>1, LenProperties
<1>3. QED
  BY <1>1, <1>2 DEF Zeros

LEMMA OnesChain ==
  ASSUME NEW a \in Int, NEW b \in Int, NEW c \in Int, Chain(a, b, c)
  PROVE  Chained(<<a>>, <<b>>, <<c>>)
BY DEF Chained

LEMMA FoursChain ==
  ASSUME NEW a1 \in Int, NEW a2 \in Int, NEW a3 \in Int, NEW a4 \in Int,
         NEW b1 \in Int, NEW b2 \in Int, NEW b3 \in Int, NEW b4 \in Int,
         NEW c1 \in Int, NEW c2 \in Int, NEW c3 \in Int, NEW c4 \in Int,
         Chain(a1, b1, c1), Chain(a2, b2, c2), Chain(a3, b3, c3), Chain(a4, b4, c4)
  PROVE  Chained(<<a1, a2, a3, a4>>, <<b1, b2, b3, b4>>, <<c1, c2, c3, c4>>)
<1>1. /\ <<a1, a2, a3, a4>> \in Seq(Int) /\ <<b1, b2, b3, b4>> \in Seq(Int)
      /\ <<c1, c2, c3, c4>> \in Seq(Int)
  OBVIOUS
<1>2. ASSUME NEW i \in 1..4
      PROVE  Chain(<<a1, a2, a3, a4>>[i], <<b1, b2, b3, b4>>[i], <<c1, c2, c3, c4>>[i])
  <2>1. i = 1 \/ i = 2 \/ i = 3 \/ i = 4
    OBVIOUS
  <2>2. QED
    BY <2>1
<1>3. QED
  BY <1>1, <1>2 DEF Chained

LEMMA FivesChain ==
  ASSUME NEW a1 \in Int, NEW a2 \in Int, NEW a3 \in Int, NEW a4 \in Int, NEW a5 \in Int,
         NEW b1 \in Int, NEW b2 \in Int, NEW b3 \in Int, NEW b4 \in Int, NEW b5 \in Int,
         NEW c1 \in Int, NEW c2 \in Int, NEW c3 \in Int, NEW c4 \in Int, NEW c5 \in Int,
         Chain(a1, b1, c1), Chain(a2, b2, c2), Chain(a3, b3, c3), Chain(a4, b4, c4),
         Chain(a5, b5, c5)
  PROVE  Chained(<<a1, a2, a3, a4, a5>>, <<b1, b2, b3, b4, b5>>, <<c1, c2, c3, c4, c5>>)
<1>1. /\ <<a1, a2, a3, a4, a5>> \in Seq(Int) /\ <<b1, b2, b3, b4, b5>> \in Seq(Int)
      /\ <<c1, c2, c3, c4, c5>> \in Seq(Int)
  OBVIOUS
<1>2. ASSUME NEW i \in 1..5
      PROVE  Chain(<<a1, a2, a3, a4, a5>>[i], <<b1, b2, b3, b4, b5>>[i],
                   <<c1, c2, c3, c4, c5>>[i])
  <2>1. i = 1 \/ i = 2 \/ i = 3 \/ i = 4 \/ i = 5
    OBVIOUS
  <2>2. QED
    BY <2>1
<1>3. QED
  BY <1>1, <1>2 DEF Chained

\* rankInputs's and rankSystems's place: a number, for what is in the list.
LEMMA RankIsInt ==
  ASSUME NEW S, NEW list, list = None \/ list \in Seq(S), NEW elem,
         list # None => elem \in ToSet(list)
  PROVE  Rank(list, elem) \in Int
<1>1. CASE list = None \/ Len(list) < 2
  BY <1>1 DEF Rank
<1>2. CASE ~(list = None \/ Len(list) < 2)
  <2> DEFINE places == {i \in 1..Len(list) : list[i] = elem}
  <2>1. list \in Seq(S) /\ elem \in ToSet(list) /\ Len(list) \in Nat
    BY <1>2
  <2>2. places # {} /\ places \subseteq 1..Len(list)
    BY <2>1 DEF ToSet
  <2>3. IsFiniteSet(places)
    <3>1. IsFiniteSet(1..Len(list))
      BY <2>1, FS_Interval
    <3>2. QED
      BY <2>2, <3>1, FS_Subset
  <2> HIDE DEF places
  <2>4. PICK R : R = {p \in places \X places : p[1] < p[2]}
    OBVIOUS
  <2>5. \A i, j \in places : <<i, j>> \in R <=> i < j
    BY <2>4
  <2>6. places \subseteq Int
    BY <2>1, <2>2
  <2>7. /\ \A i \in places : <<i, i>> \notin R
        /\ \A i, j, k \in places : <<i, j>> \in R /\ <<j, k>> \in R => <<i, k>> \in R
    BY <2>5, <2>6
  <2>8. PICK i \in places : \A j \in places : <<j, i>> \notin R
    BY <2>2, <2>3, <2>7, LeastOfFinite
  <2>9. ASSUME NEW j \in places PROVE i <= j
    <3>1. ~(j < i)
      BY <2>5, <2>8
    <3>2. i \in Int /\ j \in Int
      BY <2>6
    <3>3. QED
      BY <3>1, <3>2
  <2>10. Min(places) \in places
    BY <2>9 DEF Min
  <2>11. QED
    BY <1>2, <2>6, <2>10 DEF Rank, places
<1>3. QED
  BY <1>1, <1>2

LEMMA MatchRanksAreInts ==
  ASSUME NEW a, NEW row, Depth(row) \in Int
  PROVE  \A i \in 1..8 : MatchRanks(a, row)[i] \in Int
<1>1. PICK r1 \in Int, r2 \in Int, r3 \in Int, r4 \in Int, r5 \in Int, r6 \in Int, r7 \in Int,
           r8 \in Int : MatchRanks(a, row) = <<r1, r2, r3, r4, r5, r6, r7, r8>>
  BY DEF MatchRanks, Truth
<1>2. ASSUME NEW i \in 1..8 PROVE <<r1, r2, r3, r4, r5, r6, r7, r8>>[i] \in Int
  <2>1. i = 1 \/ i = 2 \/ i = 3 \/ i = 4 \/ i = 5 \/ i = 6 \/ i = 7 \/ i = 8
    OBVIOUS
  <2>2. QED
    BY <2>1
<1>3. QED
  BY <1>1, <1>2

\* All of initOrderBy(): the order of a query, and that a row is not before itself.
LEMMA OrderIsChained ==
  ASSUME NEW a, NEW x, NEW y, NEW z, Comparable(x), Comparable(y), Comparable(z),
         \A row \in {x, y, z} : /\ Rank(a.subtrees, row.subtree) \in Int
                               /\ Rank(a.systems, row.system) \in Int
  PROVE  /\ Chained(OrderBy(a, x, y), OrderBy(a, y, z), OrderBy(a, x, z))
         /\ Zeros(OrderBy(a, x, x))
<1> DEFINE Ranks(s, t) == [i \in 1..8 |-> Desc(MatchRanks(a, s)[i], MatchRanks(a, t)[i])]
           Names(s, t) ==
             <<Asc(Rank(a.subtrees, s.subtree), Rank(a.subtrees, t.subtree)),
               Asc(Rank(a.systems, s.system), Rank(a.systems, t.system)),
               NameAsc(s.pname, t.pname),
               Asc(VersionType(s.version, s.semver), VersionType(t.version, t.semver))>>
           Parts3(s, t) ==
             [i \in 1..3 |-> TextAsc(SemverPart(t.semver, i), SemverPart(s.semver, i))]
           Tag(s, t) == <<DescNullsFirst(PreTag(s.semver), PreTag(t.semver))>>
           Last5(s, t) ==
             <<TextAsc(VersionDate(t.version, t.semver), VersionDate(s.version, s.semver)),
               NullsLast(Spelled(s.version), Spelled(t.version)),
               Asc(FlagRank(s.broken), FlagRank(t.broken)),
               Asc(FlagRank(s.unfree), FlagRank(t.unfree)),
               NameAsc(AttrName(s), AttrName(t))>>
           rows == {x, y, z}
<1>1. \A row \in rows :
        /\ Depth(row) \in Int
        /\ \A i \in 1..3 : SemverPart(row.semver, i) \in Seq(Int)
        /\ PreTag(row.semver) \in Nat
        /\ VersionType(row.version, row.semver) \in Nat
        /\ VersionDate(row.version, row.semver) \in Seq(Int)
        /\ Spelled(row.version) \in Seq(Int)
        /\ Alphabet[row.pname] \in Int /\ Alphabet[AttrName(row)] \in Int
        /\ Rank(a.subtrees, row.subtree) \in Int /\ Rank(a.systems, row.system) \in Int
  BY DEF Comparable
<1> HIDE DEF rows
<1>2. ASSUME NEW r \in rows, NEW s \in rows, NEW t \in rows
      PROVE  /\ Chained(Ranks(r, s), Ranks(s, t), Ranks(r, t))
             /\ Zeros(Ranks(r, r))
  <2>1. \A q \in rows : \A i \in 1..8 : MatchRanks(a, q)[i] \in Int
    BY <1>1, MatchRanksAreInts
  <2>2. \A p, q \in rows : Ranks(p, q) \in [1..8 -> Int]
    BY <2>1 DEF Desc
  <2>3. \A i \in 1..8 : Chain(Ranks(r, s)[i], Ranks(s, t)[i], Ranks(r, t)[i])
    BY <2>1, NumbersChain
  <2>4. \A i \in 1..8 : Ranks(r, r)[i] = 0
    BY <2>1 DEF Desc
  <2> HIDE DEF Ranks
  <2>5. QED
    BY <2>2, <2>3, <2>4, FunctionsChain, FunctionIsZeros
<1>3. ASSUME NEW r \in rows, NEW s \in rows, NEW t \in rows
      PROVE  /\ Chained(Parts3(r, s), Parts3(s, t), Parts3(r, t))
             /\ Zeros(Parts3(r, r))
  <2>1. \A p, q \in rows : \A i \in 1..3 :
          TextAsc(SemverPart(q.semver, i), SemverPart(p.semver, i)) \in Int
    BY <1>1, TextsChain
  <2>2. \A p, q \in rows : Parts3(p, q) \in [1..3 -> Int]
    BY <2>1
  <2>3. ASSUME NEW i \in 1..3
        PROVE  Chain(Parts3(r, s)[i], Parts3(s, t)[i], Parts3(r, t)[i])
    <3>1. PICK b \in Seq(Int) : b = SemverPart(r.semver, i)
      BY <1>1
    <3>2. PICK c \in Seq(Int) : c = SemverPart(s.semver, i)
      BY <1>1
    <3>3. PICK d \in Seq(Int) : d = SemverPart(t.semver, i)
      BY <1>1
    <3>4. /\ Chain(TextAsc(d, c), TextAsc(c, b), TextAsc(d, b))
          /\ TextAsc(d, c) \in Int /\ TextAsc(c, b) \in Int /\ TextAsc(d, b) \in Int
      BY TextsChain
    <3>5. Chain(TextAsc(c, b), TextAsc(d, c), TextAsc(d, b))
      BY <3>4 DEF Chain
    <3>6. QED
      BY <3>1, <3>2, <3>3, <3>5
  <2>4. \A i \in 1..3 : Parts3(r, r)[i] = 0
    BY <1>1, TextsChain
  <2> HIDE DEF Parts3
  <2>5. QED
    BY <2>2, <2>3, <2>4, FunctionsChain, FunctionIsZeros
<1>4. ASSUME NEW r \in rows, NEW s \in rows, NEW t \in rows
      PROVE  /\ Chained(Tag(r, s), Tag(s, t), Tag(r, t))
             /\ Zeros(Tag(r, r))
  <2>1. PICK b \in Nat, c \in Nat, d \in Nat :
          b = PreTag(r.semver) /\ c = PreTag(s.semver) /\ d = PreTag(t.semver)
    BY <1>1
  <2>2. /\ DescNullsFirst(b, c) \in Int /\ DescNullsFirst(c, d) \in Int
        /\ DescNullsFirst(b, d) \in Int /\ DescNullsFirst(b, b) = 0
    BY DEF DescNullsFirst, Asc, Desc
  <2>3. Chained(<<DescNullsFirst(b, c)>>, <<DescNullsFirst(c, d)>>, <<DescNullsFirst(b, d)>>)
    BY <2>2, TagsChain, OnesChain
  <2>4. Zeros(<<DescNullsFirst(b, b)>>)
    BY <2>2 DEF Zeros
  <2>5. QED
    BY <2>1, <2>3, <2>4

<1>5. ASSUME NEW r \in rows, NEW s \in rows, NEW t \in rows
      PROVE  /\ Chained(Names(r, s), Names(s, t), Names(r, t))
             /\ Zeros(Names(r, r))
  <2>1. \A q \in rows :
          /\ Rank(a.subtrees, q.subtree) \in Int /\ Rank(a.systems, q.system) \in Int
          /\ Alphabet[q.pname] \in Int /\ VersionType(q.version, q.semver) \in Int
    BY <1>1
  <2>2. \A m, n \in Int : Asc(m, n) \in Int /\ Asc(m, m) = 0
    BY DEF Asc
  <2>3. Chained(Names(r, s), Names(s, t), Names(r, t))
    BY ZenonT(60), <2>1, <2>2, NumbersChain, FoursChain DEF NameAsc
  <2>4. Names(r, r) = <<0, 0, 0, 0>>
    BY <2>1, <2>2 DEF NameAsc
  <2>5. Zeros(<<0, 0, 0, 0>>)
    BY DEF Zeros
  <2>6. QED
    BY <2>3, <2>4, <2>5
<1>6. ASSUME NEW r \in rows, NEW s \in rows, NEW t \in rows
      PROVE  /\ Chained(Last5(r, s), Last5(s, t), Last5(r, t))
             /\ Zeros(Last5(r, r))
  <2>1. \A q \in rows :
          /\ VersionDate(q.version, q.semver) \in Seq(Int) /\ Spelled(q.version) \in Seq(Int)
          /\ FlagRank(q.broken) \in Int /\ FlagRank(q.unfree) \in Int
          /\ Alphabet[AttrName(q)] \in Int
    BY <1>1 DEF FlagRank
  <2>2. \A m, n \in Int : Asc(m, n) \in Int /\ Asc(m, m) = 0
    BY DEF Asc
  <2> DEFINE Dates(p, q) == TextAsc(VersionDate(q.version, q.semver),
                                    VersionDate(p.version, p.semver))
             Spellings(p, q) == NullsLast(Spelled(p.version), Spelled(q.version))
             Broken(p, q) == Asc(FlagRank(p.broken), FlagRank(q.broken))
             Unfree(p, q) == Asc(FlagRank(p.unfree), FlagRank(q.unfree))
             Attrs(p, q) == NameAsc(AttrName(p), AttrName(q))
  <2>3. \A p, q \in rows : /\ Dates(p, q) \in Int /\ Spellings(p, q) \in Int
                           /\ Broken(p, q) \in Int /\ Unfree(p, q) \in Int
                           /\ Attrs(p, q) \in Int
    <3>1. SUFFICES ASSUME NEW p \in rows, NEW q \in rows
                   PROVE  /\ Dates(p, q) \in Int /\ Spellings(p, q) \in Int
                          /\ Broken(p, q) \in Int /\ Unfree(p, q) \in Int
                          /\ Attrs(p, q) \in Int
      OBVIOUS
    <3>2. Dates(p, q) \in Int
      BY <2>1, TextsChain
    <3>3. Spellings(p, q) \in Int
      BY <2>1, NullsChain
    <3>4. QED
      BY <2>1, <2>2, <3>2, <3>3 DEF NameAsc
  <2>4. Chain(Dates(r, s), Dates(s, t), Dates(r, t))
    <3>1. PICK b \in Seq(Int) : b = VersionDate(r.version, r.semver)
      BY <2>1
    <3>2. PICK c \in Seq(Int) : c = VersionDate(s.version, s.semver)
      BY <2>1
    <3>3. PICK d \in Seq(Int) : d = VersionDate(t.version, t.semver)
      BY <2>1
    <3>4. /\ Chain(TextAsc(d, c), TextAsc(c, b), TextAsc(d, b))
          /\ TextAsc(d, c) \in Int /\ TextAsc(c, b) \in Int /\ TextAsc(d, b) \in Int
      BY TextsChain
    <3>5. Chain(TextAsc(c, b), TextAsc(d, c), TextAsc(d, b))
      BY <3>4 DEF Chain
    <3>6. QED
      BY <3>1, <3>2, <3>3, <3>5
  <2>5. Chain(Spellings(r, s), Spellings(s, t), Spellings(r, t))
    BY <2>1, NullsChain
  <2>6. /\ Chain(Broken(r, s), Broken(s, t), Broken(r, t))
        /\ Chain(Unfree(r, s), Unfree(s, t), Unfree(r, t))
        /\ Chain(Attrs(r, s), Attrs(s, t), Attrs(r, t))
    BY <2>1, NumbersChain DEF NameAsc
  <2>7. Last5(r, r) = <<0, 0, 0, 0, 0>>
    <3>1. Dates(r, r) = 0
      BY <2>1, TextsChain
    <3>2. Spellings(r, r) = 0
      BY <2>1, NullsChain
    <3>3. Broken(r, r) = 0 /\ Unfree(r, r) = 0 /\ Attrs(r, r) = 0
      BY <2>1, <2>2 DEF NameAsc
    <3>4. QED
      BY <3>1, <3>2, <3>3
  <2>8. \A p, q \in rows : Last5(p, q) = <<Dates(p, q), Spellings(p, q), Broken(p, q),
                                           Unfree(p, q), Attrs(p, q)>>
    OBVIOUS
  <2> HIDE DEF Dates, Spellings, Broken, Unfree, Attrs, Last5
  <2>9. Chained(Last5(r, s), Last5(s, t), Last5(r, t))
    <3>1. /\ Dates(r, s) \in Int /\ Spellings(r, s) \in Int /\ Broken(r, s) \in Int
          /\ Unfree(r, s) \in Int /\ Attrs(r, s) \in Int
          /\ Dates(s, t) \in Int /\ Spellings(s, t) \in Int /\ Broken(s, t) \in Int
          /\ Unfree(s, t) \in Int /\ Attrs(s, t) \in Int
          /\ Dates(r, t) \in Int /\ Spellings(r, t) \in Int /\ Broken(r, t) \in Int
          /\ Unfree(r, t) \in Int /\ Attrs(r, t) \in Int
      BY <2>3
    <3>2. Chained(<<Dates(r, s), Spellings(r, s), Broken(r, s),
                  Unfree(r, s), Attrs(r, s)>>,
                  <<Dates(s, t), Spellings(s, t), Broken(s, t),
                  Unfree(s, t), Attrs(s, t)>>,
                  <<Dates(r, t), Spellings(r, t), Broken(r, t),
                  Unfree(r, t), Attrs(r, t)>>)
      BY <2>4, <2>5, <2>6, <3>1, FivesChain
    <3>3. QED
      BY <2>8, <3>2
  <2>10. Zeros(<<0, 0, 0, 0, 0>>)
    BY DEF Zeros
  <2>11. QED
    BY <2>7, <2>9, <2>10
<1>7. \A s, t : OrderBy(a, s, t) = Ranks(s, t) \o Names(s, t) \o SemverOrder(a, s, t)
                                   \o Last5(s, t)
  BY DEF OrderBy
<1>8. \A s, t : SemverOrder(a, s, t) = IF a.preferPreReleases THEN Parts3(s, t) \o Tag(s, t)
                                       ELSE Tag(s, t) \o Parts3(s, t)
  BY DEF SemverOrder
<1> HIDE DEF Ranks, Names, Parts3, Tag, Last5
<1>9. ASSUME NEW r \in rows, NEW s \in rows, NEW t \in rows
      PROVE  /\ Chained(SemverOrder(a, r, s), SemverOrder(a, s, t), SemverOrder(a, r, t))
             /\ Zeros(SemverOrder(a, r, r))
  <2>1. CASE a.preferPreReleases
    BY <1>3, <1>4, <1>8, <2>1, ChainedConcat, ZerosConcat
  <2>2. CASE ~a.preferPreReleases
    BY <1>3, <1>4, <1>8, <2>2, ChainedConcat, ZerosConcat
  <2>3. QED
    BY <2>1, <2>2
<1>10. x \in rows /\ y \in rows /\ z \in rows
  BY DEF rows
<1>11. Chained(Ranks(x, y) \o Names(x, y), Ranks(y, z) \o Names(y, z),
               Ranks(x, z) \o Names(x, z))
  BY <1>2, <1>5, <1>10, ChainedConcat
<1>12. Chained(Ranks(x, y) \o Names(x, y) \o SemverOrder(a, x, y),
               Ranks(y, z) \o Names(y, z) \o SemverOrder(a, y, z),
               Ranks(x, z) \o Names(x, z) \o SemverOrder(a, x, z))
  BY <1>9, <1>10, <1>11, ChainedConcat
<1>13. Chained(OrderBy(a, x, y), OrderBy(a, y, z), OrderBy(a, x, z))
  BY <1>6, <1>7, <1>10, <1>12, ChainedConcat
<1>14. Zeros(Ranks(x, x) \o Names(x, x))
  BY <1>2, <1>5, <1>10, ZerosConcat
<1>15. Zeros(Ranks(x, x) \o Names(x, x) \o SemverOrder(a, x, x))
  BY <1>9, <1>10, <1>14, ZerosConcat
<1>16. Zeros(OrderBy(a, x, x))
  BY <1>6, <1>7, <1>10, <1>15, ZerosConcat
<1>17. QED
  BY <1>13, <1>16

\* A query that keeps a row has a first one.
LEMMA QueryHasFirst ==
  ASSUME NEW a, Execute(Catalog, a) # {},
         \A row \in Execute(Catalog, a) : /\ Rank(a.subtrees, row.subtree) \in Int
                                          /\ Rank(a.systems, row.system) \in Int
  PROVE  Firsts(Catalog, a) # {}
<1> DEFINE rows == Execute(Catalog, a)
           R == {p \in rows \X rows : Before(a, p[1], p[2])}
<1>1. rows \subseteq Catalog
  BY DEF Execute
<1>2. IsFiniteSet(rows)
  BY <1>1, CatalogAssumption, FS_Subset
<1>3. \A row \in rows : Comparable(row)
  BY <1>1, CatalogAssumption, RowIsComparable
<1>4. \A x, y \in rows : Before(a, x, y) <=> FirstIsBelow(OrderBy(a, x, y))
  BY DEF Before, FirstIsBelow
<1>5. \A x, y \in rows : <<x, y>> \in R <=> Before(a, x, y)
  OBVIOUS
<1>6. rows # {} /\ \A row \in rows : /\ Rank(a.subtrees, row.subtree) \in Int
                                     /\ Rank(a.systems, row.system) \in Int
  OBVIOUS
<1> HIDE DEF rows, R
<1>7. ASSUME NEW x \in rows PROVE <<x, x>> \notin R
  <2>1. Zeros(OrderBy(a, x, x))
    BY <1>3, <1>6, OrderIsChained
  <2>2. PICK order : order = OrderBy(a, x, x)
    OBVIOUS
  <2>3. \A i \in DOMAIN order : order[i] = 0
    BY <2>1, <2>2 DEF Zeros
  <2>4. ~FirstIsBelow(order)
    BY <2>3 DEF FirstIsBelow
  <2>5. QED
    BY <1>4, <1>5, <2>2, <2>4
<1>8. ASSUME NEW x \in rows, NEW y \in rows, NEW z \in rows, <<x, y>> \in R, <<y, z>> \in R
      PROVE  <<x, z>> \in R
  <2>1. Chained(OrderBy(a, x, y), OrderBy(a, y, z), OrderBy(a, x, z))
    BY <1>3, <1>6, OrderIsChained
  <2>2. FirstIsBelow(OrderBy(a, x, y)) /\ FirstIsBelow(OrderBy(a, y, z))
    BY <1>4, <1>5, <1>8
  <2>3. QED
    BY <1>4, <1>5, <2>1, <2>2, ChainedIsTransitive
<1>9. PICK x \in rows : \A y \in rows : <<y, x>> \notin R
  BY <1>2, <1>6, <1>7, <1>8, LeastOfFinite
<1>10. x \in Firsts(Catalog, a)
  BY <1>5, <1>9 DEF Firsts, rows
<1>11. QED
  BY <1>10

\* The arguments of a query name the subtrees and the system of what it keeps.
LEMMA KeptIsRanked ==
  ASSUME LookupInv, stage = "done", ~Skips(request.system), IsQuery(args), NEW row,
         Selected(row, args)
  PROVE  /\ Rank(args.subtrees, row.subtree) \in Int
         /\ Rank(args.systems, row.system) \in Int
<1>1. /\ args.systems = <<request.system>>
      /\ args.subtrees = IF desc.subtree = None THEN PreferredSubtrees(Reg, request.input)
                         ELSE <<desc.subtree>>
  BY DEF IsQuery
<1>2. /\ args.subtrees # None => row.subtree \in ToSet(args.subtrees)
      /\ row.system \in ToSet(args.systems)
  BY DEF Selected
<1>3. request.input \in DOMAIN Reg.inputs
  BY DEF LookupInv, QueryInv
<1>4. desc.subtree \in Subtrees \cup {None}
  BY DEF LookupInv, TypeOK
<1>5. args.subtrees = None \/ args.subtrees \in Seq(Subtrees)
  <2>1. CASE desc.subtree = None
    BY <1>1, <1>3, <2>1, RegAssumption
  <2>2. CASE desc.subtree # None
    <3>1. desc.subtree \in Subtrees
      BY <1>4, <2>2
    <3>2. \A e \in Subtrees : <<e>> \in Seq(Subtrees)
      OBVIOUS
    <3>3. QED
      BY <1>1, <2>2, <3>1, <3>2
  <2>3. QED
    BY <2>1, <2>2
<1>6. args.systems \in Seq({request.system})
  BY <1>1
<1>7. Rank(args.subtrees, row.subtree) \in Int
  BY <1>2, <1>5, RankIsInt
<1>8. Rank(args.systems, row.system) \in Int
  BY <1>2, <1>6, RankIsInt
<1>9. QED
  BY <1>7, <1>8

(* A lookup that ends without a package missed none: no row of the         *)
(* database is what the entry asks for, on the system that was asked for.  *)
THEOREM NothingIsMissed == ASSUME MarkersAreAtoms PROVE Spec => []NothingMissed
<1>1. LookupInv => NothingMissed
  <2>1. SUFFICES ASSUME LookupInv, stage = "done", found = None, NEW row \in Catalog
                 PROVE  ~Wanted(row)
    BY DEF NothingMissed
  <2>2. string = None /\ FoundInv
    BY <2>1 DEF LookupInv
  <2>3. IsRow(row) /\ IsAsked(desc)
    BY <2>1, <2>2, CatalogAssumption, DescriptorIsAsked
  <2>4. CASE Skips(request.system)
    BY <2>3, <2>4, SkippedIsUnwanted
  <2>5. CASE ~Skips(request.system)
    <3>1. IsQuery(args)
      BY <2>1, <2>5, QueryIsAsked
    <3>2. Firsts(Catalog, args) = {}
      <4>1. None \notin Catalog /\ Firsts(Catalog, args) \subseteq Catalog
        BY CatalogAssumption DEF Firsts, Execute
      <4>2. QED
        BY <2>1, <2>2, <2>5, <4>1 DEF FoundInv
    <3>3. \A kept \in Execute(Catalog, args) : /\ Rank(args.subtrees, kept.subtree) \in Int
                                               /\ Rank(args.systems, kept.system) \in Int
      <4>1. \A kept \in Execute(Catalog, args) : Selected(kept, args)
        BY DEF Execute
      <4>2. QED
        BY <2>1, <2>5, <3>1, <4>1, KeptIsRanked
    <3>4. Execute(Catalog, args) = {}
      BY <3>2, <3>3, QueryHasFirst
    <3>5. ~(Selected(row, args) /\ InRange(args, row))
      BY <2>1, <3>4, Executed
    <3>6. QED
      BY <2>3, <2>5, <3>1, <3>5, SelectedIsWanted
  <2>6. QED
    BY <2>4, <2>5
<1>2. QED
  BY <1>1, LookupInvariant, PTL
-----------------------------------------------------------------------------
(***************************************************************************)
(* Which version comes first: the criteria before the versions' own are    *)
(* zero for a rival, so that the first of the versions' criteria decides.  *)
(***************************************************************************)

\* A version that is one has three numbers and a tag.
LEMMA PartsOfSemver ==
  ASSUME NEW row, IsRow(row), row.semver # None
  PROVE  /\ row.version # None /\ row.semver.tag \in Nat
         /\ row.semver.nums \in [1..3 -> 0..99]
         /\ row.semver.nums \in Seq(Int) /\ Len(row.semver.nums) = 3
<1>1. PICK v : v = row.version
  OBVIOUS
<1>2. v \in Texts /\ row.version # None /\ row.semver = CoerceSemver(v)
  BY <1>1 DEF IsRow
<1>3. PICK nums : nums = [i \in 1..3 |-> IF i <= Len(v.nums) THEN v.nums[i] ELSE 0]
  OBVIOUS
<1>4. row.semver = [v EXCEPT !.nums = nums]
  BY <1>2, <1>3 DEF CoerceSemver
<1>5. row.semver.tag = v.tag /\ row.semver.nums = nums
  BY <1>2, <1>4 DEF Texts
<1>6. v.tag \in Nat /\ Len(v.nums) \in Nat /\ \A i \in 1..Len(v.nums) : v.nums[i] \in 0..99
  BY <1>2, TextFields
<1>7. nums \in [1..3 -> 0..99]
  <2>1. ASSUME NEW i \in 1..3
        PROVE  (IF i <= Len(v.nums) THEN v.nums[i] ELSE 0) \in 0..99
    <3>1. PICK n \in Nat : n = Len(v.nums)
      BY <1>6
    <3>2. i <= n => i \in 1..n
      OBVIOUS
    <3>3. 0 \in 0..99
      OBVIOUS
    <3>4. QED
      BY <1>6, <3>1, <3>2, <3>3, Zenon
  <2>2. QED
    BY <1>3, <2>1
<1>8. nums \in Seq(Int) /\ Len(nums) = 3
  <2>1. nums \in [1..3 -> Int]
    BY <1>7
  <2>2. nums \in Seq(Int)
    BY <2>1, SeqDef
  <2>3. QED
    BY <2>1, <2>2, LenProperties
<1>9. QED
  BY <1>2, <1>5, <1>6, <1>7, <1>8

\* Numbers of as many digits are in the order of their texts.
LEMMA DigitsInOrder ==
  ASSUME NEW m \in 0..99, NEW n \in 0..99, (m < 10) = (n < 10), m < n
  PROVE  LexLess(Digits(m), Digits(n))
<1>1. CASE n < 10
  <2>1. Digits(m) = <<m>> /\ Digits(n) = <<n>>
    BY <1>1 DEF Digits
  <2>2. QED
    BY <2>1 DEF LexLess
<1>2. CASE ~(n < 10)
  <2>1. Digits(m) = <<m \div 10, m % 10>> /\ Digits(n) = <<n \div 10, n % 10>>
    BY <1>2 DEF Digits
  <2>2. /\ m \div 10 \in Int /\ m % 10 \in Int /\ n \div 10 \in Int /\ n % 10 \in Int
        /\ m \div 10 < n \div 10 \/ (m \div 10 = n \div 10 /\ m % 10 < n % 10)
    OBVIOUS
  <2>3. PICK a \in Int, b \in Int, c \in Int, d \in Int :
          a = m \div 10 /\ b = m % 10 /\ c = n \div 10 /\ d = n % 10
    BY <2>2
  <2>4. a < c \/ (a = c /\ b < d)
    BY <2>2, <2>3
  <2>5. LexLess(<<a, b>>, <<c, d>>)
    <3>1. CASE a < c
      BY <3>1 DEF LexLess
    <3>2. CASE a = c /\ b < d
      <4>1. 2 \in 1..2 /\ \A j \in 1..1 : j <= 2 /\ <<a, b>>[j] = <<c, d>>[j]
        BY <3>2
      <4>2. QED
        BY <3>2, <4>1 DEF LexLess
    <3>3. QED
      BY <2>4, <3>1, <3>2
  <2>6. QED
    BY <2>1, <2>3, <2>5
<1>3. QED
  BY <1>1, <1>2

\* The first criterion that is not zero, in a list or in what follows zeros.
LEMMA FirstOfConcat ==
  ASSUME NEW u \in Seq(Int), NEW v \in Seq(Int),
         FirstIsBelow(u) \/ (Zeros(u) /\ FirstIsBelow(v))
  PROVE  FirstIsBelow(u \o v)
<1>1. PICK m \in Nat, n \in Nat : m = Len(u) /\ n = Len(v)
  OBVIOUS
<1>2. /\ u \o v \in Seq(Int) /\ Len(u \o v) = m + n
      /\ \A i \in 1..(m + n) : (u \o v)[i] = IF i <= m THEN u[i] ELSE v[i - m]
  BY <1>1, IntsConcat
<1>3. PICK w : w = u \o v /\ w \in Seq(Int) /\ DOMAIN w = 1..(m + n)
  <2>1. DOMAIN (u \o v) = 1..(m + n)
    BY <1>2, LenProperties
  <2>2. QED
    BY <1>2, <2>1
<1>4. \A i \in 1..(m + n) : w[i] = IF i <= m THEN u[i] ELSE v[i - m]
  BY <1>2, <1>3
<1>5. CASE FirstIsBelow(u)
  <2>1. PICK i \in 1..m : u[i] < 0 /\ \A j \in 1..(i - 1) : u[j] = 0
    BY <1>1, <1>5 DEF FirstIsBelow
  <2>2. w[i] = u[i] /\ \A j \in 1..(i - 1) : w[j] = u[j]
    BY <1>4
  <2>3. i \in DOMAIN w /\ w[i] < 0 /\ \A j \in 1..(i - 1) : w[j] = 0
    BY <1>3, <2>1, <2>2
  <2>4. QED
    BY <1>3, <2>3 DEF FirstIsBelow
<1>6. CASE Zeros(u) /\ FirstIsBelow(v)
  <2>1. PICK i \in 1..n : v[i] < 0 /\ \A j \in 1..(i - 1) : v[j] = 0
    BY <1>1, <1>6 DEF FirstIsBelow
  <2>2. \A j \in 1..m : u[j] = 0
    BY <1>1, <1>6 DEF Zeros
  <2>3. m + i \in 1..(m + n) /\ w[m + i] < 0
    <3>1. m + i \in 1..(m + n) /\ ~(m + i <= m) /\ (m + i) - m = i
      OBVIOUS
    <3>2. QED
      BY <1>4, <2>1, <3>1
  <2>4. ASSUME NEW j \in 1..(m + i - 1) PROVE w[j] = 0
    <3>1. CASE j <= m
      BY <1>4, <2>2, <3>1
    <3>2. CASE ~(j <= m)
      <4>1. j - m \in 1..(i - 1) /\ j \in 1..(m + n)
        BY <3>2
      <4>2. QED
        BY <1>4, <2>1, <3>2, <4>1
    <3>3. QED
      BY <3>1, <3>2
  <2>5. PICK k : k = m + i
    OBVIOUS
  <2>6. k \in DOMAIN w /\ w[k] < 0 /\ \A j \in 1..(k - 1) : w[j] = 0
    BY <1>3, <2>3, <2>4, <2>5
  <2>7. QED
    BY <1>3, <2>6 DEF FirstIsBelow
<1>7. QED
  BY <1>5, <1>6

PartsOrder(x, y) == [i \in 1..3 |-> TextAsc(SemverPart(y.semver, i), SemverPart(x.semver, i))]
TagOrder(x, y) == <<DescNullsFirst(PreTag(x.semver), PreTag(y.semver))>>

\* The criteria of two rows' versions are numbers.
LEMMA VersionsOrder ==
  ASSUME NEW a, NEW x, NEW y, Comparable(x), Comparable(y)
  PROVE  /\ PartsOrder(x, y) \in Seq(Int) /\ Len(PartsOrder(x, y)) = 3
         /\ TagOrder(x, y) \in Seq(Int) /\ SemverOrder(a, x, y) \in Seq(Int)
         /\ SemverOrder(a, x, y) = IF a.preferPreReleases THEN PartsOrder(x, y) \o TagOrder(x, y)
                                   ELSE TagOrder(x, y) \o PartsOrder(x, y)
<1>1. PartsOrder(x, y) \in [1..3 -> Int]
  <2>1. ASSUME NEW i \in 1..3
        PROVE  TextAsc(SemverPart(y.semver, i), SemverPart(x.semver, i)) \in Int
    BY TextsChain DEF Comparable
  <2>2. QED
    BY <2>1 DEF PartsOrder
<1>2. PartsOrder(x, y) \in Seq(Int)
  BY <1>1, SeqDef
<1>3. Len(PartsOrder(x, y)) = 3
  BY <1>1, <1>2, LenProperties
<1>4. TagOrder(x, y) \in Seq(Int)
  <2>1. DescNullsFirst(PreTag(x.semver), PreTag(y.semver)) \in Int
    <3>1. PreTag(x.semver) \in Nat /\ PreTag(y.semver) \in Nat
      BY DEF Comparable
    <3>2. \A m, n \in Nat : DescNullsFirst(m, n) \in Int
      BY DEF DescNullsFirst, Asc, Desc
    <3>3. QED
      BY <3>1, <3>2
  <2>2. QED
    BY <2>1 DEF TagOrder
<1>5. SemverOrder(a, x, y) = IF a.preferPreReleases THEN PartsOrder(x, y) \o TagOrder(x, y)
                             ELSE TagOrder(x, y) \o PartsOrder(x, y)
  BY DEF SemverOrder, PartsOrder, TagOrder
<1>6. \A s, t \in Seq(Int) : s \o t \in Seq(Int)
  BY ConcatProperties
<1>7. QED
  BY <1>2, <1>3, <1>4, <1>5, <1>6

\* A release comes before a pre-release, unless pre-releases are preferred.
LEMMA ReleaseFirst ==
  ASSUME NEW a, NEW x, NEW y, Comparable(x), Comparable(y), ~a.preferPreReleases,
         PreTag(x.semver) = 0, PreTag(y.semver) # 0
  PROVE  FirstIsBelow(SemverOrder(a, x, y))
<1>1. PICK n \in Nat : n = PreTag(y.semver) /\ n # 0
  BY DEF Comparable
<1>2. TagOrder(x, y) = <<0 - n>>
  BY <1>1 DEF TagOrder, DescNullsFirst, Asc
<1>3. FirstIsBelow(<<0 - n>>)
  BY <1>1 DEF FirstIsBelow
<1>4. QED
  BY <1>2, <1>3, VersionsOrder, FirstOfConcat

\* Of two versions of a kind, the newer one comes first.
LEMMA NewerFirst ==
  ASSUME NEW a, NEW x, NEW y, IsRow(x), IsRow(y), x.semver # None, y.semver # None,
         SameWidth(y.semver, x.semver), LexLess(y.semver.nums, x.semver.nums),
         a.preferPreReleases \/ x.semver.tag = y.semver.tag
  PROVE  FirstIsBelow(SemverOrder(a, x, y))
<1>1. Comparable(x) /\ Comparable(y)
  BY RowIsComparable
<1>2. PICK s : s = x.semver.nums /\ s \in [1..3 -> 0..99] /\ Len(s) = 3
  BY PartsOfSemver
<1>3. PICK t : t = y.semver.nums /\ t \in [1..3 -> 0..99] /\ Len(t) = 3
  BY PartsOfSemver
<1>4. PICK i \in 1..3 : t[i] < s[i] /\ \A j \in 1..(i - 1) : t[j] = s[j]
  <2>1. LexLess(t, s)
    BY <1>2, <1>3
  <2>2. PICK i \in 1..Len(s) : /\ \A j \in 1..(i - 1) : j <= Len(t) /\ t[j] = s[j]
                               /\ i > Len(t) \/ t[i] < s[i]
    BY <2>1 DEF LexLess
  <2>3. i \in 1..3 /\ t[i] < s[i] /\ \A j \in 1..(i - 1) : t[j] = s[j]
    BY <1>2, <1>3, <2>2
  <2>4. QED
    BY <2>3
<1>5. \A j \in 1..3 : SemverPart(x.semver, j) = Digits(s[j]) /\ SemverPart(y.semver, j) = Digits(t[j])
  BY <1>2, <1>3 DEF SemverPart
<1>6. \A j \in 1..3 : PartsOrder(x, y)[j] = TextAsc(Digits(t[j]), Digits(s[j]))
  BY <1>5 DEF PartsOrder
<1>7. PartsOrder(x, y)[i] < 0
  <2>1. t[i] \in 0..99 /\ s[i] \in 0..99 /\ (t[i] < 10) = (s[i] < 10)
    BY <1>2, <1>3 DEF SameWidth
  <2>2. LexLess(Digits(t[i]), Digits(s[i]))
    BY <1>4, <2>1, DigitsInOrder
  <2>3. QED
    BY <1>6, <2>2 DEF TextAsc
<1>8. ASSUME NEW j \in 1..(i - 1) PROVE PartsOrder(x, y)[j] = 0
  <2>1. j \in 1..3 /\ t[j] = s[j] /\ s[j] \in 0..99
    BY <1>2, <1>4
  <2>2. Digits(s[j]) \in Seq(Int)
    BY <2>1, DigitsAreInts
  <2>3. TextAsc(Digits(s[j]), Digits(s[j])) = 0
    BY <2>2, TextsChain
  <2>4. QED
    BY <1>6, <2>1, <2>3
<1>9. FirstIsBelow(PartsOrder(x, y))
  <2>1. PICK order : order = PartsOrder(x, y)
    OBVIOUS
  <2>2. order \in Seq(Int) /\ Len(order) = 3
    BY <1>1, <2>1, VersionsOrder
  <2>3. i \in DOMAIN order
    BY <2>2
  <2>4. QED
    BY <1>7, <1>8, <2>1, <2>3 DEF FirstIsBelow
<1>10. CASE a.preferPreReleases
  BY <1>1, <1>9, <1>10, VersionsOrder, FirstOfConcat
<1>11. CASE ~a.preferPreReleases
  <2>1. PICK n \in Nat : n = x.semver.tag /\ n = y.semver.tag
    BY <1>11, PartsOfSemver
  <2>2. TagOrder(x, y) = <<0>>
    BY <2>1 DEF TagOrder, PreTag, DescNullsFirst, Desc
  <2>3. Zeros(<<0>>)
    BY DEF Zeros
  <2>4. QED
    BY <1>1, <1>9, <1>11, <2>2, <2>3, VersionsOrder, FirstOfConcat
<1>12. QED
  BY <1>10, <1>11

\* Rows that are alike otherwise are in the order of their versions.
LEMMA VersionsDecide ==
  ASSUME NEW a, NEW x, NEW y, IsRow(x), IsRow(y), x.semver # None, y.semver # None,
         MatchRanks(a, x) = MatchRanks(a, y),
         x.subtree = y.subtree, x.system = y.system, x.pname = y.pname,
         Rank(a.subtrees, x.subtree) \in Int, Rank(a.systems, x.system) \in Int,
         FirstIsBelow(SemverOrder(a, x, y))
  PROVE  Before(a, x, y)
<1> DEFINE Ranks == [i \in 1..8 |-> Desc(MatchRanks(a, x)[i], MatchRanks(a, y)[i])]
           Names ==
             <<Asc(Rank(a.subtrees, x.subtree), Rank(a.subtrees, y.subtree)),
               Asc(Rank(a.systems, x.system), Rank(a.systems, y.system)),
               NameAsc(x.pname, y.pname),
               Asc(VersionType(x.version, x.semver), VersionType(y.version, y.semver))>>
           Last5 ==
             <<TextAsc(VersionDate(y.version, y.semver), VersionDate(x.version, x.semver)),
               NullsLast(Spelled(x.version), Spelled(y.version)),
               Asc(FlagRank(x.broken), FlagRank(y.broken)),
               Asc(FlagRank(x.unfree), FlagRank(y.unfree)),
               NameAsc(AttrName(x), AttrName(y))>>
<1>1. Comparable(x) /\ Comparable(y)
  BY RowIsComparable
<1>2. Zeros(Ranks)
  <2>1. \A i \in 1..8 : MatchRanks(a, x)[i] \in Int
    BY <1>1, MatchRanksAreInts DEF Comparable
  <2>2. \A i \in 1..8 : Ranks[i] = 0
    BY <2>1 DEF Desc
  <2>3. Ranks \in [1..8 -> Int]
    BY <2>2
  <2> HIDE DEF Ranks
  <2>4. QED
    BY <2>2, <2>3, FunctionIsZeros
<1>3. Zeros(Names)
  <2>1. VersionType(x.version, x.semver) = 0 /\ VersionType(y.version, y.semver) = 0
    BY PartsOfSemver DEF VersionType
  <2>2. Alphabet[x.pname] \in Int
    BY <1>1 DEF Comparable
  <2>3. \A m \in Int : Asc(m, m) = 0
    BY DEF Asc
  <2>4. Names = <<0, 0, 0, 0>>
    BY <2>1, <2>2, <2>3 DEF NameAsc
  <2>5. Zeros(<<0, 0, 0, 0>>)
    BY DEF Zeros
  <2>6. QED
    BY <2>4, <2>5
<1>4. Last5 \in Seq(Int)
  <2>1. TextAsc(VersionDate(y.version, y.semver), VersionDate(x.version, x.semver)) \in Int
    BY <1>1, TextsChain DEF Comparable
  <2>2. NullsLast(Spelled(x.version), Spelled(y.version)) \in Int
    BY <1>1, NullsChain DEF Comparable
  <2>3. /\ Asc(FlagRank(x.broken), FlagRank(y.broken)) \in Int
        /\ Asc(FlagRank(x.unfree), FlagRank(y.unfree)) \in Int
        /\ NameAsc(AttrName(x), AttrName(y)) \in Int
    <3>1. \A m, n \in Int : Asc(m, n) \in Int
      BY DEF Asc
    <3>2. Alphabet[AttrName(x)] \in Int /\ Alphabet[AttrName(y)] \in Int
      BY <1>1 DEF Comparable
    <3>3. \A flag : FlagRank(flag) \in Int
      BY DEF FlagRank
    <3>4. QED
      BY <3>1, <3>2, <3>3 DEF NameAsc
  <2>4. \A b, c, d, e, f \in Int : <<b, c, d, e, f>> \in Seq(Int)
    OBVIOUS
  <2>5. QED
    BY <2>1, <2>2, <2>3, <2>4, Zenon
<1>5. OrderBy(a, x, y) = Ranks \o Names \o SemverOrder(a, x, y) \o Last5
  BY DEF OrderBy
<1> HIDE DEF Ranks, Names, Last5
<1>6. Zeros(Ranks \o Names)
  BY <1>2, <1>3, ZerosConcat
<1>7. Ranks \o Names \in Seq(Int) /\ SemverOrder(a, x, y) \in Seq(Int)
  BY <1>1, <1>6, VersionsOrder DEF Zeros
<1>8. Ranks \o Names \o SemverOrder(a, x, y) \in Seq(Int)
  BY <1>7, ConcatProperties
<1>9. FirstIsBelow(Ranks \o Names \o SemverOrder(a, x, y))
  BY <1>6, <1>7, FirstOfConcat
<1>10. FirstIsBelow(OrderBy(a, x, y))
  BY <1>4, <1>5, <1>8, <1>9, FirstOfConcat
<1>11. QED
  BY <1>10 DEF Before, FirstIsBelow

\* A rival matches the name as well as the row that was found.
LEMMA RivalsMatch ==
  ASSUME IsQuery(args), IsAsked(desc), NEW row, Rival(row)
  PROVE  MatchRanks(args, row) = MatchRanks(args, found)
<1>1. Pattern(args) = None
  BY DEF IsQuery, Pattern, Given
<1>2. PICK name : name = args.pnameOrAttrName
  OBVIOUS
<1>3. /\ row.pname = found.pname /\ Depth(row) = Depth(found)
      /\ (AttrName(row) = name) = (AttrName(found) = name)
  BY <1>2 DEF Rival, IsQuery, IsAsked
<1>4. ASSUME NEW r
      PROVE  MatchRanks(args, r) =
               <<Truth(Given(name) /\ name = r.pname), Truth(FALSE),
                 Truth(Given(name) /\ name = AttrName(r)), Truth(FALSE),
                 -Depth(r), Truth(FALSE), Truth(FALSE), Truth(FALSE)>>
  BY <1>1, <1>2 DEF MatchRanks, Exact, Truth
<1>5. Truth(Given(name) /\ name = AttrName(row)) = Truth(Given(name) /\ name = AttrName(found))
  BY <1>3 DEF Truth
<1>6. QED
  BY ZenonT(60), <1>3, <1>4, <1>5

\* fillPkgQueryArgs() and the options say whether pre-releases are preferred.
LEMMA PreferenceIsAsked ==
  ASSUME MarkersAreAtoms, IsQuery(args), IsAsked(desc)
  PROVE  args.preferPreReleases <=> PreReleasesPreferred
<1>1. /\ args.preferPreReleases = IF AsksForRange(desc) /\ desc.semver.op = "~"
                                  THEN desc.semver.tag # 0
                                  ELSE Setting("semver", "preferPreReleases", FALSE)
      /\ Asked("version") # None => Asked("version").kind # "empty"
      /\ desc.version = ExactOf(Asked("version")) /\ desc.semver = RangeOf(Asked("version"))
  BY DEF IsQuery, IsAsked
<1>2. CASE Asked("version") # None /\ Asked("version").op = "~"
  <2>1. Asked("version").op # "=" /\ Asked("version").op # "" /\ Asked("version").op = "~"
    BY <1>2, Zenon
  <2>2. desc.version = None /\ desc.semver = Asked("version")
    BY <1>1, <1>2, <2>1, Zenon DEF ExactOf, RangeOf
  <2>3. QED
    BY <1>1, <1>2, <2>2 DEF AsksForRange, PreReleasesPreferred
<1>3. CASE ~(Asked("version") # None /\ Asked("version").op = "~")
  <2>1. ~(AsksForRange(desc) /\ desc.semver.op = "~")
    BY <1>1, <1>3, Zenon DEF AsksForRange, RangeOf
  <2>2. QED
    BY <1>1, <1>3, <2>1 DEF PreReleasesPreferred
<1>4. QED
  BY <1>2, <1>3

(* No pre-release is found while there is a release as good, unless        *)
(* pre-releases are preferred, and no older version while there is a newer *)
(* one of the same kind whose numbers have as many digits.                 *)
THEOREM BestComesFirst == ASSUME MarkersAreAtoms PROVE Spec => []BestFirst
<1>1. LookupInv => BestFirst
  <2>1. SUFFICES ASSUME LookupInv, found # None, NEW row \in Catalog, Rival(row)
                 PROVE  /\ ~PreReleasesPreferred /\ found.semver.tag # 0 => row.semver.tag # 0
                        /\ /\ SameWidth(found.semver, row.semver)
                           /\ PreReleasesPreferred \/ found.semver.tag = row.semver.tag
                           => ~LexLess(found.semver.nums, row.semver.nums)
    BY DEF BestFirst
  <2>2. /\ stage = "done" /\ string = None
        /\ found \in Firsts(Catalog, args) /\ ~Skips(request.system)
    BY <2>1 DEF LookupInv, FoundInv
  <2>3. found \in Execute(Catalog, args) /\ \A y \in Execute(Catalog, args) : ~Before(args, y, found)
    BY <2>2 DEF Firsts
  <2>4. IsAsked(desc) /\ IsQuery(args)
    BY <2>1, <2>2, DescriptorIsAsked, QueryIsAsked
  <2>5. IsRow(row) /\ IsRow(found) /\ found \in Catalog
    BY <2>3, CatalogAssumption DEF Execute
  <2>6. /\ Wanted(row) /\ row.semver # None /\ found.semver # None
        /\ row.subtree = found.subtree /\ row.pname = found.pname
    BY <2>1 DEF Rival
  <2>7. Selected(row, args) /\ InRange(args, row)
    BY <2>2, <2>4, <2>5, <2>6, SelectedIsWanted
  <2>8. ~Before(args, row, found)
    BY <2>1, <2>3, <2>7, Executed
  <2>9. row.system = found.system
    <3>1. Selected(found, args) /\ InRange(args, found)
      BY <2>3, Executed
    <3>2. Wanted(found)
      BY <2>2, <2>4, <2>5, <3>1, SelectedIsWanted
    <3>3. QED
      BY <2>6, <3>2 DEF Wanted
  <2>10. Rank(args.subtrees, row.subtree) \in Int /\ Rank(args.systems, row.system) \in Int
    BY <2>1, <2>2, <2>4, <2>7, KeptIsRanked
  <2>11. ~FirstIsBelow(SemverOrder(args, row, found))
    BY <2>1, <2>4, <2>5, <2>6, <2>8, <2>9, <2>10, RivalsMatch, VersionsDecide
  <2>12. args.preferPreReleases <=> PreReleasesPreferred
    BY <2>4, PreferenceIsAsked
  <2>13. ~PreReleasesPreferred /\ found.semver.tag # 0 => row.semver.tag # 0
    <3>1. SUFFICES ASSUME ~args.preferPreReleases, found.semver.tag # 0, row.semver.tag = 0
                   PROVE  FALSE
      BY <2>12
    <3>2. PreTag(row.semver) = 0 /\ PreTag(found.semver) # 0
      BY <2>6, <3>1 DEF PreTag
    <3>3. QED
      BY <2>5, <2>11, <3>1, <3>2, RowIsComparable, ReleaseFirst
  <2>14. /\ SameWidth(found.semver, row.semver)
         /\ PreReleasesPreferred \/ found.semver.tag = row.semver.tag
         => ~LexLess(found.semver.nums, row.semver.nums)
    BY <2>5, <2>6, <2>11, <2>12, NewerFirst
  <2>15. QED
    BY <2>13, <2>14
<1>2. QED
  BY <1>1, LookupInvariant, PTL
=============================================================================
