------------------------------- MODULE Settings -------------------------------
(***************************************************************************)
(* From the providers to what a program uses: the defaults of a struct and *)
(* the providers' maps are merged (MergeEngine), the program resolves the  *)
(* placeholders of what AllSettings returned (Resolver) and logs it masked *)
(* (Masking), and it unmarshals the loader's settings, in which the        *)
(* placeholders still are, into the struct and validates it (StructTags).  *)
(* examples/config-demo/main.go goes this way.                             *)
(***************************************************************************)
EXTENDS MergeEngine, Resolver, Masking, StructTags

CONSTANT StructsFor(_)  \* the struct types to be tried with some providers

VARIABLES fields,       \* the struct's type
          stage,        \* defaults, merge, resolve, mask, unmarshal, validate, done
          masked,       \* what is logged
          config,       \* the struct after Unmarshal
          report        \* what Validate returned: one error, or none

useVars == <<masked, config, report>>
allVars == <<vars, resolveVars, fields, stage, useVars>>

SettingsInit ==
    /\ Init
    /\ ResolverInit
    /\ fields \in StructsFor(providers)
    /\ stage = "defaults"
    /\ masked = Absent /\ config = Absent /\ report = <<>>

At(here, then) == stage = here /\ stage' = then

DefaultPriority_Files == 30     \* mutant
DefaultPriority == 10

\* NewDefaultProviderFromStruct, whose Load returns the same map each time.
NewDefaults ==
    /\ At("defaults", "merge")
    /\ providers' = <<[priority |-> DefaultPriority, data |-> extractDefaults(fields)]>> \o providers
    /\ UNCHANGED <<strategy, list, result, phase, resolveVars, fields, useVars>>

Merge ==
    /\ At("merge", "merge")
    /\ Next
    /\ UNCHANGED <<resolveVars, fields, useVars>>

\* AllSettings copies every map and slice.
AllSettings ==
    /\ phase = "ready"
    /\ At("merge", "resolve")
    /\ ResolveCall(result)
    /\ UNCHANGED <<vars, fields, useVars>>

Resolve ==
    /\ At("resolve", "resolve")
    /\ ResolveStep
    /\ UNCHANGED <<vars, fields, useVars>>

ResolveEnds ==
    /\ At("resolve", "mask")
    /\ ResolveReturn
    /\ UNCHANGED <<vars, fields, useVars>>

Mask ==
    /\ At("mask", "unmarshal")
    /\ masked' = MaskSensitive(resolved)
    /\ UNCHANGED <<vars, resolveVars, fields, config, report>>

Unmarshal ==
    /\ At("unmarshal", "validate")
    /\ config' = decode(fields, result)
    /\ UNCHANGED <<vars, resolveVars, fields, masked, report>>

\* A program that could not unmarshal does not go on.
ValidateConfig ==
    /\ At("validate", "done")
    /\ ~DecodeFails(config)
    /\ report' = Validate(fields, config)
    /\ UNCHANGED <<vars, resolveVars, fields, masked, config>>

SettingsNext ==
    \/ NewDefaults \/ Merge \/ AllSettings \/ Resolve \/ ResolveEnds
    \/ Mask \/ Unmarshal \/ ValidateConfig

SettingsSpec == SettingsInit /\ [][SettingsNext]_allVars

-----------------------------------------------------------------------------
(* Properties.                                                             *)

\* What is logged is the resolved settings with all that lies below a
\* sensitive key hidden, and nothing else changed: README "Sensitive Field
\* Masking".
LogsHideSecrets == masked # Absent => HidesWhatIsSensitive(resolved, masked)

\* The text of a default tag that parseDefaultTag understands and that a field
\* of the kind can be unmarshalled from.
Plain(f) ==
    CASE f.kind \in {"int", "narrow"} -> IsNumber(f.default)
      [] f.kind = "bool" -> f.default \in {<<"true">>, <<"false">>}
      [] OTHER -> f.kind = "string"

\* No other field takes the key of the default, and all that the providers say
\* of the field is a null, of another key, that leaves it alone.
LeavesAlone(f, k, v) == k # FieldKey(f) /\ Null(f, v) /\ ~Emptied(f)
Unopposed(f) ==
    /\ FieldKey(f) \in Range(f.json)
    /\ \A i \in DOMAIN fields : FieldKey(fields[i]) = FieldKey(f) => fields[i] = f
    /\ \A i \in 2..Len(providers) : \A k \in DOMAIN providers[i].data.at \cap Range(f.json) :
          LeavesAlone(f, k, providers[i].data.at[k])
OnlyKey(f) == DOMAIN result.at \cap Range(f.json) = {FieldKey(f)}

\* The defaults of the tags arrive in the struct, through the default
\* provider, the merge and JSON, which know a field by three different keys:
\* in every outermost field that no provider gives a value, for a tag that its
\* kind can hold.  Where a provider sets the same key, its value arrives if it
\* is the last of the field's keys, and a null if it is the only one.
\* Left out are nested fields, which extractDefaults does not see, a field
\* without a yaml tag whose key in snake case is none that JSON takes, and tags
\* such as "60s" and "[stdout]" (default_provider.go:118).
DefaultsReachTheStruct ==
    stage = "done" =>
        \A i \in DOMAIN fields :
            LET f == fields[i]
                above == Child(providers[2].data, FieldKey(f)) IN
            f.default # <<>> =>
                /\ Plain(f) /\ Unopposed(f) => config.at[f.name].text = f.default
                /\ above # Absent /\ FieldKey(f) = Last(f.json)
                      /\ (OnlyKey(f) \/ above.kind \notin {"nil", "map"}) =>
                       config.at[f.name] = decodeField(f, zero(f), above)

\* All fields that are no structs, by their positions.
RECURSIVE FieldPaths(_)
FieldPaths(fs) ==
    UNION {IF fs[i].kind = "struct" THEN {<<i>> \o p : p \in FieldPaths(fs[i].fields)}
           ELSE {<<i>>} : i \in DOMAIN fs}
FieldAt(path) ==
    FoldLeft(LAMBDA f, i : f.fields[i], [fields |-> fields], path)
NameAt(path) == [n \in DOMAIN path |-> FieldAt(SubSeq(path, 1, n)).name]
IsThere(path) ==
    \A n \in DOMAIN path :
        NodeAt(config, [m \in 1..n |-> Step(NameAt(path)[m], 0)]) # Nil
BrokenAt(path) ==
    LET v == NodeAt(config, [m \in DOMAIN path |-> Step(NameAt(path)[m], 0)]) IN
    SelectSeq(Rules, LAMBDA rule : Breaks(FieldAt(path), v, rule))
Broken == {path \in FieldPaths(fields) : IsThere(path) /\ BrokenAt(path) # <<>>}
Before(p, q) == \E n \in DOMAIN p : SubSeq(p, 1, n - 1) = SubSeq(q, 1, n - 1) /\ p[n] < q[n]

\* Validate accepts a struct only if no field breaks a rule, at any depth, that
\* is not behind a nil pointer, and else reports the first such field in the
\* order of declaration with the first rule it breaks.
ValidateFindsTheFirst ==
    stage = "done" =>
        IF Broken = {} THEN report = <<>>
        ELSE LET first == CHOOSE p \in Broken : \A q \in Broken \ {p} : Before(p, q) IN
             report = <<[field |-> NameAt(first), rule |-> Head(BrokenAt(first))]>>
=============================================================================
