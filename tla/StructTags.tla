----------------------------- MODULE StructTags -----------------------------
(***************************************************************************)
(* What the tags of a Go struct's fields do: the defaults that             *)
(* default_provider.go extracts, the keys encoding/json fills the fields   *)
(* from in Unmarshal (loader.go), and the rules of validation.go.          *)
(*                                                                         *)
(* A struct type is the sequence of its fields.  A field is its name, its  *)
(* yaml tag or "", the settings' keys that JSON takes for it in the order  *)
(* it meets them, its kind, whether it is a pointer to that kind, the text *)
(* of its default, min and max tags, empty if there is none, its pattern,  *)
(* whether it is required, and the fields of a struct.  The kinds:         *)
(*   int       int, int64, float64 and time.Duration                       *)
(*   narrow    the other numbers, which min and max leave alone            *)
(*   duration  models.Duration, an int64 that JSON reads from a string     *)
(*   string, bool, slice, struct                                           *)
(***************************************************************************)
EXTENDS Trees, TLC

CONSTANTS NumberOf,     \* the texts that are numbers and durations, and their values
          toSnakeCase,  \* an underscore before each capital of a name but the first
          Matching      \* for each valid pattern the texts that match it

IsNumber(text) == Len(text) = 1 /\ text \in DOMAIN NumberOf

-----------------------------------------------------------------------------
(* Defaults.                                                               *)

\* Sscanf reads as many digits as there are.
Sscanf(tag) == IF IsNumber(<<Head(tag)>>) THEN <<Head(tag)>> ELSE <<"0">>

parseDefaultTag(kind, tag) ==
    CASE kind \in {"int", "narrow", "duration"} -> Leaf(Sscanf(tag), "int")
      [] kind = "bool" -> Leaf(IF tag = <<"true">> THEN tag ELSE <<"false">>, "bool")
      [] OTHER -> Leaf(tag, "string")

FieldKey(f) == IF f.yaml # "" THEN f.yaml ELSE toSnakeCase[f.name]

\* Only the outermost fields are looked at; of two with one key the last counts.
extractDefaults(fields) ==
    FoldLeft(LAMBDA m, f : Map(FieldKey(f) :> parseDefaultTag(f.kind, f.default) @@ m.at),
             EmptyMap, SelectSeq(fields, LAMBDA f : f.default # <<>>))

-----------------------------------------------------------------------------
(* Unmarshal: a value of the struct, a map from its fields' names.         *)

Failed == Value("error", <<>>, "", <<>>, <<>>)

RECURSIVE zero(_)
StructOf(fields, Of(_)) == Map([n \in {fields[i].name : i \in DOMAIN fields} |->
    Of(CHOOSE f \in {fields[i] : i \in DOMAIN fields} : f.name = n)])

zero(f) ==
    CASE f.ptr -> Nil
      [] ~f.ptr /\ f.kind \in {"int", "narrow", "duration"} -> Leaf(<<"0">>, "int")
      [] ~f.ptr /\ f.kind = "bool" -> Leaf(<<"false">>, "bool")
      [] ~f.ptr /\ f.kind = "slice" -> Slice(<<>>)
      [] ~f.ptr /\ f.kind = "struct" -> StructOf(f.fields, zero)
      [] OTHER -> Leaf(<<>>, "string")

Fits(f, v) ==
    CASE f.kind \in {"int", "narrow"} -> v.type = "int"
      [] f.kind = "duration" -> v.type = "string" /\ v.text \in DOMAIN NumberOf
      [] f.kind = "slice" -> v.kind = "slice"
      [] OTHER -> v.type = f.kind

GoType(f) == CASE f.kind \in {"narrow", "duration"} -> "int"
               [] f.kind = "slice" -> ""
               [] OTHER -> f.kind

\* JSON's null empties a pointer or a slice and leaves other fields as they
\* are, but for a models.Duration, whose UnmarshalJSON takes it for an empty text.
Null(f, v) == v = Nil /\ (f.ptr \/ f.kind # "duration")
Emptied(f) == f.ptr \/ f.kind = "slice"

\* A value comes to a field that may have had one from another key; a field
\* that could not take a value makes Unmarshal fail.
RECURSIVE decodeInto(_, _, _)
decodeField(f, old, v) ==
    CASE old = Failed -> Failed
      [] old # Failed /\ Null(f, v) -> IF Emptied(f) THEN zero(f) ELSE old
      [] old # Failed /\ ~Null(f, v) /\ f.kind = "struct" ->
             IF IsMap(v)
             THEN decodeInto(f.fields, IF old = Nil THEN StructOf(f.fields, zero) ELSE old, v)
             ELSE Failed
      [] OTHER -> IF Fits(f, v) THEN [v EXCEPT !.type = GoType(f)] ELSE Failed
decodeInto(fields, struct, map) ==
    StructOf(fields, LAMBDA f :
        FoldLeft(LAMBDA old, k : decodeField(f, old, map.at[k]), struct.at[f.name],
                 SelectSeq(f.json, LAMBDA k : k \in DOMAIN map.at)))
decode(fields, map) == decodeInto(fields, StructOf(fields, zero), map)

DecodeFails(struct) == \E node \in Nodes(struct) : NodeAt(struct, node) = Failed

-----------------------------------------------------------------------------
(* Validation.                                                             *)

isZeroValue(v) ==
    CASE v.kind = "slice" -> v.items = <<>>
      [] v.kind = "nil" -> TRUE
      [] v.type = "int" -> NumberOf[v.text] = 0
      [] v.type = "bool" -> v.text = <<"false">>
      [] OTHER -> v.text = <<>>

Measured(f) == f.kind \in {"int", "duration", "string"}
Measure(f, v) == IF f.kind = "string" THEN Len(v.text) ELSE NumberOf[v.text]
validateMin(f, v) == Measured(f) => IsNumber(f.min) /\ Measure(f, v) >= NumberOf[f.min]
validateMax(f, v) == Measured(f) => IsNumber(f.max) /\ Measure(f, v) <= NumberOf[f.max]
validatePattern(f, v) ==
    f.kind = "string" => f.pattern \in DOMAIN Matching /\ v.text \in Matching[f.pattern]

Rules == <<"required", "min", "max", "pattern">>
Breaks(f, v, rule) ==
    \/ rule = "required" /\ f.required /\ isZeroValue(v)
    \/ rule = "min" /\ f.min # <<>> /\ ~validateMin(f, v)
    \/ rule = "max" /\ f.max # <<>> /\ ~validateMax(f, v)
    \/ rule = "pattern" /\ f.pattern # "" /\ ~validatePattern(f, v)

First_Last(s) == IF s = <<>> THEN <<>> ELSE <<Last(s)>>     \* mutant
First(s) == IF s = <<>> THEN <<>> ELSE <<Head(s)>>

validateField(f, v, path) ==
    LET broken == SelectSeq(Rules, LAMBDA rule : Breaks(f, v, rule)) IN
    IF broken = <<>> THEN <<>> ELSE <<[field |-> path, rule |-> Head(broken)]>>

IsSkipped(f, v) == f.ptr /\ v = Nil

RECURSIVE validateStruct(_, _, _)
validateStruct(fields, struct, prefix) ==
    First(FlattenSeq([i \in DOMAIN fields |->
        LET f == fields[i]
            v == struct.at[f.name]
            path == Append(prefix, f.name) IN
        CASE IsSkipped(f, v) -> <<>>
          [] ~IsSkipped(f, v) /\ f.kind = "struct" -> validateStruct(f.fields, v, path)
          [] OTHER -> validateField(f, v, path)]))

Validate(fields, struct) == validateStruct(fields, struct, <<>>)
=============================================================================
