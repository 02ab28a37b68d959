------------------------------ MODULE MCSettings ------------------------------
(***************************************************************************)
(* Settings for TLC.  Three groups of providers:                           *)
(* - three of which each has two priorities and every shape of a map of    *)
(*   the key "a" with a key or two below it and a third level, to be       *)
(*   merged;                                                               *)
(* - one with placeholders in every position, to be resolved and masked;   *)
(* - one below which a struct with tags of every sort has its defaults.    *)
(***************************************************************************)
EXTENDS Settings

\* The map of the keys that are not absent.
Tree(f) == Map([k \in {k \in DOMAIN f : f[k] # Absent} |-> f[k]])

\* Values that tell the providers apart.  A slice holds the provider's own
\* value and one that all of them share, of its own type.
Own(i) == Leaf(<<ToString(i)>>, "int")
Shared(i) == Leaf(<<"x">>, IF i = 1 THEN "string" ELSE "custom")
List(i) == Slice(<<Own(i), Shared(i)>>)
Simple(i) == {Absent, Nil, EmptyMap, Own(i), List(i)}

Third(i) == Tree("a" :> Own(i))
Second(i) == {Tree("a" :> v @@ "b" :> Absent) : v \in {Own(i), List(i), Third(i)}}
             \union {Tree("a" :> Third(i) @@ "b" :> Own(i))}
Trees3(i) == {Tree("a" :> v) : v \in Simple(i) \union Second(i)}

Provider(i) == [priority : {20, 30}, data : Trees3(i)]
Three == Provider(1) \X Provider(2) \X Provider(3)

AllPaths == {<<"a">>, <<"a", "a">>, <<"a", "b">>, <<"a", "a", "a">>}

-----------------------------------------------------------------------------
Str(text) == Leaf(text, "string")
Num(piece) == Leaf(<<piece>>, "int")

\* The secret db is rotated and then gone; its password is another placeholder.
Placeholder(source, path, key) == [source |-> source, path |-> path, key |-> key]
Tokens ==
    "${HOME}" :> Placeholder("env", "HOME", "")
    @@ "${VAULT:db:user}" :> Placeholder("vault", "db", "user")
    @@ "${VAULT:db:pass}" :> Placeholder("vault", "db", "pass")
    @@ "${VAULT:db:port}" :> Placeholder("vault", "db", "port")
    @@ "${VAULT:db}" :> Placeholder("vault", "db", "")
    @@ "${FILE:f}" :> Placeholder("file", "f", "")
Secret(v) == Map("user" :> Str(<<"u", v>>) @@ "pass" :> Str(<<"${HOME}", v>>))
Times ==
    <<[env |-> [x \in {"HOME"} |-> <<"h">>], vault |-> [x \in {"db"} |-> Secret("1")],
       file |-> [x \in {"f"} |-> <<"\n", "k", "\n", "\n">>]],
      [env |-> [x \in {"HOME"} |-> <<"h">>], vault |-> [x \in {"db"} |-> Secret("2")],
       file |-> [x \in {"f"} |-> Fails]],
      [env |-> [x \in {} |-> <<>>], vault |-> [x \in {"db"} |-> Fails],
       file |-> [x \in {"f"} |-> <<"\n">>]]>>

Sensitive == {"b", "password"}
Secrets == {Str(<<"${VAULT:db:pass}">>), Str(<<"1", "2", "3", "4">>),
            Str(<<"1", "2", "${FILE:f}", "4", "5">>), Num("9"), Nil,
            Slice(<<Str(<<"1", "2", "3", "4", "5">>)>>), Map("n" :> Str(<<"${VAULT:db}">>))}
ToResolve ==
    {Map("url" :> Str(<<"x", "${VAULT:db:user}", ":", "${VAULT:db:pass}">>)
         @@ "list" :> Slice(<<Str(<<"${FILE:f}", "${HOME}">>),
                              Map("password" :> s @@ "n" :> Num("9")),
                              Slice(<<Str(<<"${VAULT:db:port}">>), Nil>>)>>)) : s \in Secrets}

-----------------------------------------------------------------------------
Field(name, yaml, json, kind) ==
    [name |-> name, yaml |-> yaml, json |-> json, kind |-> kind, ptr |-> FALSE,
     default |-> <<>>, required |-> FALSE, min |-> <<>>, max |-> <<>>, pattern |-> "",
     fields |-> <<>>]
Port == [Field("Port", "port", <<"Port", "port">>, "int") EXCEPT !.default = <<"3">>]
Name == Field("Name", "name", <<"Name", "name">>, "string")

Ports == {Port, [Port EXCEPT !.min = <<"3">>], [Port EXCEPT !.max = <<"3">>],
          [Port EXCEPT !.yaml = "", !.required = TRUE], [Port EXCEPT !.ptr = TRUE, !.min = <<"9">>],
          [Port EXCEPT !.kind = "narrow", !.min = <<"9">>],
          [Port EXCEPT !.default = <<"3", "s">>, !.max = <<"3", "s">>],
          [Port EXCEPT !.kind = "duration"], [Port EXCEPT !.kind = "slice"],
          [Port EXCEPT !.kind = "bool", !.default = <<"true">>, !.required = TRUE]}
Names == {[Name EXCEPT !.required = TRUE], [Name EXCEPT !.min = <<"2">>, !.max = <<"2">>],
          [Name EXCEPT !.pattern = "p"], [Name EXCEPT !.pattern = "invalid"],
          [Field("MaxConns", "", <<"MaxConns", "max_conns">>, "string")
              EXCEPT !.default = <<"a">>, !.required = TRUE]}
Nested(fs, ptr) == [Field("DB", "db", <<"DB", "db">>, "struct") EXCEPT !.fields = fs, !.ptr = ptr]
Shapes == Ports \X Names
NestedShapes == {<<Nested(fs, ptr), [Name EXCEPT !.required = TRUE]>> :
                    fs \in Shapes, ptr \in BOOLEAN}

Flat == {Tree("port" :> p @@ "name" :> n @@ "db" :> Absent) :
            p \in {Absent, Nil, Num("0"), Num("9"), Str(<<"3", "s">>)},
            n \in {Absent, Str(<<>>), Str(<<"a", "b">>), Str(<<"a", "b", "c">>)}}
Inner == {t \in Flat : Child(t, "name") \in {Absent, Str(<<"a", "b">>)}}
Deep == {Tree("name" :> n @@ "db" :> d) : n \in {Absent, Str(<<"a">>)}, d \in {Absent, Nil} \union Inner}
Numbers == <<"0">> :> 0 @@ <<"3">> :> 3 @@ <<"9">> :> 9 @@ <<"2">> :> 2 @@ <<"3", "s">> :> 3000
Snake == "Port" :> "Port" @@ "Name" :> "Name" @@ "MaxConns" :> "Max_Conns" @@ "DB" :> "D_B"
Patterns == "p" :> {<<"a", "b">>}

Alone(trees) == {<<[priority |-> 20, data |-> t]>> : t \in trees}
Groups == Three \union Alone(ToResolve) \union Alone(Flat) \union Alone(Deep)
MCStructsFor(p) ==
    IF p \in Alone(Flat) THEN Shapes
    ELSE IF p \in Alone(Deep) THEN NestedShapes
    ELSE {<<>>}
=============================================================================
