---------------------------- MODULE MCEnvProvider ----------------------------
(***************************************************************************)
(* EnvProvider for TLC: every order of every choice of six variables, two  *)
(* of which differ in the case of their names, one is the start of others, *)
(* one lacks the prefix, and one has two values.                           *)
(***************************************************************************)
EXTENDS EnvProvider, TLC, FiniteSets

Variable(name, key, value) == [name |-> name, key |-> key, value |-> value]

Variables ==
    {Variable("DB", <<"db">>, "on"), Variable("DB_HOST", <<"db", "host">>, "true"),
     Variable("DB_HOST", <<"db", "host">>, "07"), Variable("db_host", <<"db", "host">>, "1.50"),
     Variable("DB_POOL_SIZE", <<"db", "pool", "size">>, ""), Variable("HOME", <<>>, "6")}

Distinct(s) == \A i, j \in DOMAIN s : s[i].name = s[j].name => i = j
Orders(k) == {s \in [1..k -> Variables] : Distinct(s)}
AllEnvironments == UNION {Orders(k) : k \in 0..4}

Integral == "07" :> "7" @@ "6" :> "6"
Decimal == "07" :> "7" @@ "6" :> "6" @@ "1.50" :> "1.5"
=============================================================================
