------------------------------- MODULE Masking -------------------------------
(***************************************************************************)
(* mask.go: the copy of the settings that may be logged.                   *)
(*                                                                         *)
(* What isSensitiveKey looks for in a key's letters is the set of keys it  *)
(* finds, and the bytes of a string are the pieces of its text.            *)
(***************************************************************************)
EXTENDS Trees

CONSTANT isSensitiveKey     \* the keys that contain a sensitive keyword

Stars(n) == [i \in 1..n |-> "*"]

Visible(text) == Len(text) > 4

Edges(text) ==
    LET n == Len(text) IN SubSeq(text, 1, 2) \o Stars(n - 4) \o SubSeq(text, n - 1, n)

\* Two bytes stay at each end of a string of more than four; anything else
\* disappears.
maskValue(t) ==
    Leaf(IF t.type = "string" /\ Visible(t.text) THEN Edges(t.text) ELSE Stars(3), "string")

RECURSIVE maskElement(_)

MaskEntry_MapsFirst(key, v) ==  \* mutant: a map under a sensitive key is searched
    IF key \in isSensitiveKey /\ ~IsMap(v) THEN maskValue(v) ELSE maskElement(v)
MaskEntry(key, v) ==
    IF key \in isSensitiveKey THEN maskValue(v) ELSE maskElement(v)

maskMap(m) == Map([key \in DOMAIN m.at |-> MaskEntry(key, m.at[key])])

maskElement(t) ==
    CASE IsMap(t) -> maskMap(t)
      [] t.kind = "slice" -> Slice([i \in DOMAIN t.items |-> maskElement(t.items[i])])
      [] OTHER -> t

MaskSensitive(data) == maskMap(data)
-----------------------------------------------------------------------------
(* Properties.                                                             *)

Under(node) == {n \in DOMAIN node : node[n].key \in isSensitiveKey}

\* The masked copy shows the settings as they are but for what lies below a
\* sensitive key, whatever that is and however deep, slices of maps included:
\* of that it shows one string, with the ends of a string that is longer than
\* them, and nothing of any other value.
HidesWhatIsSensitive(data, masked) ==
    LET Shown == {node \in Nodes(data) : Under(Front(<<Step("", 0)>> \o node)) = {}} IN
    /\ Nodes(masked) = Shown
    /\ \A node \in Shown :
          LET t == NodeAt(data, node)
              m == NodeAt(masked, node) IN
          IF Under(node) = {} THEN m.kind = t.kind /\ m.text = t.text /\ m.type = t.type
          ELSE /\ m.kind = "leaf" /\ m.type = "string"
               /\ IF t.type = "string" /\ Len(t.text) > 4
                  THEN Len(m.text) = Len(t.text)
                       /\ \A i \in 3..(Len(t.text) - 2) : m.text[i] = "*"
                  ELSE \A i \in DOMAIN m.text : m.text[i] = "*"
=============================================================================
