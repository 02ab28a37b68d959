------------------------------ MODULE Resolver ------------------------------
(***************************************************************************)
(* ResolveAll of resolve.go: the settings with the placeholders in their   *)
(* strings replaced, as ResolveTurns has it, and everything else as it is. *)
(***************************************************************************)
EXTENDS ResolveTurns, Trees

VARIABLES settings,     \* ResolveAll's argument
          resolved      \* its result; Absent until it returns

resolveVars == <<turnsVars, settings, resolved>>

ResolverInit ==
    /\ TurnsInit
    /\ settings = Absent
    /\ resolved = Absent

IsText(t) == t.kind = "leaf" /\ t.type = "string"
TextsOf(t) ==
    [node \in {node \in Nodes(t) : IsText(NodeAt(t, node))} |-> NodeAt(t, node).text]

ResolveCall(data) ==
    /\ settings' = data
    /\ ResolveTexts(TextsOf(data))
    /\ UNCHANGED resolved

ResolveStep ==
    /\ SourcesChange \/ \E place \in Places : ResolvePlace(place)
    /\ UNCHANGED <<settings, resolved>>

RECURSIVE resolveValue(_, _)
resolveValue(t, node) ==
    IF IsText(t) THEN Leaf(ReplacedText(node), "string")
    ELSE [t EXCEPT !.at = [k \in DOMAIN t.at |->
                               resolveValue(t.at[k], Append(node, Step(k, 0)))],
                   !.items = [i \in DOMAIN t.items |->
                               resolveValue(t.items[i], Append(node, Step("", i)))]]

ResolveReturn ==
    /\ Places \subseteq DOMAIN answers
    /\ resolved' = resolveValue(settings, <<>>)
    /\ UNCHANGED <<turnsVars, settings>>

-----------------------------------------------------------------------------
(* Properties.                                                             *)

\* ResolveAll changes strings and nothing else, at every depth of maps and
\* slices, and in a string replaces each placeholder once: by what its source
\* said at some time during the call, in which those of one secret may differ,
\* or by itself if the source could not be read then (resolve.go:63).  What an
\* answer contains is not resolved again.
PlaceholdersAreReplacedOnce ==
    resolved # Absent =>
        /\ Nodes(resolved) = Nodes(settings)
        /\ \A node \in Nodes(settings) :
              LET t == NodeAt(settings, node)
                  r == NodeAt(resolved, node) IN
              /\ r.kind = t.kind /\ r.type = t.type
              /\ IF IsText(t) THEN r.text \in Outcomes(t.text, began, now)
                 ELSE r.text = t.text
=============================================================================
