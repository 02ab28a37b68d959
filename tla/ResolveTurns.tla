---------------------------- MODULE ResolveTurns ----------------------------
(***************************************************************************)
(* DynamicResolver of resolve.go: the placeholders in the strings that     *)
(* ResolveAll comes to are replaced one by one by what the environment,    *)
(* Vault and files say, each asked when its turn comes, while they change. *)
(*                                                                         *)
(* A string is known by the node of the settings where it stands, its text *)
(* is a sequence of pieces, and a placeholder is one of them.  Go goes     *)
(* through a map in any order, so any string may be next; one string is    *)
(* finished before the next, from left to right.                           *)
(***************************************************************************)
EXTENDS Integers, Sequences, SequencesExt

CONSTANTS Token,        \* for each placeholder its source, path and key
          World,        \* what env, vault and file hold, one time after another
          Fails         \* what cannot be read

VARIABLES texts,        \* for each node that is a string its text
          now,          \* the time, a position in World
          began,        \* when ResolveAll was called
          answers       \* what was put in the place of each placeholder so far

turnsVars == <<texts, now, began, answers>>

TurnsInit ==
    /\ texts = <<>>
    /\ now = 1
    /\ began = 1
    /\ answers = <<>>

\* An unset variable is empty.
resolveEnv(name, time) ==
    IF name \in DOMAIN World[time].env THEN World[time].env[name] ELSE <<>>

\* Without a key the whole secret is printed, here without the keys.
PrintedData(secret) == FlattenSeq(SetToSeq({secret.at[k].text : k \in DOMAIN secret.at}))

\* No client is World's answer Fails to every path.
resolveVault(path, key, time) ==
    LET secret == World[time].vault[path] IN
    CASE secret = Fails -> Fails
      [] secret # Fails /\ key = "" -> PrintedData(secret)
      [] secret # Fails /\ key \in DOMAIN secret.at -> secret.at[key].text
      [] OTHER -> Fails

Blank(piece) == piece = "\n"
TrimSpace(text) ==
    LET kept == {i \in DOMAIN text : ~Blank(text[i])} IN
    IF kept = {} THEN <<>> ELSE SubSeq(text, Min(kept), Max(kept))
resolveFile(path, time) ==
    IF World[time].file[path] = Fails THEN Fails ELSE TrimSpace(World[time].file[path])

resolveToken(t, time) ==
    CASE t.source = "vault" -> resolveVault(t.path, t.key, time)
      [] t.source = "file" -> resolveFile(t.path, time)
      [] OTHER -> resolveEnv(t.path, time)

\* A placeholder that cannot be resolved stays as it is, without an error.
Replacement_Empty(p, time) ==       \* mutant: the error is not looked at
    IF resolveToken(Token[p], time) = Fails THEN <<>> ELSE resolveToken(Token[p], time)
Replacement(p, time) ==
    IF resolveToken(Token[p], time) = Fails THEN <<p>> ELSE resolveToken(Token[p], time)

-----------------------------------------------------------------------------
Placeholders == DOMAIN Token
PlacesOf(node) == {<<node, i>> : i \in {i \in DOMAIN texts[node] : texts[node][i] \in Placeholders}}
Places == UNION {PlacesOf(node) : node \in DOMAIN texts}

IsDone(node) == PlacesOf(node) \subseteq DOMAIN answers

ResolveTexts(given) ==
    /\ texts' = given
    /\ began' = now
    /\ answers' = <<>>
    /\ UNCHANGED now

\* Nobody sees them change once the last placeholder has been replaced.
SourcesChange ==
    /\ now < Len(World)
    /\ ~(Places \subseteq DOMAIN answers)
    /\ now' = now + 1
    /\ UNCHANGED <<texts, began, answers>>

InTurn_AnyOrder(place) ==           \* mutant: no order within a string
    \A q \in DOMAIN answers : q[1] = place[1] \/ IsDone(q[1])
InTurn(place) ==
    /\ \A q \in DOMAIN answers : q[1] = place[1] \/ IsDone(q[1])
    /\ \A q \in PlacesOf(place[1]) : q[2] < place[2] => q \in DOMAIN answers

ResolvePlace(place) ==
    /\ place \in Places \ DOMAIN answers
    /\ InTurn(place)
    /\ answers' = [q \in DOMAIN answers \union {place} |->
           IF q = place THEN Replacement(texts[place[1]][place[2]], now) ELSE answers[q]]
    /\ UNCHANGED <<texts, now, began>>

\* ReplaceAllStringFunc does not look at what it has put in.
ReplacedText(node) ==
    FlattenSeq([i \in DOMAIN texts[node] |->
        IF <<node, i>> \in DOMAIN answers THEN answers[<<node, i>>] ELSE <<texts[node][i]>>])

\* The texts that any settings may have at any of their nodes.
Node == Seq([key : STRING, index : Nat])
Givens == UNION {[nodes -> Seq(STRING)] : nodes \in SUBSET Node}

TurnsNext ==
    \/ \E given \in Givens : ResolveTexts(given)
    \/ SourcesChange
    \/ \E place \in Places : ResolvePlace(place)

TurnsSpec == TurnsInit /\ [][TurnsNext]_turnsVars

-----------------------------------------------------------------------------
(* Properties.                                                             *)

\* The times at which the pieces of a text may have been come to: none before
\* the one to its left.
Moments(text, from, to) ==
    {f \in [DOMAIN text -> from..to] :
        \A i, j \in DOMAIN text : i < j => f[i] <= f[j]}

\* What a text may have become between two times.
Outcomes(text, from, to) ==
    LET Answer(p, time) ==
            LET said == resolveToken(Token[p], time) IN IF said = Fails THEN <<p>> ELSE said
    IN {FlattenSeq([i \in DOMAIN text |->
            IF text[i] \in Placeholders THEN Answer(text[i], f[i]) ELSE <<text[i]>>]) :
        f \in Moments(text, from, to)}

\* A string whose placeholders have all been come to is what its sources have
\* made of it during this call, each asked after the one to its left: the parts of
\* a secret that is rotated meanwhile may differ, but never so that a part that
\* stands further right is of an earlier time (resolve.go:57).
TextsComeOut ==
    \A node \in DOMAIN texts :
        IsDone(node) => ReplacedText(node) \in Outcomes(texts[node], began, now)

\* Within a string the answers are those of its leftmost placeholders.
LeftToRight ==
    \A p \in DOMAIN answers : \A q \in PlacesOf(p[1]) : q[2] < p[2] => q \in DOMAIN answers

\* The answers so far were given at times in the order of the placeholders.
AnswersAreTimely ==
    \A node \in DOMAIN texts : \E f \in Moments(texts[node], began, now) :
        \A q \in PlacesOf(node) \cap DOMAIN answers :
            answers[q] = Replacement(texts[node][q[2]], f[q[2]])

\* The inductive invariant.
TurnsInv ==
    /\ texts \in Givens
    /\ began \in Nat /\ now \in Nat /\ began <= now
    /\ DOMAIN answers \subseteq Places
    /\ LeftToRight
    /\ AnswersAreTimely
=============================================================================
