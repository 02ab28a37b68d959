-------------------------- MODULE ResolveTurnsProofs --------------------------
(***************************************************************************)
(* Proofs about ResolveTurns, for settings with any strings at any nodes,  *)
(* any placeholders and any history of their sources: a string comes out   *)
(* as its sources made it at times that go from left to right.             *)
(***************************************************************************)
EXTENDS ResolveTurns, TLAPS

\* The text of a node is a sequence.
LEMMA TextOfNode ==
    ASSUME texts \in Givens, NEW node \in DOMAIN texts
    PROVE  /\ texts[node] \in Seq(STRING)
           /\ DOMAIN texts[node] \subseteq Nat
<1>1. PICK nodes \in SUBSET Node : texts \in [nodes -> Seq(STRING)]
  BY DEF Givens
<1>2. texts[node] \in Seq(STRING)
  BY <1>1
<1>3. DOMAIN texts[node] = 1..Len(texts[node]) /\ Len(texts[node]) \in Nat
  BY <1>2
<1> QED
  BY <1>2, <1>3

\* A place is a node of a text and a position of a placeholder in it.
LEMMA PlaceFacts ==
    /\ \A node \in DOMAIN texts : PlacesOf(node) \subseteq Places
    /\ \A node, q : q \in PlacesOf(node) =>
          /\ q = <<node, q[2]>> /\ q[1] = node /\ q[2] \in DOMAIN texts[node]
          /\ texts[node][q[2]] \in Placeholders
    /\ \A q \in Places : q[1] \in DOMAIN texts /\ q \in PlacesOf(q[1])
<1>1. \A node \in DOMAIN texts : PlacesOf(node) \subseteq Places
  BY DEF Places
<1>2. \A node, q : q \in PlacesOf(node) =>
          /\ q = <<node, q[2]>> /\ q[1] = node /\ q[2] \in DOMAIN texts[node]
          /\ texts[node][q[2]] \in Placeholders
  BY DEF PlacesOf
<1>3. \A q \in Places : q[1] \in DOMAIN texts /\ q \in PlacesOf(q[1])
  BY <1>2 DEF Places
<1> QED
  BY <1>1, <1>2, <1>3

\* When the time goes on, what was possible so far still is.
LEMMA MomentsGrow ==
    ASSUME NEW text, NEW from \in Nat, NEW to \in Nat, NEW later \in Nat, to <= later
    PROVE  Moments(text, from, to) \subseteq Moments(text, from, later)
BY DEF Moments

\* The pieces from position i on may be come to again at the end of the time.
LEMMA MomentsPutOff ==
    ASSUME NEW text, DOMAIN text \subseteq Nat, NEW from \in Nat, NEW to \in Nat, from <= to,
           NEW f \in Moments(text, from, to), NEW i \in DOMAIN text
    PROVE  [j \in DOMAIN text |-> IF j >= i THEN to ELSE f[j]] \in Moments(text, from, to)
<1> DEFINE g == [j \in DOMAIN text |-> IF j >= i THEN to ELSE f[j]]
<1>1. \A j \in DOMAIN text : f[j] \in from..to
  BY DEF Moments
<1>2. g \in [DOMAIN text -> from..to]
  BY <1>1
<1>3. ASSUME NEW j \in DOMAIN text, NEW k \in DOMAIN text, j < k
      PROVE  g[j] <= g[k]
  <2>1. CASE k >= i
    BY <1>1, <1>2, <2>1
  <2>2. CASE ~(k >= i)
    <3>1. g[j] = f[j] /\ g[k] = f[k]
      BY <1>3, <2>2
    <3> QED
      BY <1>3, <3>1 DEF Moments
  <2> QED
    BY <2>1, <2>2
<1> QED
  BY <1>2, <1>3 DEF Moments

\* The answers of a node whose places stay as they are remain timely.
LEMMA StaysTimely ==
    ASSUME NEW node \in DOMAIN texts, texts' = texts, began' = began,
           began \in Nat, now \in Nat, now' \in Nat, now <= now',
           PlacesOf(node) \cap DOMAIN answers' = PlacesOf(node) \cap DOMAIN answers,
           \A q \in PlacesOf(node) \cap DOMAIN answers : answers'[q] = answers[q],
           NEW f \in Moments(texts[node], began, now),
           \A q \in PlacesOf(node) \cap DOMAIN answers :
               answers[q] = Replacement(texts[node][q[2]], f[q[2]])
    PROVE  \E g \in Moments(texts'[node], began', now') :
               \A q \in PlacesOf(node)' \cap DOMAIN answers' :
                   answers'[q] = Replacement(texts'[node][q[2]], g[q[2]])
<1>1. f \in Moments(texts'[node], began', now')
  BY MomentsGrow
<1>2. PlacesOf(node)' = PlacesOf(node)
  BY DEF PlacesOf
<1> QED
  BY <1>1, <1>2

LEMMA TurnsInvInit == TurnsInit => TurnsInv
<1> SUFFICES ASSUME TurnsInit PROVE TurnsInv
  OBVIOUS
<1>1. texts = <<>> /\ DOMAIN texts = {}
  BY DEF TurnsInit
<1>2. texts \in Givens
  <2>1. texts \in [{} -> Seq(STRING)]
    BY <1>1
  <2> QED
    BY <2>1 DEF Givens
<1>3. DOMAIN answers = {}
  BY DEF TurnsInit
<1> QED
  BY <1>1, <1>2, <1>3 DEF TurnsInit, TurnsInv, LeftToRight, AnswersAreTimely

\* A new call: nothing is answered yet, and any moment will do.
LEMMA CallStep ==
    ASSUME TurnsInv, NEW given \in Givens, ResolveTexts(given)
    PROVE  TurnsInv'
<1>1. texts' \in Givens /\ began' = now /\ now' = now /\ now \in Nat
  BY DEF ResolveTexts, TurnsInv
<1>2. answers' = <<>> /\ DOMAIN answers' = {}
  BY DEF ResolveTexts
<1>3. ASSUME NEW node \in DOMAIN texts'
      PROVE  \E f \in Moments(texts'[node], began', now') : TRUE
  <2>1. [i \in DOMAIN texts'[node] |-> now] \in Moments(texts'[node], began', now')
    BY <1>1 DEF Moments
  <2> QED
    BY <2>1
<1> QED
  BY <1>1, <1>2, <1>3 DEF TurnsInv, LeftToRight, AnswersAreTimely

LEMMA ChangeStep ==
    ASSUME TurnsInv, SourcesChange \/ UNCHANGED turnsVars
    PROVE  TurnsInv'
<1>1. texts' = texts /\ began' = began /\ answers' = answers
  BY DEF SourcesChange, turnsVars
<1>2. now' \in Nat /\ now <= now' /\ began \in Nat /\ now \in Nat
  BY DEF SourcesChange, turnsVars, TurnsInv
<1>3. Places' = Places /\ \A node : PlacesOf(node)' = PlacesOf(node)
  BY <1>1 DEF Places, PlacesOf
<1>4. AnswersAreTimely'
  <2> SUFFICES ASSUME NEW node \in DOMAIN texts
               PROVE  \E g \in Moments(texts'[node], began', now') :
                          \A q \in PlacesOf(node)' \cap DOMAIN answers' :
                              answers'[q] = Replacement(texts'[node][q[2]], g[q[2]])
    BY <1>1 DEF AnswersAreTimely
  <2>1. PICK f \in Moments(texts[node], began, now) :
            \A q \in PlacesOf(node) \cap DOMAIN answers :
                answers[q] = Replacement(texts[node][q[2]], f[q[2]])
    BY DEF TurnsInv, AnswersAreTimely
  <2> QED
    BY <1>1, <1>2, <2>1, StaysTimely
<1>5. LeftToRight'
  BY <1>1, <1>3 DEF TurnsInv, LeftToRight
<1> QED
  BY <1>1, <1>2, <1>3, <1>4, <1>5 DEF TurnsInv

\* An answer more: the placeholder is the leftmost of its string without one, so
\* that whatever comes to its right can be thought of as asked now too.
LEMMA PlaceStep ==
    ASSUME TurnsInv, NEW place \in Places, ResolvePlace(place)
    PROVE  TurnsInv'
<1> DEFINE node == place[1]
           i == place[2]
<1>1. /\ texts' = texts /\ began' = began /\ now' = now
      /\ began \in Nat /\ now \in Nat /\ began <= now
  BY DEF ResolvePlace, TurnsInv
<1>2. /\ DOMAIN answers' = DOMAIN answers \union {place}
      /\ answers'[place] = Replacement(texts[node][i], now)
      /\ \A q \in DOMAIN answers : answers'[q] = answers[q]
  BY DEF ResolvePlace
<1>3. Places' = Places /\ \A n : PlacesOf(n)' = PlacesOf(n)
  BY <1>1 DEF Places, PlacesOf
<1>4. /\ node \in DOMAIN texts /\ place \in PlacesOf(node) /\ place = <<node, i>>
      /\ i \in DOMAIN texts[node] /\ place \notin DOMAIN answers
  BY PlaceFacts DEF ResolvePlace
<1>5. \A q \in PlacesOf(node) : q[2] < i => q \in DOMAIN answers
  BY DEF ResolvePlace, InTurn
<1>6. LeftToRight'
  <2>1. LeftToRight
    BY DEF TurnsInv
  <2> SUFFICES ASSUME NEW p \in DOMAIN answers', NEW q \in PlacesOf(p[1]), q[2] < p[2]
               PROVE  q \in DOMAIN answers'
    BY <1>3 DEF LeftToRight
  <2>2. CASE p = place
    BY <1>2, <1>5, <2>2
  <2>3. CASE p \in DOMAIN answers
    BY <1>2, <2>1, <2>3 DEF LeftToRight
  <2> QED
    BY <1>2, <2>2, <2>3
<1>7. AnswersAreTimely'
  <2> SUFFICES ASSUME NEW n \in DOMAIN texts
               PROVE  \E g \in Moments(texts'[n], began', now') :
                          \A q \in PlacesOf(n)' \cap DOMAIN answers' :
                              answers'[q] = Replacement(texts'[n][q[2]], g[q[2]])
    BY <1>1 DEF AnswersAreTimely
  <2>1. PICK f \in Moments(texts[n], began, now) :
            \A q \in PlacesOf(n) \cap DOMAIN answers :
                answers[q] = Replacement(texts[n][q[2]], f[q[2]])
    BY DEF TurnsInv, AnswersAreTimely
  <2>2. CASE n # node
    <3>1. place \notin PlacesOf(n)
      BY <2>2, PlaceFacts
    <3>2. PlacesOf(n) \cap DOMAIN answers' = PlacesOf(n) \cap DOMAIN answers
      BY <1>2, <3>1
    <3> QED
      BY <1>1, <1>2, <2>1, <3>2, StaysTimely
  <2>3. CASE n = node
    <3> DEFINE g == [j \in DOMAIN texts[node] |-> IF j >= i THEN now ELSE f[j]]
    <3>1. DOMAIN texts[node] \subseteq Nat
      BY <1>4, TextOfNode DEF TurnsInv
    <3>2. g \in Moments(texts[node], began, now)
      BY <1>1, <1>4, <2>1, <2>3, <3>1, MomentsPutOff
    <3>3. ASSUME NEW q \in PlacesOf(node), q \in DOMAIN answers'
          PROVE  answers'[q] = Replacement(texts[node][q[2]], g[q[2]])
      <4>1. q = <<node, q[2]>> /\ q[1] = node /\ q[2] \in DOMAIN texts[node]
        BY <3>3, PlaceFacts
      <4>2. CASE q = place
        <5>1. g[i] = now
          BY <1>4, <3>1
        <5> QED
          BY <1>2, <4>2, <5>1
      <4>3. CASE q # place
        <5>1. q \in DOMAIN answers
          BY <1>2, <3>3, <4>3
        <5>2. q[2] < i
          <6>1. q[2] # i
            BY <1>4, <4>1, <4>3
          <6>2. ~(i < q[2])
            BY <1>4, <4>1, <5>1 DEF TurnsInv, LeftToRight
          <6> QED
            BY <1>4, <3>1, <4>1, <6>1, <6>2
        <5>3. g[q[2]] = f[q[2]]
          BY <1>4, <3>1, <4>1, <5>2
        <5> QED
          BY <1>2, <2>1, <2>3, <3>3, <5>1, <5>3
      <4> QED
        BY <4>2, <4>3
    <3> QED
      BY <1>1, <1>3, <2>3, <3>2, <3>3
  <2> QED
    BY <2>2, <2>3
<1> QED
  BY <1>1, <1>2, <1>3, <1>6, <1>7 DEF TurnsInv

LEMMA TurnsInvStep == TurnsInv /\ [TurnsNext]_turnsVars => TurnsInv'
BY CallStep, ChangeStep, PlaceStep DEF TurnsNext

\* TurnsInv holds in every state.
THEOREM TurnsInvariant == TurnsSpec => []TurnsInv
BY TurnsInvInit, TurnsInvStep, PTL DEF TurnsSpec

\* A string all of whose placeholders have been come to is one of the texts that
\* its sources could have made of it in this call, from left to right.
THEOREM EveryTextComesOut == TurnsSpec => []TextsComeOut
<1>1. TurnsInv => TextsComeOut
  <2> SUFFICES ASSUME TurnsInv, NEW node \in DOMAIN texts, IsDone(node)
               PROVE  ReplacedText(node) \in Outcomes(texts[node], began, now)
    BY DEF TextsComeOut
  <2> DEFINE text == texts[node]
             Answer(p, time) ==
                LET said == resolveToken(Token[p], time) IN IF said = Fails THEN <<p>> ELSE said
  <2>1. PICK f \in Moments(text, began, now) :
            \A q \in PlacesOf(node) \cap DOMAIN answers :
                answers[q] = Replacement(text[q[2]], f[q[2]])
    BY DEF TurnsInv, AnswersAreTimely
  <2> DEFINE pieces == [i \in DOMAIN text |->
                 IF <<node, i>> \in DOMAIN answers THEN answers[<<node, i>>] ELSE <<text[i]>>]
             outcome == [i \in DOMAIN text |->
                 IF text[i] \in Placeholders THEN Answer(text[i], f[i]) ELSE <<text[i]>>]
  <2>2. ASSUME NEW i \in DOMAIN text
        PROVE  pieces[i] = outcome[i]
    <3>1. CASE text[i] \in Placeholders
      <4>1. <<node, i>> \in PlacesOf(node) \cap DOMAIN answers
        BY <2>2, <3>1 DEF PlacesOf, IsDone
      <4>2. answers[<<node, i>>] = Replacement(text[i], f[i])
        BY <2>1, <4>1
      <4> QED
        BY <3>1, <4>1, <4>2 DEF Replacement
    <3>2. CASE text[i] \notin Placeholders
      <4>1. <<node, i>> \notin DOMAIN answers
        <5>1. <<node, i>> \notin Places
          BY <3>2, PlaceFacts
        <5> QED
          BY <5>1 DEF TurnsInv
      <4> QED
        BY <3>2, <4>1
    <3> QED
      BY <3>1, <3>2
  <2>3. pieces = outcome
    BY <2>2
  <2>4. ReplacedText(node) = FlattenSeq(outcome)
    BY <2>3 DEF ReplacedText
  <2> QED
    BY <2>1, <2>4 DEF Outcomes
<1> QED
  BY <1>1, TurnsInvariant, PTL
=============================================================================
