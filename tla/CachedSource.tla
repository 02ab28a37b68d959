---------------------------- MODULE CachedSource ----------------------------
(***************************************************************************)
(* What a provider with a cache (vault_provider.go) promises to those who  *)
(* load it and to those who watch it, with no poll loop and no answer in   *)
(* flight: a Load answers with what the source held at some time during    *)
(* the call, or else with what was stored last, and fails only while       *)
(* nothing has been stored.  What is stored by itself is announced before  *)
(* anything else is stored so.                                             *)
(*                                                                         *)
(* The content of the source is its version; 0 is nothing.                 *)
(***************************************************************************)
EXTENDS Integers

CONSTANT Loaders        \* goroutines that call Load

VARIABLES source,       \* the current version of the source
          cache,        \* the version stored last
          told,         \* the version last returned from the source or announced
          owed,         \* an announcement is owed
          req,          \* where each call stands
          since,        \* the source's version when it was made
          answer        \* what the last finished call returned

vars == <<source, cache, told, owed, req, since, answer>>

Init ==
    /\ source = 1 /\ cache = 0
    /\ told = 0 /\ owed = FALSE
    /\ req = [c \in Loaders |-> "idle"]
    /\ since = [c \in Loaders |-> 0]
    /\ answer = [c \in Loaders |-> [from |-> "none", ver |-> 0]]

Change ==
    /\ source' = source + 1
    /\ UNCHANGED <<cache, told, owed, req, since, answer>>

Ask(c) ==
    /\ req[c] = "idle"
    /\ req' = [req EXCEPT ![c] = "asked"]
    /\ since' = [since EXCEPT ![c] = source]
    /\ UNCHANGED <<source, cache, told, owed, answer>>

Return(c, from, v) ==
    /\ req[c] = "asked"
    /\ req' = [req EXCEPT ![c] = "idle"]
    /\ answer' = [answer EXCEPT ![c] = [from |-> from, ver |-> v]]

\* A call that reaches the source stores and returns one answer, as recent as
\* the call.
AnswerFresh(c) ==
    /\ \E v \in since[c]..source :
          Return(c, "vault", v) /\ cache' = v /\ told' = v
    /\ UNCHANGED <<source, owed, since>>

AnswerCached(c) ==
    /\ cache # 0
    /\ Return(c, "cache", cache)
    /\ UNCHANGED <<source, cache, told, owed, since>>

Fail(c) ==
    /\ cache = 0
    /\ Return(c, "error", 0)
    /\ UNCHANGED <<source, cache, told, owed, since>>

\* The provider stores an answer of its own, and owes its announcement.
Refresh ==
    /\ ~owed /\ owed' = TRUE
    /\ cache' \in 1..source
    /\ UNCHANGED <<source, told, req, since, answer>>

Announce ==
    /\ owed /\ owed' = FALSE
    /\ told' = cache
    /\ UNCHANGED <<source, cache, req, since, answer>>

Next ==
    \/ Change
    \/ \E c \in Loaders : Ask(c) \/ AnswerFresh(c) \/ AnswerCached(c) \/ Fail(c)
    \/ Refresh \/ Announce

Spec == Init /\ [][Next]_vars
=============================================================================
