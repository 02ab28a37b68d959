------------------------ MODULE VaultProviderProofs ------------------------
(***************************************************************************)
(* Proofs about VaultProvider, for any number of concurrent Loads, any     *)
(* number of versions and any way they print.                              *)
(***************************************************************************)
EXTENDS VaultProvider, TLAPS

USE MaxVersionAssumption
USE DEF AfterFailedRead, ReadData, CacheAfterError, AfterPollStore

LEMMA TypeInit == VaultInit => TypeOK
<1> SUFFICES ASSUME VaultInit PROVE TypeOK
  OBVIOUS
<1>1. 0 \in Versions /\ 1 \in Versions
  BY DEF Versions
<1>2. answer \in [Loaders -> [from : Origins, ver : Versions]]
  BY <1>1 DEF VaultInit, Origins
<1> QED
  BY <1>1, <1>2 DEF VaultInit, TypeOK

LEMMA TypeStep ==
    ASSUME TypeOK, [VaultNext]_vaultVars
    PROVE  TypeOK'
<1> USE DEF TypeOK, Versions, Origins
<1>1. CASE UNCHANGED vaultVars
  BY <1>1 DEF vaultVars, loadVars, pollVars
<1>2. CASE WriteSecret
  BY <1>2 DEF WriteSecret, loadVars, pollVars
<1>3. CASE ToggleVault
  BY <1>3 DEF ToggleVault, loadVars, pollVars
<1>4. ASSUME NEW c \in Loaders, LoadCall(c) PROVE TypeOK'
  BY <1>4 DEF LoadCall, loadVars, pollVars
<1>5. ASSUME NEW c \in Loaders, LoadRead(c) PROVE TypeOK'
  BY <1>5 DEF LoadRead, loadVars, pollVars
<1>6. ASSUME NEW c \in Loaders, LoadReadFails(c) PROVE TypeOK'
  BY <1>6 DEF LoadReadFails, loadVars, pollVars
<1>7. ASSUME NEW c \in Loaders, LoadStore(c) PROVE TypeOK'
  BY <1>7 DEF LoadStore, loadVars, pollVars
<1>8. ASSUME NEW c \in Loaders, LoadFallback(c) PROVE TypeOK'
  BY <1>8 DEF LoadFallback, loadVars, pollVars
<1>9. CASE PollTick
  BY <1>9 DEF PollTick, loadVars, pollVars
<1>10. CASE PollRead
  BY <1>10 DEF PollRead, loadVars, pollVars
<1>11. CASE PollReadFails
  BY <1>11 DEF PollReadFails, loadVars, pollVars
<1>12. CASE PollCompare
  BY <1>12 DEF PollCompare, loadVars, pollVars
<1>13. CASE PollStore
  BY <1>13 DEF PollStore, loadVars, pollVars
<1>14. CASE PollEmit
  BY <1>14 DEF PollEmit, loadVars, pollVars
<1>15. CASE PollEmitError
  BY <1>15 DEF PollEmitError, loadVars, pollVars
<1>16. CASE PollExit
  BY <1>16 DEF PollExit, loadVars, pollVars
<1>17. CASE Stop
  BY <1>17 DEF Stop, loadVars, pollVars
<1> QED
  BY <1>1, <1>2, <1>3, <1>4, <1>5, <1>6, <1>7, <1>8, <1>9,
     <1>10, <1>11, <1>12, <1>13, <1>14, <1>15, <1>16, <1>17
  DEF VaultNext

\* Every variable of the provider keeps its type.
THEOREM VaultTypeCorrect == VaultSpec => []TypeOK
BY TypeInit, TypeStep, PTL DEF VaultSpec

-----------------------------------------------------------------------------
(* Answers in flight.                                                      *)

LEMMA InFlightStep ==
    ASSUME TypeOK, AnswersInFlight, [VaultNext]_vaultVars
    PROVE  AnswersInFlight'
<1> USE DEF TypeOK, AnswersInFlight, Versions
<1>1. CASE UNCHANGED vaultVars
  BY <1>1 DEF vaultVars, loadVars, pollVars
<1>2. CASE WriteSecret
  BY <1>2 DEF WriteSecret, loadVars, pollVars
<1>3. CASE ToggleVault
  BY <1>3 DEF ToggleVault, loadVars, pollVars
<1>4. ASSUME NEW c \in Loaders, LoadCall(c) PROVE AnswersInFlight'
  BY <1>4 DEF LoadCall, loadVars, pollVars
<1>5. ASSUME NEW c \in Loaders, LoadRead(c) PROVE AnswersInFlight'
  BY <1>5 DEF LoadRead, loadVars, pollVars
<1>6. ASSUME NEW c \in Loaders, LoadReadFails(c) PROVE AnswersInFlight'
  BY <1>6 DEF LoadReadFails, loadVars, pollVars
<1>7. ASSUME NEW c \in Loaders, LoadStore(c) PROVE AnswersInFlight'
  BY <1>7 DEF LoadStore, loadVars, pollVars
<1>8. ASSUME NEW c \in Loaders, LoadFallback(c) PROVE AnswersInFlight'
  BY <1>8 DEF LoadFallback, loadVars, pollVars
<1>9. CASE PollTick
  BY <1>9 DEF PollTick, loadVars, pollVars
<1>10. CASE PollRead
  BY <1>10 DEF PollRead, loadVars, pollVars
<1>11. CASE PollReadFails
  BY <1>11 DEF PollReadFails, loadVars, pollVars
<1>12. CASE PollCompare
  BY <1>12 DEF PollCompare, loadVars, pollVars
<1>13. CASE PollStore
  BY <1>13 DEF PollStore, loadVars, pollVars
<1>14. CASE PollEmit
  BY <1>14 DEF PollEmit, loadVars, pollVars
<1>15. CASE PollEmitError
  BY <1>15 DEF PollEmitError, loadVars, pollVars
<1>16. CASE PollExit
  BY <1>16 DEF PollExit, loadVars, pollVars
<1>17. CASE Stop
  BY <1>17 DEF Stop, loadVars, pollVars
<1> QED
  BY <1>1, <1>2, <1>3, <1>4, <1>5, <1>6, <1>7, <1>8, <1>9,
     <1>10, <1>11, <1>12, <1>13, <1>14, <1>15, <1>16, <1>17
  DEF VaultNext

LEMMA FreshStep ==
    ASSUME TypeOK, AnswersInFlight, FreshAnswers, [VaultNext]_vaultVars
    PROVE  FreshAnswers'
<1> USE DEF TypeOK, AnswersInFlight, FreshAnswers, Versions, Origins
<1>1. CASE UNCHANGED vaultVars
  BY <1>1 DEF vaultVars, loadVars, pollVars
<1>2. CASE WriteSecret
  BY <1>2 DEF WriteSecret, loadVars, pollVars
<1>3. CASE ToggleVault
  BY <1>3 DEF ToggleVault, loadVars, pollVars
<1>4. ASSUME NEW c \in Loaders, LoadCall(c) PROVE FreshAnswers'
  BY <1>4 DEF LoadCall, loadVars, pollVars
<1>5. ASSUME NEW c \in Loaders, LoadRead(c) PROVE FreshAnswers'
  BY <1>5 DEF LoadRead, loadVars, pollVars
<1>6. ASSUME NEW c \in Loaders, LoadReadFails(c) PROVE FreshAnswers'
  BY <1>6 DEF LoadReadFails, loadVars, pollVars
<1>7. ASSUME NEW c \in Loaders, LoadStore(c) PROVE FreshAnswers'
  BY <1>7 DEF LoadStore, loadVars, pollVars
<1>8. ASSUME NEW c \in Loaders, LoadFallback(c) PROVE FreshAnswers'
  BY <1>8 DEF LoadFallback, loadVars, pollVars
<1>9. CASE PollTick
  BY <1>9 DEF PollTick, loadVars, pollVars
<1>10. CASE PollRead
  BY <1>10 DEF PollRead, loadVars, pollVars
<1>11. CASE PollReadFails
  BY <1>11 DEF PollReadFails, loadVars, pollVars
<1>12. CASE PollCompare
  BY <1>12 DEF PollCompare, loadVars, pollVars
<1>13. CASE PollStore
  BY <1>13 DEF PollStore, loadVars, pollVars
<1>14. CASE PollEmit
  BY <1>14 DEF PollEmit, loadVars, pollVars
<1>15. CASE PollEmitError
  BY <1>15 DEF PollEmitError, loadVars, pollVars
<1>16. CASE PollExit
  BY <1>16 DEF PollExit, loadVars, pollVars
<1>17. CASE Stop
  BY <1>17 DEF Stop, loadVars, pollVars
<1> QED
  BY <1>1, <1>2, <1>3, <1>4, <1>5, <1>6, <1>7, <1>8, <1>9,
     <1>10, <1>11, <1>12, <1>13, <1>14, <1>15, <1>16, <1>17
  DEF VaultNext

LEMMA SilentStep ==
    ASSUME TypeOK, NothingStoredSilently, [VaultNext]_vaultVars
    PROVE  NothingStoredSilently'
<1> USE DEF NothingStoredSilently, SameData
<1>1. CASE UNCHANGED vaultVars
  BY <1>1 DEF vaultVars, loadVars, pollVars
<1>2. CASE WriteSecret
  BY <1>2 DEF WriteSecret, loadVars, pollVars
<1>3. CASE ToggleVault
  BY <1>3 DEF ToggleVault, loadVars, pollVars
<1>4. ASSUME NEW c \in Loaders, LoadCall(c) PROVE NothingStoredSilently'
  BY <1>4 DEF LoadCall, loadVars, pollVars
<1>5. ASSUME NEW c \in Loaders, LoadRead(c) PROVE NothingStoredSilently'
  BY <1>5 DEF LoadRead, loadVars, pollVars
<1>6. ASSUME NEW c \in Loaders, LoadReadFails(c) PROVE NothingStoredSilently'
  BY <1>6 DEF LoadReadFails, loadVars, pollVars
<1>7. ASSUME NEW c \in Loaders, LoadStore(c) PROVE NothingStoredSilently'
  BY <1>7 DEF LoadStore, loadVars, pollVars
<1>8. ASSUME NEW c \in Loaders, LoadFallback(c) PROVE NothingStoredSilently'
  BY <1>8 DEF LoadFallback, loadVars, pollVars
<1>9. CASE PollTick
  BY <1>9 DEF PollTick, loadVars, pollVars
<1>10. CASE PollRead
  BY <1>10 DEF PollRead, loadVars, pollVars
<1>11. CASE PollReadFails
  BY <1>11 DEF PollReadFails, loadVars, pollVars
<1>12. CASE PollCompare
  BY <1>12 DEF PollCompare, loadVars, pollVars
<1>13. CASE PollStore
  BY <1>13 DEF PollStore, loadVars, pollVars
<1>14. CASE PollEmit
  BY <1>14 DEF PollEmit, loadVars, pollVars
<1>15. CASE PollEmitError
  BY <1>15 DEF PollEmitError, loadVars, pollVars
<1>16. CASE PollExit
  BY <1>16 DEF PollExit, loadVars, pollVars
<1>17. CASE Stop
  BY <1>17 DEF Stop, loadVars, pollVars
<1> QED
  BY <1>1, <1>2, <1>3, <1>4, <1>5, <1>6, <1>7, <1>8, <1>9,
     <1>10, <1>11, <1>12, <1>13, <1>14, <1>15, <1>16, <1>17
  DEF VaultNext

-----------------------------------------------------------------------------
(* The inductive invariant and what follows from it.                       *)

LEMMA VaultInvInit == VaultInit => VaultInv
<1> SUFFICES ASSUME VaultInit PROVE VaultInv
  OBVIOUS
<1>1. TypeOK
  BY TypeInit
<1> QED
  BY <1>1 DEF VaultInit, VaultInv, AnswersInFlight, FreshAnswers,
              NothingStoredSilently, SameData

\* VaultInv holds in every state.
THEOREM VaultInvariant == VaultSpec => []VaultInv
<1>1. VaultInv /\ [VaultNext]_vaultVars => VaultInv'
  BY TypeStep, InFlightStep, FreshStep, SilentStep DEF VaultInv
<1> QED
  BY <1>1, VaultInvInit, PTL DEF VaultSpec

\* A Load that reached Vault returns a version no older than its call.
THEOREM AnswersAreFresh == VaultSpec => []FreshAnswers
<1>1. VaultInv => FreshAnswers
  BY DEF VaultInv
<1> QED
  BY <1>1, VaultInvariant, PTL

\* No change is stored in the cache without an answer or an event.
THEOREM NoSilentStore == VaultSpec => []NothingStoredSilently
<1>1. VaultInv => NothingStoredSilently
  BY DEF VaultInv
<1> QED
  BY <1>1, VaultInvariant, PTL

\* After one answer or event no Load fails.
THEOREM OutagesAreAnswered == VaultSpec => OutageIsAnswered
<1>1. ASSUME VaultInv, [VaultNext]_vaultVars, NEW c \in Loaders,
             told # 0, answer'[c] # answer[c]
      PROVE  answer'[c].from # "error"
  <2>1. cached # 0 /\ TypeOK
    BY <1>1 DEF VaultInv, AnswersInFlight
  <2>2. PICK d \in Loaders : LoadStore(d) \/ LoadFallback(d)
    BY <1>1 DEF VaultNext, vaultVars, loadVars, pollVars, WriteSecret,
         ToggleVault, LoadCall, LoadRead, LoadReadFails, PollTick, PollRead,
         PollReadFails, PollCompare, PollStore, PollEmit, PollEmitError,
         PollExit, Stop
  <2>3. c = d
    BY <1>1, <2>1, <2>2 DEF LoadStore, LoadFallback, TypeOK
  <2> QED
    BY <2>1, <2>2, <2>3 DEF LoadStore, LoadFallback, TypeOK
<1>2. VaultInv /\ [VaultNext]_vaultVars =>
        [\A c \in Loaders : told # 0 /\ answer'[c] # answer[c] =>
            answer'[c].from # "error"]_vaultVars
  BY <1>1
<1> QED
  BY <1>2, VaultInvariant, PTL DEF VaultSpec, OutageIsAnswered

-----------------------------------------------------------------------------
(* The refinement of CachedSource.                                         *)

LEMMA PromiseInit == VaultInit => Promise!Init
BY DEF VaultInit, Promise!Init, Request

\* What a step of a Load does to the requests.
LEMMA RequestStep ==
    ASSUME TypeOK, NEW c \in Loaders, NEW phase, pc' = [pc EXCEPT ![c] = phase]
    PROVE  [d \in Loaders |-> Request(d)]' =
              [[d \in Loaders |-> Request(d)] EXCEPT
                  ![c] = IF phase = "idle" THEN "idle" ELSE "asked"]
<1>1. pc \in [Loaders -> {"idle", "read", "store", "fallback"}]
  BY DEF TypeOK
<1>2. \A d \in Loaders : pc'[d] = IF d = c THEN phase ELSE pc[d]
  BY <1>1
<1> QED
  BY <1>2 DEF Request

\* The steps between a call and its return, and those of the poll between a read
\* and a store, are stutters of CachedSource.
LEMMA PromiseUnseen ==
    ASSUME UNCHANGED <<vault, cached, told, since, answer>>, (poll = "emit") = (poll' = "emit"),
           \A c \in Loaders : Request(c)' = Request(c)
    PROVE  UNCHANGED Promise!vars
BY DEF Promise!vars

LEMMA PromiseStep ==
    ASSUME VaultInv, [VaultNext]_vaultVars
    PROVE  Promise!Next \/ UNCHANGED Promise!vars
<1> USE DEF loadVars, pollVars
<1>0. TypeOK /\ AnswersInFlight
  BY DEF VaultInv
<1>1. CASE UNCHANGED vaultVars
  BY <1>1, PromiseUnseen DEF vaultVars, Request
<1>2. CASE WriteSecret
  <2>1. Promise!Change
    BY <1>2 DEF WriteSecret, Promise!Change, Request
  <2> QED
    BY <2>1 DEF Promise!Next
<1>3. CASE ToggleVault \/ Stop
  BY <1>3, PromiseUnseen DEF ToggleVault, Stop, Request
<1>4. ASSUME NEW c \in Loaders, LoadCall(c) PROVE Promise!Ask(c)
  <2>1. [d \in Loaders |-> Request(d)]' =
           [[d \in Loaders |-> Request(d)] EXCEPT ![c] = "asked"]
    <3>1. pc' = [pc EXCEPT ![c] = "read"]
      BY <1>4 DEF LoadCall
    <3>2. [d \in Loaders |-> Request(d)]' =
             [[d \in Loaders |-> Request(d)] EXCEPT
                 ![c] = IF "read" = "idle" THEN "idle" ELSE "asked"]
      BY <1>0, <3>1, RequestStep
    <3> QED
      BY <3>2
  <2>2. [d \in Loaders |-> Request(d)][c] = "idle"
    BY <1>4 DEF LoadCall, Request
  <2> QED
    BY <1>4, <2>1, <2>2 DEF LoadCall, Promise!Ask
<1>5. ASSUME NEW c \in Loaders, LoadRead(c) \/ LoadReadFails(c) PROVE UNCHANGED Promise!vars
  <2>1. \A d \in Loaders : Request(d)' = Request(d)
    BY <1>0, <1>5 DEF LoadRead, LoadReadFails, Request, TypeOK
  <2> QED
    BY <1>5, <2>1, PromiseUnseen DEF LoadRead, LoadReadFails
<1>6. ASSUME NEW c \in Loaders, LoadStore(c) PROVE Promise!AnswerFresh(c)
  <2>1. resp[c] \in since[c]..vault
    BY <1>0, <1>6 DEF LoadStore, AnswersInFlight, TypeOK, Versions
  <2>2. Promise!Return(c, "vault", resp[c])
    BY <1>0, <1>6, RequestStep DEF LoadStore, Promise!Return, Request
  <2> QED
    BY <1>6, <2>1, <2>2 DEF LoadStore, Promise!AnswerFresh
<1>7. ASSUME NEW c \in Loaders, LoadFallback(c)
      PROVE  Promise!AnswerCached(c) \/ Promise!Fail(c)
  <2>1. CASE cached # 0
    <3>1. Promise!Return(c, "cache", cached)
      BY <1>0, <1>7, <2>1, RequestStep DEF LoadFallback, Promise!Return, Request
    <3> QED
      BY <1>7, <2>1, <3>1 DEF LoadFallback, Promise!AnswerCached
  <2>2. CASE cached = 0
    <3>1. Promise!Return(c, "error", 0)
      BY <1>0, <1>7, <2>2, RequestStep DEF LoadFallback, Promise!Return, Request
    <3> QED
      BY <1>7, <2>2, <3>1 DEF LoadFallback, Promise!Fail
  <2> QED
    BY <2>1, <2>2
<1>8. CASE PollTick \/ PollRead \/ PollReadFails \/ PollCompare \/ PollEmitError \/ PollExit
  <2>1. UNCHANGED <<vault, cached, told, since, answer, pc>> /\ poll # "emit" /\ poll' # "emit"
    BY <1>8 DEF PollTick, PollRead, PollReadFails, PollCompare, PollEmitError, PollExit
  <2> QED
    BY <2>1, PromiseUnseen DEF Request
<1>9. CASE PollStore
  <2>1. pollResp \in 1..vault
    BY <1>0, <1>9 DEF PollStore, AnswersInFlight, TypeOK, Versions
  <2>2. Promise!Refresh
    BY <1>9, <2>1 DEF PollStore, Promise!Refresh, Request
  <2> QED
    BY <2>2 DEF Promise!Next
<1>10. CASE PollEmit
  <2>1. Promise!Announce
    BY <1>10 DEF PollEmit, Promise!Announce, Request
  <2> QED
    BY <2>1 DEF Promise!Next
<1> QED
  BY <1>1, <1>2, <1>3, <1>4, <1>5, <1>6, <1>7, <1>8, <1>9, <1>10 DEF VaultNext, Promise!Next

\* VaultProvider implements what CachedSource promises.
THEOREM KeepsItsPromise == VaultSpec => ImplementsCachedSource
<1>1. VaultInv /\ [VaultNext]_vaultVars => [Promise!Next]_(Promise!vars)
  BY PromiseStep
<1> QED
  BY <1>1, PromiseInit, VaultInvariant, PTL DEF VaultSpec, ImplementsCachedSource, Promise!Spec
=============================================================================
