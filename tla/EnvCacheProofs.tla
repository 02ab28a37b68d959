--------------------------- MODULE EnvCacheProofs ---------------------------
(***************************************************************************)
(* Proofs about EnvCache, for every environment os.Environ may return: the *)
(* cache between two Loads is what the last one read, and only a Stop      *)
(* within a Load leads to the write to a nil map.                          *)
(***************************************************************************)
EXTENDS EnvCache, TLAPS

\* What has been read once the variable at pos is passed.
LEMMA ReadOneMore ==
    ASSUME TypeOK, pos <= Len(environ), pos' = pos + 1, UNCHANGED environ
    PROVE  Read' = IF environ[pos].key # <<>> THEN Read \union {pos} ELSE Read
<1>1. Len(environ) \in Nat
  BY EnvironmentsAssumption DEF TypeOK
<1> QED
  BY <1>1 DEF Read, TypeOK

LEMMA NothingReadAtFirst ==
    ASSUME pos = 1
    PROVE  Read = {}
BY DEF Read

LEMMA EnvInit == Init => EnvInv
<1> SUFFICES ASSUME Init PROVE EnvInv
  OBVIOUS
<1>1. environ \in Environments \union {<<>>}
  BY Zenon DEF Init
<1>2. pos \in Nat \ {0}
  BY DEF Init
<1>3. made \in BOOLEAN /\ panicked \in BOOLEAN
  BY DEF Init
<1>4. pc \in {"idle", "environ", "read"} /\ stopAt \in {"never", "idle", "environ", "read"}
  BY DEF Init
<1>5. TypeOK
  BY <1>1, <1>2, <1>3, <1>4 DEF TypeOK
<1> QED
  BY <1>5 DEF Init, EnvInv

LEMMA EnvTypeStep == TypeOK /\ [Next]_vars => TypeOK'
<1> SUFFICES ASSUME TypeOK, [Next]_vars PROVE TypeOK'
  OBVIOUS
<1> USE DEF TypeOK
<1>1. CASE WriteToNil \/ LoadReturn \/ Stop \/ UNCHANGED vars
  BY <1>1 DEF WriteToNil, LoadReturn, Stop, vars
<1>4. CASE LoadCall
  <2>1. environ' \in Environments \union {<<>>}
    BY <1>4, Zenon DEF LoadCall
  <2> QED
    BY <1>4, <2>1 DEF LoadCall, MadeAtLoad
<1>2. CASE Environ
  BY <1>2 DEF Environ
<1>3. CASE SkipVariable \/ ReadVariable
  BY <1>3 DEF SkipVariable, ReadVariable
<1> QED
  BY <1>1, <1>2, <1>3, <1>4 DEF Next

LEMMA EnvStep == EnvInv /\ [Next]_vars => EnvInv'
<1> SUFFICES ASSUME EnvInv, [Next]_vars PROVE EnvInv'
  OBVIOUS
<1>1. TypeOK /\ TypeOK'
  BY EnvTypeStep DEF EnvInv
<1>2. CASE LoadCall
  <2>1. Read' = {}
    BY <1>2 DEF LoadCall, Read
  <2> QED
    BY <1>1, <1>2, <2>1 DEF LoadCall, EnvInv, MadeAtLoad, CacheAtLoad
<1>3. CASE Environ
  <2>1. Read = {} /\ Read' = {}
    BY <1>3 DEF Environ, EnvInv, Read
  <2> QED
    BY <1>1, <1>3, <2>1 DEF Environ, EnvInv
<1>4. CASE SkipVariable
  <2>1. Read' = Read
    BY <1>1, <1>4, ReadOneMore DEF SkipVariable, Here
  <2> QED
    BY <1>1, <1>4, <2>1 DEF SkipVariable, Here, EnvInv
<1>5. CASE ReadVariable
  <2>1. Read' = Read \union {pos}
    BY <1>1, <1>5, ReadOneMore DEF ReadVariable, Here
  <2>2. envCache' = {environ[i] : i \in Read} \union {environ[pos]}
    BY <1>5 DEF ReadVariable, Here, EnvInv
  <2>3. envCache' = {environ'[i] : i \in Read'}
    BY <1>5, <2>1, <2>2 DEF ReadVariable
  <2> QED
    BY <1>1, <1>5, <2>3 DEF ReadVariable, Here, EnvInv
<1>6. CASE WriteToNil \/ LoadReturn \/ Stop \/ UNCHANGED vars
  <2>1. UNCHANGED <<environ, pos>>
    BY <1>6 DEF WriteToNil, LoadReturn, Stop, vars
  <2>2. Read' = Read
    BY <2>1 DEF Read
  <2>3. CASE WriteToNil \/ LoadReturn \/ UNCHANGED vars
    BY <1>1, <2>1, <2>2, <2>3 DEF WriteToNil, LoadReturn, Here, EnvInv, stopped, vars
  <2>4. CASE Stop
    BY <1>1, <2>1, <2>2, <2>4 DEF Stop, EnvInv, stopped, TypeOK
  <2> QED
    BY <1>6, <2>3, <2>4
<1> QED
  BY <1>2, <1>3, <1>4, <1>5, <1>6 DEF Next

\* EnvInv holds in every state.
THEOREM EnvInvariant == Spec => []EnvInv
BY EnvInit, EnvStep, PTL DEF Spec

\* Between two Loads Getenv answers what the last Load read, until Stop.
THEOREM CacheIsOfTheLastLoad == Spec => []CacheIsTheLastLoad
<1>1. EnvInv => CacheIsTheLastLoad
  <2> SUFFICES ASSUME EnvInv, pc = "idle", ~stopped
               PROVE  envCache = {environ[i] : i \in Read}
    BY DEF CacheIsTheLastLoad
  <2>1. CASE made
    BY <2>1 DEF EnvInv
  <2>2. CASE ~made
    <3>1. environ = <<>> /\ envCache = {}
      BY <2>2 DEF EnvInv
    <3>2. Read = {}
      BY <3>1 DEF Read
    <3> QED
      BY <3>1, <3>2
  <2> QED
    BY <2>1, <2>2
<1> QED
  BY <1>1, EnvInvariant, PTL

\* The write to the nil map needs a Stop that came while a Load was reading.
THEOREM PanicNeedsAStopWithinLoad == Spec => []OnlyAStopWithinLoadPanics
<1>1. EnvInv => OnlyAStopWithinLoadPanics
  BY DEF EnvInv, OnlyAStopWithinLoadPanics
<1> QED
  BY <1>1, EnvInvariant, PTL
=============================================================================
