------------------------- MODULE EmbeddingSpaceProofs -------------------------
(*****************************************************************************)
(* The safety of EmbeddingSpace, for any number of calls at once, any        *)
(* settings and any documents.  What makes it inductive is the lock: whoever *)
(* has found no other row, or its own, is alone until it commits.            *)
(*****************************************************************************)
EXTENDS EmbeddingSpace, TLAPS

\* The advisory lock: one call registers at a time, and one that is past the check
\* finds the row as it was.
LockInv ==
  /\ \A t, u \in Initializing : t = u
  /\ \A t \in Tasks : pc[t] = "creating" => space \in {Nothing, settings[t]}

IInv == TypeOK /\ OneSpace /\ LockInv

LEMMA InitInv == Init => IInv
  BY NothingAssumption
  DEF Init, IInv, TypeOK, OneSpace, LockInv, Initializing

\* A step of a call that leaves the database alone, and neither takes the lock nor
\* passes a check.
LEMMA QuietInv ==
  ASSUME IInv, NEW t \in Tasks, UNCHANGED database,
         pc' = [pc EXCEPT ![t] = pc'[t]],
         settings' = [settings EXCEPT ![t] = settings'[t]],
         key' \in [Tasks -> Keys \union {Nothing}],
         \/ pc'[t] = "idle" /\ settings'[t] = Nothing
         \/ pc'[t] = "locking" /\ settings'[t] \in Settings
         \/ /\ pc'[t] \in {"putting", "searching"}
            /\ settings'[t] \in Settings
            /\ settings'[t] = space
         \/ /\ pc'[t] \in {"registering", "creating"}
            /\ settings'[t] = settings[t] /\ settings[t] \in Settings
            /\ Initializing \subseteq {t}
            /\ pc'[t] = "creating" => space \in {Nothing, settings[t]}
  PROVE  IInv'
<1>1. TypeOK /\ OneSpace /\ LockInv
  BY DEF IInv
<1>2. /\ \A u \in Tasks \ {t} : pc'[u] = pc[u] /\ settings'[u] = settings[u]
      /\ UNCHANGED <<space, column, documents>>
  BY <1>1 DEF TypeOK, database
<1>3. TypeOK'
  BY <1>1, <1>2 DEF TypeOK
<1>4. OneSpace'
  BY <1>1, <1>2 DEF OneSpace
<1>5. LockInv'
  <2>1. \A u, v \in Initializing' : u = v
    BY <1>1, <1>2 DEF LockInv, Initializing
  <2>2. ASSUME NEW u \in Tasks, pc'[u] = "creating"
        PROVE  space' \in {Nothing, settings'[u]}
    BY <1>1, <1>2, <2>2 DEF LockInv
  <2> QED
    BY <2>1, <2>2 DEF LockInv
<1> QED
  BY <1>3, <1>4, <1>5 DEF IInv

\* The commit of an initialisation settles the space or confirms it.
LEMMA CreateInv ==
  ASSUME IInv, NEW t \in Tasks, Create(t)
  PROVE  IInv'
<1>1. TypeOK /\ OneSpace /\ LockInv
  BY DEF IInv
<1>2. /\ pc[t] = "creating" /\ settings[t] \in Settings
      /\ space \in {Nothing, settings[t]}
      /\ settings[t].dimension \in Dimensions
      /\ Nothing \notin Settings /\ Nothing \notin Dimensions
  BY <1>1, NothingAssumption DEF Create, TypeOK, LockInv, Settings
<1>3. /\ \A u \in Tasks \ {t} : pc'[u] = pc[u] /\ settings'[u] = settings[u]
      /\ pc'[t] = "idle" /\ settings'[t] = Nothing
      /\ key' \in [Tasks -> Keys \union {Nothing}]
      /\ space' = settings[t] /\ UNCHANGED documents
      /\ column' = IF column = Nothing THEN settings[t].dimension ELSE column
  BY <1>1 DEF Create, Return, TypeOK
<1>4. column' = space'.dimension
  BY <1>1, <1>2, <1>3 DEF TypeOK, OneSpace
<1>5. TypeOK'
  <2>1. /\ pc' \in [Tasks -> {"idle", "locking", "registering", "creating",
                              "putting", "searching"}]
        /\ settings' \in [Tasks -> Settings \union {Nothing}]
    BY <1>1 DEF Create, Return, TypeOK
  <2> QED
    BY <1>1, <1>2, <1>3, <1>4, <2>1 DEF TypeOK
<1>6. OneSpace'
  <2>1. \A k \in Keys : documents[k] \in {Nothing, settings[t]}
    BY <1>1, <1>2 DEF OneSpace
  <2>2. ASSUME NEW u \in Tasks, pc'[u] \in {"putting", "searching"}
        PROVE  settings'[u] = space'
    <3>1. u # t /\ settings'[u] = settings[u] /\ settings[u] = space
          /\ settings[u] \in Settings
      BY <1>1, <1>3, <2>2 DEF OneSpace, TypeOK
    <3> QED
      BY <1>2, <1>3, <3>1
  <2> QED
    BY <1>3, <1>4, <2>1, <2>2 DEF OneSpace
<1>7. LockInv'
  <2>1. Initializing' = {}
    BY <1>1, <1>2, <1>3 DEF LockInv, Initializing
  <2> QED
    BY <2>1 DEF LockInv, Initializing
<1> QED
  BY <1>5, <1>6, <1>7 DEF IInv

\* The vector that is stored is of the space, which is still the one checked.
LEMMA PutInv ==
  ASSUME IInv, NEW t \in Tasks, Put(t)
  PROVE  IInv'
<1>1. TypeOK /\ OneSpace /\ LockInv
  BY DEF IInv
<1>2. /\ settings[t] \in Settings /\ settings[t] = space
      /\ UNCHANGED <<space, column>>
      /\ documents' \in [Keys -> Settings \union {Nothing}]
      /\ \A k \in Keys : documents'[k] \in {documents[k], settings[t]}
  BY <1>1 DEF Put, TypeOK, OneSpace
<1>3. /\ \A u \in Tasks \ {t} : pc'[u] = pc[u] /\ settings'[u] = settings[u]
      /\ pc'[t] = "idle" /\ settings'[t] = Nothing
      /\ pc' \in [Tasks -> {"idle", "locking", "registering", "creating",
                            "putting", "searching"}]
      /\ settings' \in [Tasks -> Settings \union {Nothing}]
      /\ key' \in [Tasks -> Keys \union {Nothing}]
  BY <1>1 DEF Put, Return, TypeOK
<1>4. TypeOK'
  BY <1>1, <1>2, <1>3 DEF TypeOK
<1>5. OneSpace'
  BY <1>1, <1>2, <1>3 DEF OneSpace
<1>6. LockInv'
  BY <1>1, <1>2, <1>3 DEF LockInv, Initializing
<1> QED
  BY <1>4, <1>5, <1>6 DEF IInv

LEMMA StepInv ==
  ASSUME IInv, NEW t \in Tasks, Step(t)
  PROVE  IInv'
<1>1. TypeOK /\ OneSpace /\ LockInv
  BY DEF IInv
<1>2. ASSUME Rollback(t)
      PROVE  IInv'
  <2>1. /\ UNCHANGED database
        /\ pc' = [pc EXCEPT ![t] = pc'[t]]
        /\ settings' = [settings EXCEPT ![t] = settings'[t]]
        /\ key' \in [Tasks -> Keys \union {Nothing}]
        /\ pc'[t] = "idle" /\ settings'[t] = Nothing
    BY <1>1, <1>2 DEF Rollback, Return, TypeOK
  <2> QED
    BY <2>1, QuietInv
<1>3. ASSUME NEW s \in Settings, Initialize(t, s)
      PROVE  IInv'
  <2>1. /\ UNCHANGED database
        /\ pc' = [pc EXCEPT ![t] = pc'[t]]
        /\ settings' = [settings EXCEPT ![t] = settings'[t]]
        /\ key' \in [Tasks -> Keys \union {Nothing}]
        /\ pc'[t] = "locking" /\ settings'[t] \in Settings
    BY <1>1, <1>3 DEF Initialize, Call, TypeOK
  <2> QED
    BY <2>1, QuietInv
<1>4. ASSUME NEW s \in Settings,
             CheckToSearch(t, s) \/ \E k \in Keys : CheckToPut(t, s, k)
      PROVE  IInv'
  <2>1. /\ UNCHANGED database
        /\ pc' = [pc EXCEPT ![t] = pc'[t]]
        /\ settings' = [settings EXCEPT ![t] = settings'[t]]
        /\ key' \in [Tasks -> Keys \union {Nothing}]
        /\ pc'[t] \in {"putting", "searching"}
        /\ settings'[t] \in Settings /\ settings'[t] = space
    BY <1>1, <1>4 DEF CheckToSearch, CheckToPut, SameSpace, Call, TypeOK
  <2> QED
    BY <2>1, QuietInv
<1>5. CASE Lock(t) \/ Register(t)
  <2>1. /\ UNCHANGED database
        /\ pc' = [pc EXCEPT ![t] = pc'[t]]
        /\ settings' = [settings EXCEPT ![t] = settings'[t]]
        /\ key' \in [Tasks -> Keys \union {Nothing}]
        /\ pc'[t] \in {"registering", "creating"}
        /\ settings'[t] = settings[t] /\ settings[t] \in Settings
    BY <1>1, <1>5 DEF Lock, Register, Continue, TypeOK
  <2>2. /\ Initializing \subseteq {t}
        /\ pc'[t] = "creating" => space \in {Nothing, settings[t]}
    BY <1>1, <1>5 DEF Lock, Register, Continue, Initializing, LockInv, TypeOK
  <2> QED
    BY <2>1, <2>2, QuietInv
<1> QED
  BY <1>2, <1>3, <1>4, <1>5, CreateInv, PutInv
  DEF Step, LockTimesOut, RefuseToRegister, Search, Fail

LEMMA NextInv == IInv /\ [Next]_vars => IInv'
<1>1. ASSUME IInv, UNCHANGED vars
      PROVE  IInv'
  BY <1>1 DEF IInv, vars, database, TypeOK, OneSpace, LockInv, Initializing
<1> QED
  BY <1>1, StepInv DEF Next

LEMMA Invariance == Spec => []IInv
  BY InitInv, NextInv, PTL DEF Spec

\* The transaction of PgVectorStore.initialize is never seen half done.
THEOREM TypeCorrect == Spec => []TypeOK
<1>1. IInv => TypeOK
  BY DEF IInv
<1> QED
  BY <1>1, Invariance, PTL

\* However many differently configured services initialise, put and search at once
\* (PgVectorStore), vectors of two models are never stored or compared together.
THEOREM SpaceIsOne == Spec => []OneSpace
<1>1. IInv => OneSpace
  BY DEF IInv
<1> QED
  BY <1>1, Invariance, PTL

\* No call of PgVectorStore changes the space that another one has settled, or
\* loses a document.
THEOREM SpaceIsSettled == Spec => SettledOnce
<1> DEFINE Settled ==
      /\ space # Nothing => space' = space /\ column' = column
      /\ \A k \in Keys : documents[k] # Nothing => documents'[k] # Nothing
<1>1. ASSUME IInv, [Next]_vars
      PROVE  [Settled]_vars
  <2>1. CASE UNCHANGED vars
    BY <2>1
  <2>2. ASSUME NEW t \in Tasks, Step(t)
        PROVE  Settled
    <3>1. CASE Create(t)
      BY <1>1, <3>1 DEF Create, IInv, TypeOK, LockInv
    <3>2. CASE Put(t)
      BY <1>1, <3>2, NothingAssumption DEF Put, IInv, TypeOK
    <3>3. CASE UNCHANGED database
      BY <3>3 DEF database
    <3> QED
      BY <2>2, <3>1, <3>2, <3>3
      DEF Step, Initialize, CheckToSearch, CheckToPut, Lock, LockTimesOut, Register,
          RefuseToRegister, Search, Fail, Rollback
  <2> QED
    BY <1>1, <2>1, <2>2 DEF Next
<1> QED
  BY <1>1, Invariance, PTL DEF Spec, SettledOnce
===============================================================================
