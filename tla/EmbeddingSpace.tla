---------------------------- MODULE EmbeddingSpace ----------------------------
(*****************************************************************************)
(* serving_lab/retrieval.py, class PgVectorStore: calls of initialize, put,  *)
(* search and ready by services that may be configured differently, on one   *)
(* database.  Each call is one transaction at PostgreSQL's default isolation *)
(* (READ COMMITTED): what others have committed between two statements is    *)
(* seen by the second one, and a call that fails leaves nothing behind.      *)
(*                                                                           *)
(* External: PostgreSQL, psycopg's `with connection` (commit at the end,     *)
(* rollback on an exception or when the connection is lost), and the clients *)
(* that supply vectors, which the service cannot tell from those of another  *)
(* model and which are taken to come from the configured one.                *)
(*****************************************************************************)
EXTENDS Naturals

CONSTANTS Tasks,       \* threads of services that may call the store
          Models,      \* values of RetrievalSettings.embedding_model
          Dimensions,  \* values of RetrievalSettings.dimension
          Keys,        \* (namespace, id) of documents
          Nothing      \* no row

Settings == [dimension : Dimensions, model : Models]

ASSUME DimensionsAssumption == Dimensions \subseteq 1..2000
ASSUME NothingAssumption == Nothing \notin Settings \union Dimensions

VARIABLES
  space,      \* the row of embedding_space, or Nothing
  column,     \* dimension of documents.embedding, Nothing without the table
  documents,  \* for each key, the settings its vector was made under
  pc,         \* the statement before which a call stands
  settings,   \* settings of the store that is called, Nothing between calls
  key         \* the document that is put, Nothing but in put

database == <<space, column, documents>>
vars == <<database, pc, settings, key>>

Init ==
  /\ space = Nothing
  /\ column = Nothing
  /\ documents = [k \in Keys |-> Nothing]
  /\ pc = [t \in Tasks |-> "idle"]
  /\ settings = [t \in Tasks |-> Nothing]
  /\ key = [t \in Tasks |-> Nothing]

Call(t, l, s) ==
  /\ pc[t] = "idle"
  /\ pc' = [pc EXCEPT ![t] = l]
  /\ settings' = [settings EXCEPT ![t] = s]

Continue(t, l) ==
  /\ pc' = [pc EXCEPT ![t] = l]
  /\ UNCHANGED <<settings, key>>

Return(t) ==
  /\ pc' = [pc EXCEPT ![t] = "idle"]
  /\ settings' = [settings EXCEPT ![t] = Nothing]
  /\ key' = [key EXCEPT ![t] = Nothing]

\* Leaves the transaction, which has changed nothing.
Rollback(t) == Return(t) /\ UNCHANGED database
-------------------------------------------------------------------------------
\* initialize.

Initialize(t, s) == Call(t, "locking", s) /\ UNCHANGED <<database, key>>

\* Calls whose transaction holds the advisory lock.
Initializing == {t \in Tasks : pc[t] \in {"registering", "creating"}}

\* pg_advisory_xact_lock returns.
Lock(t) ==
  /\ pc[t] = "locking"
  /\ Initializing = {}
  /\ Continue(t, "registering")
  /\ UNCHANGED database

\* lock_timeout.
LockTimesOut(t) == pc[t] = "locking" /\ Rollback(t)

\* Mutant: ON CONFLICT DO UPDATE.
RegisterAnyway(t) ==
  /\ pc[t] = "registering"
  /\ Continue(t, "creating")
  /\ UNCHANGED database

\* Mutant: the connection is in autocommit mode.
RegisterAtOnce(t) ==
  /\ pc[t] = "registering"
  /\ space \in {Nothing, settings[t]}
  /\ space' = settings[t]
  /\ Continue(t, "creating")
  /\ UNCHANGED <<column, documents>>

\* INSERT ... ON CONFLICT DO NOTHING, and the check of the row that is there
\* now, which is the transaction's own if there was none.  Under the lock
\* nobody else can have inserted one meanwhile.
Register(t) ==
  /\ pc[t] = "registering"
  /\ space \in {Nothing, settings[t]}
  /\ Continue(t, "creating")
  /\ UNCHANGED database

\* _check_space raises ValueError.
RefuseToRegister(t) ==
  /\ pc[t] = "registering"
  /\ space \notin {Nothing, settings[t]}
  /\ Rollback(t)

\* CREATE TABLE IF NOT EXISTS, and the commit of everything.  The caller may
\* not hear of it.
Create(t) ==
  /\ pc[t] = "creating"
  /\ space' = settings[t]
  /\ column' = IF column = Nothing THEN settings[t].dimension ELSE column
  /\ Return(t)
  /\ UNCHANGED documents
-------------------------------------------------------------------------------
\* put and search.  A call that finds another space, or none, and ready, have no
\* effect.

\* Mutant: only the dimensions are compared.
SameDimension(s) == space # Nothing /\ space.dimension = s.dimension

\* _check_space; without the table the statement fails, with the same effect.
SameSpace(s) == space = s

CheckToPut(t, s, k) ==
  /\ SameSpace(s)
  /\ Call(t, "putting", s)
  /\ key' = [key EXCEPT ![t] = k]
  /\ UNCHANGED database

\* The upsert: PostgreSQL refuses a vector of another dimension.
Put(t) ==
  /\ pc[t] = "putting"
  /\ column = settings[t].dimension
  /\ documents' = [documents EXCEPT ![key[t]] = settings[t]]
  /\ Return(t)
  /\ UNCHANGED <<space, column>>

CheckToSearch(t, s) ==
  /\ SameSpace(s)
  /\ Call(t, "searching", s)
  /\ UNCHANGED <<database, key>>

\* The vectors of all documents there are now are compared with the query's.
Search(t) == pc[t] = "searching" /\ Rollback(t)

\* A statement fails or times out, the connection is lost, the service dies.
Fail(t) == pc[t] # "idle" /\ Rollback(t)

Step(t) ==
  \/ \E s \in Settings :
       \/ Initialize(t, s) \/ CheckToSearch(t, s)
       \/ \E k \in Keys : CheckToPut(t, s, k)
  \/ Lock(t) \/ LockTimesOut(t) \/ Register(t) \/ RefuseToRegister(t) \/ Create(t)
  \/ Put(t) \/ Search(t) \/ Fail(t)

Next == \E t \in Tasks : Step(t)

Spec == Init /\ [][Next]_vars
-------------------------------------------------------------------------------
\* Properties.

\* Without the row there is no table, and without the table no row: the database
\* is never seen half initialised.
TypeOK ==
  /\ space \in Settings \union {Nothing}
  /\ column \in Dimensions \union {Nothing}
  /\ column = Nothing <=> space = Nothing
  /\ documents \in [Keys -> Settings \union {Nothing}]
  /\ pc \in [Tasks -> {"idle", "locking", "registering", "creating", "putting",
                       "searching"}]
  /\ settings \in [Tasks -> Settings \union {Nothing}]
  /\ key \in [Tasks -> Keys \union {Nothing}]
  /\ \A t \in Tasks : pc[t] # "idle" => settings[t] \in Settings

\* All vectors that are stored, and all that a search compares, come from the one
\* model of the one space, although the space is checked in one statement and
\* used in another, and services of other settings come and go.
OneSpace ==
  /\ \A k \in Keys : documents[k] \in {Nothing, space}
  /\ \A t \in Tasks : pc[t] \in {"putting", "searching"} =>
       /\ settings[t] = space
       /\ \A k \in Keys : documents[k] \in {Nothing, settings[t]}
  /\ column # Nothing => column = space.dimension

\* "A second initializer must match those settings.  It never drops old data or
\* rewrites existing vectors": the space is settled once, and a document is never
\* lost.
SettledOnce ==
  [][/\ space # Nothing => space' = space /\ column' = column
     /\ \A k \in Keys : documents[k] # Nothing => documents'[k] # Nothing]_vars
===============================================================================
