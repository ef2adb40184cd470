----------------------------- MODULE CaosTables -----------------------------
(***************************************************************************)
(* The caos table wrappers of edgedb/server/pgsql/common.py.               *)
(*                                                                         *)
(* Every table class keeps its DDL in the docstring of create() and its    *)
(* INSERT in the docstring of insert(); DatabaseTable runs them on one     *)
(* PostgreSQL connection.  A statement either takes effect or raises, and  *)
(* the exception reaches the caller, except DuplicateTableError in         *)
(* create(), which is swallowed.  The caller's view of the last call is   *)
(* kept in `ret`: the method, its table and arguments, and what it         *)
(* returned or that it raised.                                             *)
(***************************************************************************)
EXTENDS Naturals, FiniteSets

CONSTANTS
    Names,      \* concept names a caller passes
    MaxIds,     \* bound on rows inserted per serial column
    None,       \* Python's None, and SQL NULL
    Raised      \* the call raised an exception

Tables == {"concept", "concept_map", "entity", "entity_map", "path_cache"}

(* The tables each CREATE TABLE's FOREIGN KEY clauses reference.          *)
RefsOf == [concept |-> {}, concept_map |-> {"concept"}, entity |-> {"concept"},
           entity_map |-> {}, path_cache |-> {"entity"}]

VARIABLES
    created,    \* tables that exist in schema caos
    concept,    \* rows of caos.concept: [id, name]
    conceptMap, \* rows of caos.concept_map: [id, source, target]
    serial,     \* serial[t]: last value drawn from t's id sequence
    ret         \* what the last call returned to its caller

vars == <<created, concept, conceptMap, serial, ret>>

Ids == 1..MaxIds
Call(op, t, a, b, out) == [op |-> op, table |-> t, a |-> a, b |-> b, out |-> out]
Calls == [op : {"none", "create", "insert"}, table : Tables, a : Names \cup {None},
          b : Names \cup {None}, out : Ids \cup {None, Raised}]

TypeOK ==
    /\ created \subseteq Tables
    /\ concept \subseteq [id : Ids, name : Names]
    /\ conceptMap \subseteq [id : Ids, source : Ids, target : Ids]
    /\ serial \in [{"concept", "concept_map"} -> 0..MaxIds]
    /\ ret \in Calls

Init ==
    /\ created = {}
    /\ concept = {}
    /\ conceptMap = {}
    /\ serial = [t \in {"concept", "concept_map"} |-> 0]
    /\ ret = Call("none", "concept", None, None, None)

-----------------------------------------------------------------------------
(* DatabaseTable.create: run the DDL; a table that already exists is not  *)
(* an error; a FOREIGN KEY to a table that does not exist is.              *)
Create(t) ==
    /\ \/ /\ t \in created
          /\ ret' = Call("create", t, None, None, None)
          /\ UNCHANGED created
       \/ /\ t \notin created
          /\ RefsOf[t] \subseteq created
          /\ created' = created \cup {t}
          /\ ret' = Call("create", t, None, None, None)
       \/ /\ t \notin created
          /\ ~(RefsOf[t] \subseteq created)
          /\ ret' = Call("create", t, None, None, Raised)
          /\ UNCHANGED created
    /\ UNCHANGED <<concept, conceptMap, serial>>

(* The ids of the concepts a `WHERE name = %(n)s` subselect finds.        *)
IdsNamed(n) == {c.id : c \in {r \in concept : r.name = n}}

(* ConceptTable.insert: INSERT ... RETURNING id, but the wrapper does not *)
(* return what DatabaseTable.insert returns, so the caller gets None.      *)
InsertConcept(n) ==
    /\ \/ /\ "concept" \in created
          /\ serial["concept"] < MaxIds
          /\ LET id == serial["concept"] + 1 IN
             /\ concept' = concept \cup {[id |-> id, name |-> n]}
             /\ serial' = [serial EXCEPT !["concept"] = id]
          /\ ret' = Call("insert", "concept", n, None, None)
       \/ /\ "concept" \notin created
          /\ ret' = Call("insert", "concept", n, None, Raised)
          /\ UNCHANGED <<concept, serial>>
    /\ UNCHANGED <<created, conceptMap>>

(* Mutant of InsertConceptMap: source_id and target_id accept NULL, so a  *)
(* name no concept has is stored as a link to nothing.                     *)
InsertConceptMapNullable(s, t) ==
    LET ref(n) == IF IdsNamed(n) = {} THEN None ELSE CHOOSE i \in IdsNamed(n) : TRUE
    IN
    /\ \/ /\ "concept_map" \in created
          /\ Cardinality(IdsNamed(s)) <= 1
          /\ Cardinality(IdsNamed(t)) <= 1
          /\ serial["concept_map"] < MaxIds
          /\ LET id == serial["concept_map"] + 1 IN
             /\ conceptMap' = conceptMap \cup
                   {[id |-> id, source |-> ref(s), target |-> ref(t)]}
             /\ serial' = [serial EXCEPT !["concept_map"] = id]
          /\ ret' = Call("insert", "concept_map", s, t, None)
       \/ /\ \/ "concept_map" \notin created
             \/ Cardinality(IdsNamed(s)) > 1
             \/ Cardinality(IdsNamed(t)) > 1
          /\ ret' = Call("insert", "concept_map", s, t, Raised)
          /\ UNCHANGED <<conceptMap, serial>>
    /\ UNCHANGED <<created, concept>>

(* ConceptMapTable.insert: source and target are scalar subselects on     *)
(* concept.name.  More than one row is a CardinalityViolationError; no    *)
(* row is NULL, which the NOT NULL columns reject.  The wrapper again     *)
(* returns None instead of the new id.                                     *)
InsertConceptMap(s, t) ==
    /\ \/ /\ "concept_map" \in created
          /\ Cardinality(IdsNamed(s)) = 1
          /\ Cardinality(IdsNamed(t)) = 1
          /\ serial["concept_map"] < MaxIds
          /\ LET id == serial["concept_map"] + 1 IN
             /\ conceptMap' = conceptMap \cup
                   {[id |-> id,
                     source |-> CHOOSE i \in IdsNamed(s) : TRUE,
                     target |-> CHOOSE i \in IdsNamed(t) : TRUE]}
             /\ serial' = [serial EXCEPT !["concept_map"] = id]
          /\ ret' = Call("insert", "concept_map", s, t, None)
       \/ /\ \/ "concept_map" \notin created
             \/ Cardinality(IdsNamed(s)) # 1
             \/ Cardinality(IdsNamed(t)) # 1
          /\ ret' = Call("insert", "concept_map", s, t, Raised)
          /\ UNCHANGED <<conceptMap, serial>>
    /\ UNCHANGED <<created, concept>>

(* An insert that raises and changes no table.                            *)
Rejected(t) ==
    /\ ret' = Call("insert", t, None, None, Raised)
    /\ UNCHANGED <<created, concept, conceptMap, serial>>

(* EntityTable.insert raises MetaError: direct inserts are not allowed.   *)
InsertEntity == Rejected("entity")

(* EntityMapTable inherits DatabaseTable.insert, whose docstring is None: *)
(* "missing insert statement in docstring".                                *)
InsertEntityMap == Rejected("entity_map")

(* PathCacheTable.insert runs its INSERT, whose entity_id references      *)
(* caos.entity, which this code never fills: the FOREIGN KEY rejects the  *)
(* row, and before create() the table does not exist.                      *)
InsertPathCache == Rejected("path_cache")

Next ==
    \/ \E t \in Tables : Create(t)
    \/ InsertEntity \/ InsertEntityMap \/ InsertPathCache
    \/ \E n \in Names : InsertConcept(n)
    \/ \E s, t \in Names : InsertConceptMap(s, t)

Spec == Init /\ [][Next]_vars

-----------------------------------------------------------------------------
(* Properties.                                                             *)

=============================================================================
