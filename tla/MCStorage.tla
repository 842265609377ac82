----------------------------- MODULE MCStorage -----------------------------
(***************************************************************************)
(* What several worker processes share: the stores FsStorage and           *)
(* HttpStorage, and the DDL logs that StoredCatalog keeps in one.  A       *)
(* behaviour is one of the three, chosen at the start.  The variables of   *)
(* StoredCatalog are c1 to c6.                                             *)
(***************************************************************************)
EXTENDS FsStorage, HttpStorage, TLC

CONSTANTS a, b
CONSTANTS Statements, LowerOf, Catalogs, MaxSessions, MaxLog

VARIABLES store, c1, c2, c3, c4, c5, c6

Cat == INSTANCE StoredCatalog
    WITH Workers <- Procs, cat <- c1, log <- c2, next <- c3, gone <- c4, worker <- c5, held <- c6

ASSUME StoreAssumption == StoreConstants

MCValues == {<<a, a>>, <<b>>}
MCInodes == 1..8
MCSymmetry == Permutations(Procs)

MCCatalogs == {[versioned |-> TRUE, etag |-> "generation"], [versioned |-> FALSE, etag |-> "hash"]}
MCLower == [n \in {"main", "s", "S", "c", "t"} |-> IF n = "S" THEN "s" ELSE n]

DDL == [op |-> "none", path |-> <<"s">>, name |-> "t", body |-> "x", column |-> None, on_conflict |-> "error",
        missing_ok |-> FALSE, cascade |-> FALSE, plain |-> TRUE]

Main == [DDL EXCEPT !.path = <<"main">>]

\* A schema, its respelling, one below it and a table in it; a table and a view of
\* one name in the default schema; and a table with a constraint.
MCStatements ==
    {[DDL EXCEPT !.op = "SchemaCreate"],
     [DDL EXCEPT !.op = "SchemaCreate", !.path = <<"S">>, !.on_conflict = "replace"],
     [DDL EXCEPT !.op = "SchemaCreate", !.path = <<"s", "c">>, !.on_conflict = "ignore"],
     [DDL EXCEPT !.op = "SchemaDrop"],
     [DDL EXCEPT !.op = "SchemaDrop", !.missing_ok = TRUE, !.cascade = TRUE],
     [DDL EXCEPT !.op = "TableCreate"],
     [Main EXCEPT !.op = "TableCreate", !.on_conflict = "replace", !.body = "y"],
     [Main EXCEPT !.op = "ViewCreate"],
     [Main EXCEPT !.op = "ViewCommentSet", !.column = "c"],
     [Main EXCEPT !.op = "ViewDrop"],
     [Main EXCEPT !.op = "TableDrop", !.missing_ok = TRUE],
     [Main EXCEPT !.op = "TableCreate", !.plain = FALSE]}

catVars == <<c1, c2, c3, c4, c5, c6>>

Quiet == env = [part |-> "kv", mode |-> "overlap"]
NoHttp == net = [faults |-> "lossy", part |-> "kv"]
NoCatalog == c1 = [versioned |-> TRUE, etag |-> "generation"]

\* No call on the values carries a key: what becomes of the cached replies is the
\* same to all of them, and NoOldValue says nothing of late attempts.
\* An append and a queue_push carry their keys alike; the queue is read as well.
Telling ==
    /\ net.part = "kv" => net.faults \in {"lossy", "restarts"}
    /\ net.faults = "late" => net.part = "queue"

MCInit ==
    /\ Init /\ StoreInit /\ Cat!Init
    /\ \/ store = "fs" /\ NoHttp /\ NoCatalog
       \/ store = "http" /\ Quiet /\ Telling /\ NoCatalog
       \/ store = "catalog" /\ Quiet /\ NoHttp

FsStep == store = "fs" /\ Next /\ UNCHANGED <<storeVars, catVars, store>>
HttpStep == store = "http" /\ StoreNext /\ UNCHANGED <<vars, catVars, store>>
CatalogStep == store = "catalog" /\ Cat!Next /\ UNCHANGED <<vars, storeVars, store>>

MCNext == FsStep \/ HttpStep \/ CatalogStep

MCSpec == MCInit /\ [][MCNext]_<<vars, storeVars, catVars, store>>

\* However the DDL statements of several workers interleave, a session's log
\* replays to a well-formed catalog that its version and etag name, that clients
\* hold as it was, and that is refused only where a name was respelled.
CatalogsSound == store = "catalog" => Cat!StoredSound
=============================================================================
