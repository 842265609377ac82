---------------------------- MODULE StoredCatalog ----------------------------
(***************************************************************************)
(* A catalog with DDL kept in the workers' shared storage                  *)
(* (vgi/src/stored_catalog.rs) and its catalog_contents answers            *)
(* (vgi/src/catalog_contents.rs).  Every ATTACH is a session of its own;   *)
(* each DDL statement is checked against the replay of the session's event *)
(* log and then appended to it, by whichever pooled worker got the call.   *)
(***************************************************************************)
EXTENDS Integers, Sequences, FiniteSets, SequencesExt

CONSTANTS None,
          Workers,      \* pooled worker processes
          Statements,   \* the DDL that clients send, see Statement below
          LowerOf,      \* name -> its lower-case form
          Catalogs,     \* how a catalog is built: [versioned, etag], the etag
                        \* "none", "generation" (the provider's) or "hash"
          MaxSessions,  \* bound: attaches
          MaxLog        \* bound: events of a session
(* A statement is [op, path, name, body, column, on_conflict, missing_ok,  *)
(* cascade, plain].  body is what an object is created with or the comment *)
(* set; plain says that it asks for nothing this catalog has to refuse.    *)

VARIABLES cat,     \* the catalog
          log,     \* session -> its entries in the shared storage
          next,    \* the next session to be minted
          gone,    \* the sessions detached
          worker,  \* worker -> what it does
          held     \* session -> the snapshot its client holds, None before
vars == <<cat, log, next, gone, worker, held>>

Sessions == 1..MaxSessions
Idle == [pc |-> "idle"]

----------------------------------------------------------------------------
(* The replayed state: a version and the schemas, each with its tables and *)
(* views.  Identifiers are compared without regard to case.                *)

same(a, b) == LowerOf[a] = LowerOf[b]
same_path(p, q) == Len(p) = Len(q) /\ \A i \in DOMAIN p : same(p[i], q[i])

DefaultSchema == <<"main">>
EmptySchema(path, comment) == [path |-> path, comment |-> comment, table |-> <<>>, view |-> <<>>]
NewState == [version |-> 1, schemas |-> <<EmptySchema(DefaultSchema, None)>>]

(* The position of a schema, or of an object of one, 0 when there is none. *)
Position(schemas, path) == SelectInSeq(schemas, LAMBDA s : same_path(s.path, path))
Named(objects, name) == SelectInSeq(objects, LAMBDA o : same(o.name, name))

IsChild(s, path) == Len(s.path) > Len(path) /\ same_path(SubSeq(s.path, 1, Len(path)), path)

(* The outcomes of State::apply: an error, Ok(false), Ok(true).            *)
Refused(S) == [verdict |-> "refused", schemas |-> S]
NoOp(S) == [verdict |-> "no-op", schemas |-> S]
Changed(S) == [verdict |-> "changed", schemas |-> S]
Missing(S, e) == IF e.missing_ok THEN NoOp(S) ELSE Refused(S)

(* What is there already decides with the statement's ON CONFLICT.         *)
Conflict(S, e, replaced) ==
    CASE e.on_conflict = "ignore" -> NoOp(S)
      [] e.on_conflict = "replace" -> Changed(replaced)
      [] e.on_conflict = "error" -> Refused(S)

SchemaCreate(S, e) ==
    LET i == Position(S, e.path)
        fresh == EmptySchema(e.path, e.body)
    IN  CASE e.path = <<>> \/ (Len(e.path) > 1 /\ Position(S, Front(e.path)) = 0) -> Refused(S)
          [] e.path # <<>> /\ i # 0 -> Conflict(S, e, [S EXCEPT ![i] = fresh])
          [] OTHER -> Changed(Append(S, fresh))

SchemaDrop(S, e) ==
    LET i == Position(S, e.path)
        occupied == S[i].table # <<>> \/ S[i].view # <<>> \/ \E j \in DOMAIN S : IsChild(S[j], e.path)
    IN  CASE i = 0 -> Missing(S, e)
          [] i # 0 /\ (same_path(e.path, DefaultSchema) \/ (occupied /\ ~e.cascade)) -> Refused(S)
          [] OTHER -> Changed(SelectSeq(S, LAMBDA s : ~same_path(s.path, e.path) /\ ~IsChild(s, e.path)))

(* Tables and views of a schema share one name space.                      *)
Mut_ObjectCreate(S, e, kind, other) ==
    LET i == Position(S, e.path)
        n == Named(S[i][kind], e.name)
        fresh == [name |-> e.name, body |-> e.body, comment |-> None, notes |-> <<>>]
    IN  CASE i = 0 -> Refused(S)
          [] i # 0 /\ n # 0 -> Conflict(S, e, [S EXCEPT ![i][kind][n] = fresh])
          [] OTHER -> Changed([S EXCEPT ![i][kind] = Append(@, fresh)])

ObjectCreate(S, e, kind, other) ==
    LET i == Position(S, e.path)
        n == Named(S[i][kind], e.name)
        fresh == [name |-> e.name, body |-> e.body, comment |-> None, notes |-> <<>>]
    IN  CASE i = 0 -> Refused(S)
          [] i # 0 /\ Named(S[i][other], e.name) # 0 -> Refused(S)
          [] i # 0 /\ Named(S[i][other], e.name) = 0 /\ n # 0 ->
                Conflict(S, e, [S EXCEPT ![i][kind][n] = fresh])
          [] OTHER -> Changed([S EXCEPT ![i][kind] = Append(@, fresh)])

ObjectDrop(S, e, kind) ==
    LET i == Position(S, e.path)
        n == Named(S[i][kind], e.name)
    IN  IF i = 0 \/ n = 0 THEN Missing(S, e)
        ELSE Changed([S EXCEPT ![i][kind] = RemoveAt(@, n)])

(* A comment on a view, or on a column of it, is set, or removed by None.  *)
ViewCommentSet(S, e) ==
    LET i == Position(S, e.path)
        n == Named(S[i].view, e.name)
        others == SelectSeq(S[i].view[n].notes, LAMBDA c : c[1] # e.column)
    IN  CASE i = 0 -> Refused(S)
          [] i # 0 /\ n = 0 -> Missing(S, e)
          [] OTHER -> Changed(IF e.column = None THEN [S EXCEPT ![i].view[n].comment = e.body]
                              ELSE [S EXCEPT ![i].view[n].notes =
                                        IF e.body = None THEN others ELSE Append(others, <<e.column, e.body>>)])

apply(S, e) ==
    CASE e.op = "Attached" -> NoOp(S)
      [] e.op = "SchemaCreate" -> SchemaCreate(S, e)
      [] e.op = "SchemaDrop" -> SchemaDrop(S, e)
      [] e.op = "TableCreate" -> ObjectCreate(S, e, "table", "view")
      [] e.op = "TableDrop" -> ObjectDrop(S, e, "table")
      [] e.op = "ViewCreate" -> ObjectCreate(S, e, "view", "table")
      [] e.op = "ViewCommentSet" -> ViewCommentSet(S, e)
      [] e.op = "ViewDrop" -> ObjectDrop(S, e, "view")

----------------------------------------------------------------------------
(* The log of a session.  An entry keeps, beside its event, how long the   *)
(* log was when the event was checked against it.                          *)

Attached == [event |-> [op |-> "Attached"], base |-> 0]

(* Mutant: a schema that is dropped leaves the version as it was.          *)
Mut_Replay(st, event) ==
    LET r == apply(st.schemas, event)
    IN  [version |-> IF r.verdict = "changed" /\ event.op # "SchemaDrop" THEN st.version + 1 ELSE st.version,
         schemas |-> r.schemas]

(* A statement that lost a race is skipped, without a new version.         *)
Replay(st, event) ==
    LET r == apply(st.schemas, event)
    IN  [version |-> IF r.verdict = "changed" THEN st.version + 1 ELSE st.version, schemas |-> r.schemas]

(* The states after each entry; the first entry attaches.                  *)
RECURSIVE Replayed(_)
Replayed(entries) ==
    IF Len(entries) = 1 THEN <<NewState>>
    ELSE LET before == Replayed(Front(entries))
         IN  Append(before, Replay(Last(before), Last(entries).event))

(* Mutant: what is left of a log is replayed whatever its first event.     *)
Mut_load(entries) == IF entries = <<>> THEN None ELSE Last(Replayed(entries))

load(entries) ==
    IF entries = <<>> \/ entries[1].event.op # "Attached" THEN None ELSE Last(Replayed(entries))

reported_version(st) == IF cat.versioned THEN st.version ELSE 0

(* A fresh session: nobody else has its name before the call returns.      *)
Attach ==
    /\ next <= MaxSessions
    /\ log' = [log EXCEPT ![next] = <<Attached>>]
    /\ next' = next + 1
    /\ UNCHANGED <<cat, gone, worker, held>>

Detach(s) ==
    /\ s < next /\ s \notin gone
    /\ log' = [log EXCEPT ![s] = <<>>]
    /\ gone' = gone \cup {s}
    /\ held' = [held EXCEPT ![s] = None]
    /\ UNCHANGED <<cat, next, worker>>

(* mutate: the statement is checked against the log as it is now, ...      *)
Mutate(w, s, e) ==
    LET st == load(log[s])
    IN  /\ worker[w] = Idle /\ s < next
        /\ e.plain /\ st # None /\ apply(st.schemas, e).verdict = "changed"
        /\ worker' = [worker EXCEPT ![w] = [pc |-> "append", session |-> s, event |-> e, base |-> Len(log[s])]]
        /\ UNCHANGED <<cat, log, next, gone, held>>

(* ... and appended to the log as it is then.                              *)
AppendEvent(w) ==
    LET x == worker[w]
    IN  /\ x.pc = "append" /\ Len(log[x.session]) < MaxLog
        /\ log' = [log EXCEPT ![x.session] = Append(@, [event |-> x.event, base |-> x.base])]
        /\ worker' = [worker EXCEPT ![w] = Idle]
        /\ UNCHANGED <<cat, next, gone, held>>

----------------------------------------------------------------------------
(* catalog_contents.  A client sends the etag of the snapshot it holds.    *)

(* Parents before children, siblings in the catalog's order.               *)
ParentsFirst(S) ==
    LET Before(j, i) == Len(S[j].path) < Len(S[i].path) \/ (Len(S[j].path) = Len(S[i].path) /\ j < i)
        rank(i) == Cardinality({j \in DOMAIN S : Before(j, i)}) + 1
    IN  [n \in DOMAIN S |-> S[CHOOSE i \in DOMAIN S : rank(i) = n]]

(* validate_paths: paths are not empty, unique, and their parents present. *)
(* It compares them as they are spelled.                                   *)
ValidPaths(S) ==
    /\ \A i \in DOMAIN S : S[i].path # <<>>
    /\ \A i, j \in DOMAIN S : S[i].path = S[j].path => i = j
    /\ \A i \in DOMAIN S : Len(S[i].path) > 1 => \E j \in DOMAIN S : S[j].path = Front(S[i].path)

(* Mutant: the digest leaves the contents out.                             *)
Mut_Etag(version, schemas) ==
    CASE cat.etag = "none" -> None
      [] cat.etag = "generation" -> <<"gen", version>>
      [] cat.etag = "hash" -> <<"digest", version>>

(* The provider's etag names the version; the framework's is a digest of   *)
(* the version and the contents.                                           *)
Etag(version, schemas) ==
    CASE cat.etag = "none" -> None
      [] cat.etag = "generation" -> <<"gen", version>>
      [] cat.etag = "hash" -> <<"digest", version, schemas>>

(* contents and finish: an error, not modified, or the snapshot.           *)
Answer(st, if_none_match) ==
    LET version == reported_version(st)
        schemas == ParentsFirst(st.schemas)
        etag == Etag(version, schemas)
    IN  CASE cat.etag = "generation" /\ etag = if_none_match -> [kind |-> "not_modified", version |-> version]
          [] ~(cat.etag = "generation" /\ etag = if_none_match) /\ ~ValidPaths(st.schemas) -> [kind |-> "error"]
          [] ~(cat.etag = "generation" /\ etag = if_none_match) /\ ValidPaths(st.schemas) ->
                IF etag # None /\ etag = if_none_match THEN [kind |-> "not_modified", version |-> version]
                ELSE [kind |-> "full", version |-> version, etag |-> etag, schemas |-> schemas]

(* The client keeps its snapshot when it is told that nothing changed.  at *)
(* is how long the log was when the snapshot was last confirmed.           *)
Contents(s) ==
    LET st == load(log[s])
        inm == IF held[s] = None THEN None ELSE held[s].etag
        answer == Answer(st, inm)
    IN  /\ s < next /\ st # None /\ answer.kind # "error"
        /\ held' = [held EXCEPT ![s] =
                IF answer.kind = "not_modified" THEN [@ EXCEPT !.version = answer.version, !.at = Len(log[s])]
                ELSE [version |-> answer.version, etag |-> answer.etag, schemas |-> answer.schemas, at |-> Len(log[s])]]
        /\ UNCHANGED <<cat, log, next, gone, worker>>

----------------------------------------------------------------------------
Init ==
    /\ cat \in Catalogs
    /\ log = [s \in Sessions |-> <<>>]
    /\ next = 1
    /\ gone = {}
    /\ worker = [w \in Workers |-> Idle]
    /\ held = [s \in Sessions |-> None]

Next ==
    \/ Attach
    \/ \E s \in Sessions : Detach(s)
    \/ \E w \in Workers, s \in Sessions, e \in Statements : Mutate(w, s, e)
    \/ \E w \in Workers : AppendEvent(w)
    \/ \E s \in Sessions : Contents(s)

Spec == Init /\ [][Next]_vars

----------------------------------------------------------------------------
Live == {s \in Sessions : load(log[s]) # None}

(* after is the sequence of states that the log of session s replays to.   *)

(* A version names one state of the catalog: along a log it never goes     *)
(* back, and where it stays the schemas stay.                              *)
VersionNamesContents(s, after) ==
    \A n \in 2..Len(after) : after[n] = after[n - 1] \/ after[n].version > after[n - 1].version

(* A statement that was accepted is in the replayed state unless another   *)
(* one was appended between its check and its append.                      *)
SkippedOnlyWhenRaced(s, after) ==
    \A n \in 2..Len(after) : log[s][n].base = n - 1 => after[n].version = after[n - 1].version + 1

(* However statements interleave, main stays and no name is both a table   *)
(* and a view, or twice either.                                            *)
OneNameSpace(s, after) ==
    LET S == Last(after).schemas
    IN  /\ Position(S, DefaultSchema) # 0
        /\ \A i \in DOMAIN S : LET objects == S[i].table \o S[i].view IN
              \A j, k \in DOMAIN objects : same(objects[j].name, objects[k].name) => j = k

(* What a client holds is the catalog as it was when the snapshot was sent *)
(* or last confirmed.                                                      *)
HeldAsConfirmed(s, after) ==
    held[s] # None => LET st == after[held[s].at]
                      IN  held[s].schemas = ParentsFirst(st.schemas) /\ held[s].version = reported_version(st)

(* A detached session stays detached, late appends notwithstanding.        *)
DetachForgets(s, after) == s \notin gone

(* catalog_contents refuses the replayed state only where a nested schema  *)
(* and its parent spell the parent's name differently: DDL compares names  *)
(* without regard to case, validate_paths as they are spelled.             *)
RefusedOnlyWhenRespelled(s, after) ==
    LET S == Last(after).schemas
    IN  ~ValidPaths(S) => \E i, j \in DOMAIN S :
            /\ Len(S[i].path) > 1
            /\ same_path(S[j].path, Front(S[i].path)) /\ S[j].path # Front(S[i].path)

(* However the statements of several workers interleave, a session's log   *)
(* replays to a catalog that is well formed, that its version names, that  *)
(* clients hold as it was, and that is refused only where it was respelled.*)
StoredSound ==
    \A s \in Live : LET after == Replayed(log[s]) IN
        /\ VersionNamesContents(s, after) /\ SkippedOnlyWhenRaced(s, after)
        /\ OneNameSpace(s, after) /\ RefusedOnlyWhenRespelled(s, after)
        /\ HeldAsConfirmed(s, after) /\ DetachForgets(s, after)
=============================================================================
