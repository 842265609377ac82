------------------------------- MODULE Dispatch -------------------------------
(***************************************************************************)
(* The function registries of a worker (vgi/src/dispatch.rs, worker.rs):   *)
(* where each function is declared, how that follows the catalogs as they  *)
(* are named and adopted, what a catalog's listing advertises, and which   *)
(* implementation a bind reaches.                                          *)
(*                                                                         *)
(* A scope is [catalog, schema].  Names are compared as the code does,     *)
(* without regard to case: they stand here in one case.                    *)
(***************************************************************************)
EXTENDS Overloads

CONSTANTS DefaultName,  \* the name the dispatcher is constructed with
          Instances,    \* [id, kind, name, home, takes, type, copy, blended, finish, resume, workers, per_call]
          Models,       \* names a catalog model may give the primary
          Secondaries,  \* [name, functions]: catalogs served alongside it
          Hideable,     \* names the worker may hide
          Schemas,      \* schema paths that exist somewhere
          ReproApp,     \* PROJ_REPRO_APP: the primary attached by this name
          ReproNames,   \* names that begin with PROJ_REPRO_PREFIX
          MaxListings,  \* MAX_CACHED_FUNCTION_LISTINGS
          MaxFunctions  \* bound: functions registered at once
(* An instance with home = None is registered without naming one.  copy is *)
(* "from" for the table function behind a COPY reader, "to" for the        *)
(* buffering function behind a writer, None otherwise.  takes says what    *)
(* its argument is: a column, a constant or the input table.               *)

Kinds == {"Scalar", "Table", "TableInOut", "Buffering", "Aggregate"}
Main == <<"main">>

VARIABLES registry,   \* <<kind, name>> -> the instances registered, in order
          scopes,     \* <<kind, name>> -> their homes, kept parallel
          model,      \* the name of the catalog model installed, None before
          secondary,  \* the secondary catalogs, in order
          hidden,     \* the names hidden from listings
          listings,   \* the function listings cached: a set of [key, items]
          aborted     \* a registration assertion has stopped the worker
vars == <<registry, scopes, model, secondary, hidden, listings, aborted>>

At(f, k) == IF k \in DOMAIN f THEN f[k] ELSE <<>>
Pushed(f, k, v) == [x \in DOMAIN f \cup {k} |-> IF x = k THEN Append(At(f, k), v) ELSE f[x]]
Registered == {i \in Instances : \E k \in DOMAIN registry : i \in ToSet(registry[k])}

----------------------------------------------------------------------------
(* Names and homes.                                                        *)

Scope(catalog, schema) == [catalog |-> catalog, schema |-> schema]
matches(home, catalog, schema) == home.catalog = catalog /\ home.schema = schema
in_catalog(home, catalog) == home.catalog = catalog

primary_catalog_name == IF model = None THEN DefaultName ELSE model
default_home == Scope(primary_catalog_name, Main)

(* An attach is None or ReproApp for the primary, or the name of a         *)
(* secondary.                                                              *)
call_catalog(attach) ==
    IF \E i \in DOMAIN secondary : secondary[i].name = attach THEN attach ELSE primary_catalog_name

----------------------------------------------------------------------------
(* Registration.  Every change drops the cached listings.                  *)

(* The argument an instance declares.                                      *)
TableInput == <<"table">>
SpecsOf(i) ==
    <<CASE i.takes = "constant" -> const_arg("v", 0, i.type)
        [] i.takes = "column" -> column("v", 0, i.type)
        [] i.takes = "table" -> column("v", 0, TableInput)>>

(* The assertions on a table-in-out function: the first on any of them,    *)
(* the others on a blended one registered without a home.                  *)
Drivable(i) ==
    /\ ~(i.resume /\ i.workers = 1)
    /\ i.per_call # None => i.blended /\ i.per_call >= 1
WellBlended(i) ==
    i.blended =>
        /\ ~i.finish
        /\ \A s \in ToSet(SpecsOf(i)) : s.type # TableInput /\ ~(Positional(s) /\ s.const)
        /\ \E s \in ToSet(SpecsOf(i)) : Positional(s) /\ ~s.const

Push(i, home) ==
    /\ registry' = Pushed(registry, <<i.kind, i.name>>, i)
    /\ scopes' = Pushed(scopes, <<i.kind, i.name>>, home)
    /\ listings' = {}
    /\ UNCHANGED aborted

Abort == aborted' = TRUE /\ UNCHANGED <<registry, scopes, listings>>

RegisterScoped(i) ==
    /\ i \notin Registered /\ i.home # None /\ Cardinality(Registered) < MaxFunctions
    /\ IF i.kind = "TableInOut" /\ ~Drivable(i) THEN Abort ELSE Push(i, i.home)
    /\ UNCHANGED <<model, secondary, hidden>>

Register(i) ==
    /\ i \notin Registered /\ i.home = None /\ Cardinality(Registered) < MaxFunctions
    /\ IF i.kind = "TableInOut" /\ ~(WellBlended(i) /\ Drivable(i)) THEN Abort ELSE Push(i, default_home)
    /\ UNCHANGED <<model, secondary, hidden>>

HideFunction(name) ==
    /\ name \notin hidden
    /\ hidden' = hidden \cup {name}
    /\ listings' = {}
    /\ UNCHANGED <<registry, scopes, model, secondary, aborted>>

(* Homes in the catalog that is renamed move with it.                      *)
Rebased(f, from, to) ==
    [k \in DOMAIN f |-> [n \in DOMAIN f[k] |->
        IF in_catalog(f[k][n], from) THEN [f[k][n] EXCEPT !.catalog = to] ELSE f[k][n]]]

(* Mutant: the functions registered so far keep the old name.              *)
Mut_SetCatalog(name, embedded) ==
    /\ model' = name
    /\ listings' = {}
    /\ UNCHANGED <<registry, scopes, secondary, hidden, aborted>>

(* Worker::set_catalog: the scan functions embedded in the model's tables  *)
(* are registered where their name is free, then the model is installed.   *)
SetCatalog(name, embedded) ==
    LET free == {i \in embedded : <<"Table", i.name>> \notin DOMAIN registry}
        put(f, v(_)) == [k \in DOMAIN f \cup {<<"Table", i.name>> : i \in free} |->
                            IF k \in DOMAIN f THEN f[k]
                            ELSE <<v(CHOOSE i \in free : k = <<"Table", i.name>>)>>]
        homes == put(scopes, LAMBDA i : default_home)
    IN  /\ registry' = put(registry, LAMBDA i : i)
        /\ scopes' = IF name = primary_catalog_name THEN homes
                     ELSE Rebased(homes, primary_catalog_name, name)
        /\ model' = name
        /\ listings' = {}
        /\ UNCHANGED <<secondary, hidden, aborted>>

(* Mutant: the cached listings outlive the adoption.                       *)
Mut_RegisterSecondaryCatalog(s) ==
    /\ \A i \in DOMAIN secondary : secondary[i].name # s.name
    /\ scopes' = [k \in DOMAIN scopes |-> [n \in DOMAIN scopes[k] |->
                     IF k[2] \in s.functions /\ scopes[k][n] = default_home
                     THEN Scope(s.name, Main) ELSE scopes[k][n]]]
    /\ secondary' = Append(secondary, s)
    /\ UNCHANGED <<registry, model, hidden, listings, aborted>>

(* The functions a secondary names are adopted where they took the         *)
(* default home.                                                           *)
RegisterSecondaryCatalog(s) ==
    /\ \A i \in DOMAIN secondary : secondary[i].name # s.name
    /\ scopes' = [k \in DOMAIN scopes |-> [n \in DOMAIN scopes[k] |->
                     IF k[2] \in s.functions /\ scopes[k][n] = default_home
                     THEN Scope(s.name, Main) ELSE scopes[k][n]]]
    /\ secondary' = Append(secondary, s)
    /\ listings' = {}
    /\ UNCHANGED <<registry, model, hidden, aborted>>

----------------------------------------------------------------------------
(* Listings.  A key is [attach, schema, kind], the kind one of the three   *)
(* the extension asks for.                                                 *)

Owned == UNION {secondary[i].functions : i \in DOMAIN secondary}
IsSecondary(attach) == \E i \in DOMAIN secondary : secondary[i].name = attach

(* A secondary lists what is declared in it, the primary hides every name  *)
(* a secondary owns, and the names of one app are listed for it alone.     *)
visible(name, attach) ==
    /\ name \notin hidden
    /\ name \in ReproNames <=> attach = ReproApp
    /\ IsSecondary(attach) \/ name \notin Owned

declared_in(k, n, catalog, schema) == matches(scopes[k][n], catalog, schema)

ListedKinds(kind) ==
    CASE kind = "scalar" -> {"Scalar"}
      [] kind = "table" -> {"Table", "TableInOut", "Buffering"}
      [] kind = "aggregate" -> {"Aggregate"}

(* The instances advertised, each with the schema it is advertised in.     *)
build_function_listing(key) ==
    {[id |-> registry[k][n].id, schema |-> key.schema] :
        <<k, n>> \in {p \in UNION {{k} \X DOMAIN registry[k] : k \in DOMAIN registry} :
                        /\ p[1][1] \in ListedKinds(key.kind)
                        /\ visible(p[1][2], key.attach)
                        /\ declared_in(p[1], p[2], call_catalog(key.attach), key.schema)}}

Cached(key) == {l \in listings : l.key = key}
function_listing(key) ==
    IF Cached(key) # {} THEN (CHOOSE l \in Cached(key) : TRUE).items ELSE build_function_listing(key)

Attachable(attach) == attach \in {None, ReproApp} \/ IsSecondary(attach)

(* A listing that names something is kept, up to the cap.                  *)
List(key) ==
    LET items == function_listing(key)
    IN  /\ Attachable(key.attach)
        /\ listings' = IF items = {} \/ Cached(key) # {} \/ Cardinality(listings) >= MaxListings
                       THEN listings ELSE listings \cup {[key |-> key, items |-> items]}
        /\ UNCHANGED <<registry, scopes, model, secondary, hidden, aborted>>

----------------------------------------------------------------------------
(* Binding.  A request is [attach, schema, name, kind, type, constant,     *)
(* copy, legacy]; schema = <<>> names none, constant says the value is     *)
(* sent as an argument rather than a column.                               *)

(* CallScope::for_bind: how the call names its function.                   *)
for_bind(req) ==
    CASE req.schema # <<>> -> "Schema"
      [] req.schema = <<>> /\ (req.copy # None \/ req.legacy \/ req.name \in hidden) -> "Catalog"
      [] OTHER -> "refused"

(* unary_scope, for the aggregates: no call is refused for naming none.    *)
unary_scope(req) == IF req.schema # <<>> THEN "Schema" ELSE "Catalog"

CallScope(req) == IF req.kind = "aggregate" THEN unary_scope(req) ELSE for_bind(req)

(* scoped_indices: the instances the call may reach.                       *)
scoped_indices(kind, req) ==
    LET k == <<kind, req.name>>
        homes == At(scopes, k)
        catalog == call_catalog(req.attach)
        inside == {n \in DOMAIN homes : in_catalog(homes[n], catalog)}
    IN  CASE CallScope(req) = "Schema" -> {n \in DOMAIN homes : matches(homes[n], catalog, req.schema)}
          [] CallScope(req) = "Catalog" /\ Cardinality({homes[n].schema : n \in inside}) = 1 -> inside
          [] OTHER -> {}

(* The kind whose registry answers the bind: buffering unless the bind     *)
(* opens a COPY scan, then table-in-out, then table or scalar.             *)
Has(kind, name) == <<kind, name>> \in DOMAIN registry
BoundKind(req) ==
    CASE Has("Buffering", req.name) /\ req.copy # "from" -> "Buffering"
      [] ~(Has("Buffering", req.name) /\ req.copy # "from") /\ Has("TableInOut", req.name) -> "TableInOut"
      [] OTHER -> IF req.kind = "table" \/ (~Has("Scalar", req.name) /\ Has("Table", req.name))
                  THEN "Table" ELSE "Scalar"

(* handle_bind: the id reached, or None.  Buffering functions and          *)
(* aggregates take the first instance in scope, the others the best match. *)
Resolve(kind, req) ==
    LET k == <<kind, req.name>>
        idxs == SetToSortSeq(scoped_indices(kind, req), LAMBDA a, b : a < b)
        cands == [n \in DOMAIN idxs |-> registry[k][idxs[n]]]
        pick == IF kind \in {"Buffering", "Aggregate"} THEN 1
                ELSE resolve_overload([n \in DOMAIN cands |-> SpecsOf(cands[n])],
                                      [n \in DOMAIN cands |-> cands[n].blended],
                                      Wire(IF req.constant THEN <<[type |-> req.type, value |-> 1]>>
                                           ELSE <<>>),
                                      IF req.constant THEN None ELSE <<req.type>>)
    IN  IF idxs = <<>> \/ pick = 0 THEN None ELSE cands[pick].id

(* For an aggregate, handle_aggregate_bind and every later call of it.     *)
handle_bind(req) ==
    IF CallScope(req) = "refused" THEN None
    ELSE Resolve(IF req.kind = "aggregate" THEN "Aggregate" ELSE BoundKind(req), req)

----------------------------------------------------------------------------
ListingKeys == [attach : {s.name : s \in Secondaries} \cup {None, ReproApp}, schema : Schemas,
                kind : {"scalar", "table", "aggregate"}]
FunctionType(kind) ==
    CASE kind = "Scalar" -> "scalar" [] kind = "Aggregate" -> "aggregate" [] OTHER -> "table"

Init ==
    /\ registry = <<>> /\ scopes = <<>> /\ model = None /\ secondary = <<>> /\ hidden = {}
    /\ listings = {} /\ aborted = FALSE

Embeddable == {i \in Instances : i.kind = "Table" /\ i.home = None /\ i.copy = None}

Next ==
    /\ ~aborted
    /\ \/ \E i \in Instances : RegisterScoped(i)
       \/ \E i \in Instances : Register(i)
       \/ \E n \in Hideable : HideFunction(n)
       \/ \E n \in Models, e \in SUBSET Embeddable : e \cap Registered = {} /\ SetCatalog(n, e)
       \/ \E s \in Secondaries : RegisterSecondaryCatalog(s)
       \/ \E key \in ListingKeys : List(key)

Spec == Init /\ [][Next]_vars

----------------------------------------------------------------------------
InstanceOf(id) == CHOOSE i \in Instances : i.id = id

(* The bind a caller of an instance sends: a COPY handler's carries its    *)
(* COPY context and no schema, a table function's its constant.            *)
Call(attach, schema, i, legacy) ==
    [attach |-> attach, schema |-> IF i.copy # None \/ legacy THEN <<>> ELSE schema,
     name |-> i.name, type |-> i.type, copy |-> i.copy, legacy |-> legacy,
     kind |-> FunctionType(i.kind), constant |-> i.kind = "Table"]

(* A bind looks for a buffering function and then for a table-in-out       *)
(* function by the bare name, whatever kind was asked for, and takes the   *)
(* first buffering function or aggregate in the schema: no other function  *)
(* of that name can be called.  Registering one is not refused.            *)
Shadowed(i) ==
    LET k == <<i.kind, i.name>>
        n == CHOOSE j \in DOMAIN registry[k] : registry[k][j] = i
    IN  \/ i.kind \in {"Scalar", "Table"} /\ Has("TableInOut", i.name)
        \/ i.kind \in {"Scalar", "Table", "TableInOut"} /\ i.copy # "from" /\ Has("Buffering", i.name)
        \/ i.kind \in {"Buffering", "Aggregate"} /\ \E j \in 1..(n - 1) : scopes[k][j] = scopes[k][n]

(* The name is declared in at most one schema of the catalog attached.     *)
Unambiguous(attach, i) ==
    Cardinality({h.schema : h \in {g \in ToSet(At(scopes, <<i.kind, i.name>>)) :
                                      in_catalog(g, call_catalog(attach))}}) <= 1

(* Every function a served listing advertises is the one a bind then       *)
(* reaches, unless its name is shared with a kind that the bind looks at   *)
(* first: the schema on the advertisement, sent back through the attach it *)
(* was listed under, resolves to the very instance advertised, in whatever *)
(* order functions were registered, renamed, adopted or hidden before or   *)
(* after the listing was cached.  So does the schema-less bind of an older *)
(* peer when the name is unambiguous (advertise_in,                        *)
(* function_listings_changed, scoped_indices).                             *)
AdvertisedBinds ==
    \A key \in {k \in ListingKeys : Attachable(k.attach)} :
        \A item \in function_listing(key) :
            LET i == InstanceOf(item.id)
            IN  \A legacy \in BOOLEAN :
                    ~Shadowed(i) /\ (legacy => Unambiguous(key.attach, i)) =>
                        handle_bind(Call(key.attach, item.schema, i, legacy)) = i.id

(* A function registered without naming a home stays bindable, listed or   *)
(* hidden, in the schema main of the primary or of a secondary, in         *)
(* whatever order functions are registered, the primary is renamed and     *)
(* secondaries adopt names; and a hidden one without naming a schema when  *)
(* its name is unambiguous (default_home, set_catalog,                     *)
(* register_secondary_catalog, hide_function).                             *)
DefaultsReachable ==
    \A i \in Registered : i.home = None /\ ~Shadowed(i) =>
        \E attach \in {secondary[n].name : n \in DOMAIN secondary} \cup {None} :
            /\ handle_bind(Call(attach, Main, i, FALSE)) = i.id
            /\ i.name \in hidden /\ Unambiguous(attach, i)
                 => handle_bind([Call(attach, Main, i, FALSE) EXCEPT !.schema = <<>>]) = i.id
=============================================================================
