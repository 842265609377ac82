------------------------------- MODULE MCScans -------------------------------
(***************************************************************************)
(* The parts of a scan: the streams of an execution (TableStream), the     *)
(* table functions (Producers), split plans (Splits), filter pushdown      *)
(* (FilterScan) and table-in-out exchanges (TableInOut).  A behaviour is   *)
(* one of one part, chosen at the start; the parts other than TableStream  *)
(* keep their variables in the slots s1 to s9.                             *)
(***************************************************************************)
EXTENDS TableStream

CONSTANTS Absent, Null, Error, NaN,
          Workers, ProducerCalls,
          Readers, SplitCalls, MaxSplits, MaxLosses, MaxLevel, MaxPages,
          Schema, Documents, Values, SnapshotPredicates, DeltaPredicates, PrunedCounts, MaxDepth, MaxNodes,
          Substreams, InOutCalls, InputBatches, MaxExchanges, MaxInputs

VARIABLES part, s1, s2, s3, s4, s5, s6, s7, s8, s9
slots == <<s1, s2, s3, s4, s5, s6, s7, s8, s9>>

Scan == INSTANCE Producers
    WITH call <- s1, work <- s2, prod <- s3, phase <- s4, out <- s5, snapshot <- s6, report <- s7,
         Calls <- ProducerCalls, None <- Absent
Split == INSTANCE Splits WITH call <- s1, plan <- s2, claimed <- s3, reader <- s4, losses <- s5, None <- Absent
Filter == INSTANCE FilterScan WITH phase <- s1, filters <- s2, None <- Absent
InOut == INSTANCE TableInOut
    WITH call <- s1, worker <- s2, exchange <- s3, asked <- s4, log <- s5, stored <- s6, flush <- s7,
         fed <- s8, count <- s9, Calls <- InOutCalls, None <- Absent

(* The inputs each part is given.                                          *)
ScanInputs == INSTANCE MCProducers
    WITH call <- s1, work <- s2, prod <- s3, phase <- s4, out <- s5, snapshot <- s6, report <- s7,
         Calls <- {}, None <- Absent
SplitInputs == INSTANCE Splits
    WITH call <- s1, plan <- s2, claimed <- s3, reader <- s4, losses <- s5, SplitCalls <- {}, None <- Absent
FilterInputs == INSTANCE MCFilterScan
    WITH phase <- s1, filters <- s2, Schema <- {}, Documents <- {}, Values <- {}, SnapshotPredicates <- {},
         DeltaPredicates <- {}, None <- Absent

(* Two streams, filter deltas over two advisory predicates (one of them of *)
(* the snapshot) and one required predicate.                               *)
MCSnapshotIds == <<"r", "a">>

Update(id, rev) ==
    {[id |-> id, rev |-> rev, op |-> "remove", value |-> 0]}
        \cup {[id |-> id, rev |-> rev, op |-> "upsert", value |-> v] : v \in IF id = "a" THEN {1, 2} ELSE {1}}

Updates(id) == Update(id, 1) \cup Update(id, 2)

(* A flush takes no delta (its init installs no filters on the producer).  *)
MCMaxDeltas == [k \in Kinds |-> CASE k = "cursor" -> 3 [] k = "exchange" -> 1 [] OTHER -> 0]
NoDeltas == [k \in Kinds |-> 0]

(* Single updates, updates of both predicates together, and deltas that    *)
(* must be refused: the required predicate, and one ID twice.              *)
MCDeltas ==
    {<<u>> : u \in Updates("a") \cup Updates("b")}
        \cup {<<u, v>> : u \in Update("b", 2), v \in Update("a", 1)}
        \cup {<<u>> : u \in Update("r", 1)}
        \cup {<<u, u>> : u \in Update("a", 1)}

MCProducerCalls == ScanInputs!MCCalls
MCSchema == FilterInputs!MCSchema
MCDocuments == FilterInputs!MCDocuments
MCValues == FilterInputs!MCValues
MCSnapshotPredicates == FilterInputs!MCSnapshotPredicates
MCDeltaPredicates == FilterInputs!MCDeltaPredicates

(* Every split function at the edges of its ranges and batches, and plans  *)
(* that branch over several cursors or change their promises on the way.   *)

(* A function whose first page has two cursors, both continued, and whose  *)
(* second page does or does not repeat the grouping of the first.          *)
BranchingPlan(agree) ==
    LET key == [rows |-> 1, type |-> "utf8", value |-> 1]
        page(ords, next, group) ==
            [SplitInputs!Outcome([i \in DOMAIN ords |->
                [SplitInputs!Planned(ords[i], SplitInputs!Span(ords[i], ords[i] + 1)) EXCEPT
                    !.key = IF group THEN key ELSE Absent]]) EXCEPT
                !.next = next,
                !.grouping = IF group THEN <<[col |-> "n", type |-> "utf8"]>> ELSE Absent]
    IN  SplitInputs!SplitFunction(5, [c \in 0..3 |->
            CASE c = 0 -> page(<<0>>, <<1, 2>>, TRUE)
              [] c = 1 -> page(<<1, 2>>, <<3>>, agree)
              [] c = 2 -> page(<<4>>, <<>>, TRUE)
              [] c = 3 -> page(<<3>>, <<>>, TRUE)])

PlainSplits ==
    {SplitInputs!SplitScan(sh, n, k) : sh \in {"Even", "NoSplits", "EmptyInterleaved"}, n \in {0, 3, 1030},
                           k \in {1, 4}}
    \cup {SplitInputs!SplitScan("Skewed", n, k) : n \in {0, 1, 210}, k \in 0..3}
    \cup {SplitInputs!SplitScan("Many", 3, k) : k \in {3, 5}} \cup {SplitInputs!SplitPaginated(0, 0)}
    \cup {SplitInputs!SplitScan(sh, n, 0) : sh \in {"Even", "EmptyInterleaved"}, n \in {0, 3}}
    \cup {SplitInputs!SplitPaginated(n, k) : n \in {0, 9}, k \in {3, 4, 5, 8}}
    \cup {SplitInputs!SplitStalePlan(3, 2), SplitInputs!SplitShortTtl(3, 2), SplitInputs!SplitEndlessCursor, BranchingPlan(TRUE), BranchingPlan(FALSE)}
    \cup {SplitInputs!SplitEchoFilters(k) : k \in {1, 3}} \cup {SplitInputs!SplitBatchIndex(n, k) : n \in {0, 130}, k \in {1, 2}}
    \cup {SplitInputs!SplitFailAt(20, 2, at, i) : at \in {-1, 0, 1}, i \in BOOLEAN}
    \cup {SplitInputs!SplitPartitioned(n, m, TRUE) : n \in {0, 2}, m \in {"valid", "missing", "two_rows", "wrong_type"}}
    \cup {SplitInputs!SplitDynamicFilter(6, 2), SplitInputs!SplitFunction(3, <<>>)}

CacheableSplits ==
    {SplitInputs!SplitCacheable(20, 2, p, k) : k \in {0, 1},
        p \in {"fresh", "not_modified", "mixed", "disagree", "revoke", "error", "zero_after_cold"}}

MCSplitCalls ==
    {[f |-> f, http |-> h, group |-> g, rebind |-> b, etag |-> FALSE] :
        f \in PlainSplits, h \in BOOLEAN, g \in {1, 2}, b \in BOOLEAN}
    \cup {[f |-> f, http |-> h, group |-> g, rebind |-> FALSE, etag |-> e] :
            f \in CacheableSplits, h \in BOOLEAN, g \in {1, 2}, e \in BOOLEAN}

(* Every table-in-out fixture over small batches: rows that fan out to     *)
(* none, some and more than a page, NULLs, negative numbers and an empty   *)
(* batch.                                                                  *)
S1 == "s1"
S2 == "s2"
MCSubstreams == {S1, S2}

Simple(f, args, columns) ==
    [f |-> f, args |-> args, columns |-> columns, keep |-> Len(columns), sdk |-> FALSE, filter |-> 0,
     streams |-> {S1}]

(* The same call under filter handling by the SDK.                         *)
Filtered(c, bound) == [c EXCEPT !.sdk = TRUE, !.filter = bound]

NoArguments == [none |-> 0]

Paged(page_size, fail, reval, bad304) ==
    [page_size |-> page_size, cache_ttl |-> 5, fail_on_page |-> fail, revalidate |-> reval,
     not_modified_more |-> bad304]

Narrow == {"substream_partial_sum", "multi_batch_finish"}
Wide == {"echo_witness", "slow_cancellable_inout", "cached_echo", "cached_serial_echo",
         "cached_finalizing_echo", "cached_reval_echo"}

MCInOutCalls ==
    {Simple(f, NoArguments, <<1, 2>>) : f \in {"echo", "blended_any_varargs"} \cup Wide}
    \cup {Simple(f, NoArguments, <<2>>) : f \in Wide \cup {"projectable_blended"}}
    \cup {[Simple("echo", NoArguments, <<2, 1>>) EXCEPT !.keep = 1, !.sdk = TRUE, !.filter = 1]}
    \cup {Filtered(Simple(f, NoArguments, <<1>>), 1) : f \in {"blended_explode", "cached_explode"}}
    \cup {Filtered(Simple("repeat_inputs", [repeat_count |-> 2], <<1, 2>>), 1)}
    \cup {Simple("repeat_inputs", [repeat_count |-> n], <<1, 2>>) : n \in {1, 2}}
    \cup {Simple("filter_by_setting", [threshold |-> 1], <<1, 2>>)}
    \cup {Simple("secret_in_out", [secret |-> 7], <<1, 2, 3>>)}
    \cup {Simple(f, [precision |-> p], <<1>>) : f \in {"geo_encode", "geo_encode3"}, p \in 1..2}
    \cup {Simple("row_sum", [absolute |-> a], <<1>>) : a \in BOOLEAN}
    \cup {Simple(f, NoArguments, <<1>>) : f \in {"blended_drop", "blended_explode", "blended_any",
                                               "cached_double", "cached_explode", "cached_reval_double"}}
    \cup {[Simple(f, NoArguments, <<1>>) EXCEPT !.streams = MCSubstreams] : f \in Narrow}
    \cup {Simple("cached_reval_policy", [policy |-> p], <<1, 2>>) :
              p \in {"error", "not_modified_no_store", "fresh_no_store", "transaction", "renew"}}
    \cup {Simple(f, Paged(p, 0, FALSE, FALSE), <<1>>) : f \in {"blended_paged", "paged_explode"}, p \in 0..3}
    \cup {Simple("blended_sliced", Paged(p, 0, FALSE, FALSE), <<1, 2>>) : p \in 1..3}
    \cup {Simple("blended_paged", Paged(2, 2, FALSE, FALSE), <<1>>),
          Filtered(Simple("blended_paged", Paged(2, 0, FALSE, FALSE), <<1>>), 1)}
    \cup {Simple("blended_paged", Paged(2, 0, TRUE, b), <<1>>) : b \in BOOLEAN}

MCInputBatches ==
    [f \in {c.f : c \in MCInOutCalls} |->
        IF f \in {"blended_paged", "paged_explode", "blended_sliced"}
        THEN {<<<<2, 0>>, <<0, 0>>, <<3, 0>>>>, <<<<Null, 0>>, <<1, 0>>>>, <<<<2, 0>>, <<2, 1>>, <<-1, 0>>, <<1, 0>>>>}
        ELSE {<<<<2, 15, 4>>, <<0, -25, 6>>>>, <<<<Null, 1, 0>>, <<1, 35, -5>>, <<3, 10, 0>>>>, <<>>}]

(* The variables of TableStream where another part is checked.             *)
NoStream ==
    env = 0 /\ pc = [s \in Streams |-> "new"] /\ state = 0 /\ queue = 0 /\ partials = 0 /\ log = 0 /\ got = 0 /\ client = 0 /\ owed = 0

MCInit ==
    \/ part = "stream" /\ Init /\ s1 = 0 /\ s2 = 0 /\ s3 = 0 /\ s4 = 0 /\ s5 = 0 /\ s6 = 0 /\ s7 = 0 /\ s8 = 0 /\ s9 = 0
    \/ part = "producer" /\ NoStream /\ Scan!ScanInit /\ s8 = 0 /\ s9 = 0
    \/ part = "split" /\ NoStream /\ Split!SplitInit /\ s6 = 0 /\ s7 = 0 /\ s8 = 0 /\ s9 = 0
    \/ part = "filter" /\ NoStream /\ Filter!ScanStart /\ s3 = 0 /\ s4 = 0 /\ s5 = 0 /\ s6 = 0 /\ s7 = 0 /\ s8 = 0 /\ s9 = 0
    \/ part = "in_out" /\ NoStream /\ InOut!InOutInit

StreamNext == part = "stream" /\ Next /\ UNCHANGED <<part, slots>>
ProducerNext == part = "producer" /\ Scan!ScanNext /\ UNCHANGED <<part, vars, s8, s9>>
SplitNext == part = "split" /\ Split!SplitNext /\ UNCHANGED <<part, vars, s6, s7, s8, s9>>
FilterNext == part = "filter" /\ Filter!ScanStep /\ UNCHANGED <<part, vars, s3, s4, s5, s6, s7, s8, s9>>
InOutNext == part = "in_out" /\ InOut!InOutNext /\ UNCHANGED <<part, vars>>

MCNext == StreamNext \/ ProducerNext \/ SplitNext \/ FilterNext \/ InOutNext

(* The streams by themselves.                                              *)
StreamSpec == part = "stream" /\ MCInit /\ [][StreamNext]_<<part, vars, slots>>

MCSpec ==
    /\ MCInit /\ [][MCNext]_<<part, vars, slots>>
    /\ \A s \in Streams :
          WF_vars(part = "stream" /\ (ProducerTurn(s, NoDelta, FALSE) \/ ExchangeTurn(s, NoDelta, FALSE)
                                      \/ Close(s)))

(* What the clients receive is what the function gives, batch by batch.    *)
StreamExactDelivery == part = "stream" => ExactDelivery

(* The filters rebuilt from a token are those that the deltas amount to.   *)
StreamFiltersSurvive == part = "stream" => FiltersSurvive

(* Every stream that was opened comes to an end.                           *)
StreamAllEnd == part = "stream" => StreamsEnd

(* A scan delivers what its function gives and what its batches declare.   *)
ScanFaithful == part = "producer" => Scan!ScanFaithful

(* The splits of a plan give the rows of the unsplit scan, each once, and  *)
(* a split is redeemed under the plan that the client read, or refused.    *)
SplitsExact == part = "split" => Split!SplitsExact

(* Pruning by pushed filters loses no row that they accept.                *)
PruningSound == part = "filter" => Filter!PruningSound

(* The client hands on for an input what the function makes of it.         *)
RepliesExact == part = "in_out" => InOut!RepliesExact

(* A finalize returns what the substreams left behind, once.               *)
FinalizeExact == part = "in_out" => InOut!FinalizeExact
=============================================================================
