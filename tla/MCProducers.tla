---------------------------- MODULE MCProducers ----------------------------
(***************************************************************************)
(* Every table function of the example worker, with arguments at the edges *)
(* of its batches, over both transports, under three projections.          *)
(***************************************************************************)
EXTENDS Producers

A(n) == [NoArgs EXCEPT !.n = n]
AB(n, b) == [NoArgs EXCEPT !.n = n, !.batch = b]
Ns == {A(n) : n \in {None, -1, 0, 1}}

Generators ==
    {SequenceFunction(a) : a \in {A(n) : n \in {None, Null, -1, 0, 1, 1000, 1001}}
        \cup {[AB(5, b) EXCEPT !.inc = 3] : b \in {0, 1, 2}}}
    \cup {ProfilingDemoFunction([AB(n, 2) EXCEPT !.ttl = t]) : n \in {0, 2, 5}, t \in {None, 60}}
    \cup {LateMaterializationFunction(AB(n, 2)) : n \in {0, 3}}
    \cup {TxCachedValueFunction([A(7) EXCEPT !.stop = v]) : v \in {None, 5}}
    \cup {NestedSequenceFunction(a) : a \in Ns} \cup {TenThousandFunction(NoArgs)}
    \cup {MakeSeries(v, [A(2) EXCEPT !.stop = s, !.inc = 2]) : v \in {"Count", "Range", "Step"},
                                                              s \in {0, 2, 7, 1027}}
    \cup {MakeSeriesCsv(a) : a \in {A(0), A(3)}} \cup {MakeSeriesFloat(NoArgs)}

More ==
    {GeneratorExceptionFunction(a) : a \in Ns} \cup {LoggingGeneratorFunction(a) : a \in Ns}
    \cup {ConstantColumnsFunction(a) : a \in {A(0), A(2049)}}
    \cup {ProjectedDataFunction(a) : a \in {A(0), A(1000), A(1001)}}
    \cup {OrderEchoFunction(a) : a \in {AB(3, 2), AB(0, 1)}}
    \cup {SampleEchoFunction(a) : a \in {AB(3, 2), AB(0, 1)}}
    \cup {DoubleSequenceFunction([AB(n, 2) EXCEPT !.inc = i]) : n \in {None, 0, 3}, i \in {-2, 1}}
    \cup {MakePairs(v, [A(3) EXCEPT !.stop = s]) : v \in {"Int", "Str"}, s \in {1, 3, 5}}
    \cup {UnionVarargsFunction(A(3)), RepeatValue(A(3)), SlowCancellableFunction(A(2))}
    \cup {ProjectionSequence(o, a) : o \in {<<"other">>, <<"cast_n_bigint_utc">>},
                                     a \in {A(None), A(1)}}
    \cup {ProjRepro(c, A(n)) : c \in {0, 2}, n \in {0, 3}}
    \cup {TypedProbeFunction(A(n)) : n \in {0, 2049}}

Scans ==
    {PartitionedBatchIndexFunction(A(n)) : n \in {0, 1000, 2001}}
    \cup {PartitionedBatchIndexMarkedFunction([A(5) EXCEPT !.chunk = c]) : c \in {0, 2}}
    \cup {PartitionedBatchIndexMarkedFunction([A(2600) EXCEPT !.chunk = 1300])}
    \cup {BrokenBatchIndexFunction(m, A(2)) : m \in {"Missing", "NonMonotone", "Overflow"}}
    \cup {QueueSeqFunction(p, h, [A(2500) EXCEPT !.inc = 2]) : p \in {None, 2}, h \in BOOLEAN}
    \cup {PartitionFunction(k, AB(2, r)) : k \in {"CountrySales", "TrailingSales", "RegionYear",
                                                  "Override", "Disjoint", "Overlapping"},
                                           r \in {1, 600}}
    \cup {BrokenPartitionFunction(m) : m \in {"NoPv", "MinNeqMax", "NoAnnotation", "AbsentColumn"}}
    \cup FixtureScans \cup RegisterVersionedTables
    \cup {RowIdSequenceFunction(l, "int64", A(3)) : l \in {"first", "middle", "last", "other"}}
    \cup {VersionedDataScan(v) : v \in 1..3} \cup {VersionedConstraintsScan(v) : v \in 1..3}
    \cup {TimeTravelPushdownFunction(None, None), TimeTravelPushdownFunction("VERSION", 1),
          TimeTravelPushdownFunction("VERSION", 3), TimeTravelPushdownFunction("TIMESTAMP", 2020)}
    \cup {TtPushdownColsScanFunction(A(v)) : v \in {None, 1, 2}}
    \cup {RffScan(s) : s \in {"simple", "struct", "nested", "multi"}} \cup {RffRowidScan}
    \cup {SecretDemoFunction(k) : k \in {0, 2}} \cup {ScopedSecretDemoFunction, MultiSecretDemoFunction}
    \cup {SettingsAwareFunction(v, A(2)) : v \in BOOLEAN} \cup {StructSettingsFunction(4, 2, A(3))}

Cached ==
    {CacheableNumbersFunction(a) : a \in {A(0), A(1001)}} \cup {CacheNoStoreFunction(A(2001))}
    \cup {CacheBigFunction(NoArgs), CacheBenchFunction(A(2049)), CacheFilteredFunction(NoArgs),
          CacheTypesFunction(A(2049)), CacheNonceFunction(9), CacheMultiColFunction(NoArgs),
          CacheWhoamiFunction, CacheProjectionFunction, CachePoisonFunction,
          CacheExternalFailFunction}
    \cup {CacheVersionedFunction(A(v)) : v \in 1..3} \cup {CacheScopedTxnFunction(A(n)) : n \in {3, 1001}}
    \cup {CacheRevalidatableFunction(h) : h \in {None, "v1"}}
    \cup {CacheRevalidationPolicyFunction(m, c, h) : c \in 1..3, h \in {None, "v1"},
            m \in {"revoke", "rotate_then_error", "revoke_then_error", "stale_if_error"}}
    \cup {CacheParallelFunction(AB(n, 1)) : n \in {0, 3}}
    \cup {CacheOrderedFunction([A(n) EXCEPT !.chunk = 300]) : n \in {0, 700}}
    \cup {CachePartitionedFunction(A(r)) : r \in {0, 2}} \cup {CachePartitionScopeFunction(A(2))}
    \cup {CachePartitionMultiColFunction(A(2)), CachePartitionProjFunction(A(2)),
          CachePartitionParallelFunction(A(2))}

Filtered ==
    {FilterEchoTableScan, FilterEchoPartitionedFunction(A(0)), FilterEchoPartitionedFunction(A(3)),
     ValuePruneFunction(2, AB(5, 1)), ValuePruneFunction(0, A(5))}
    \cup UNION {{SpatialFilterExampleFunction(AB(n, 2)), ExpressionFilterTestFunction(AB(n, 2)),
                 DynamicFilterEchoFunction(AB(n, 2)), FilterEchoFunction(AB(n, 2)),
                 BoolFilterEchoFunction(A(n))} : n \in {None, 0, 3}}
    \cup {DictFilterEchoFunction(A(2049)), FilteredColumnsEchoFunction(A(1025)),
          NamedParamsEchoFunction(A(2049))}

(* No projection, the last column alone, the columns in reverse order.     *)
IdsOf(f) ==
    IF ~f.project THEN {<<>>}
    ELSE LET k == Len(f.cols) IN {<<>>, <<k - 1>>, [i \in 1..k |-> k - i]}

MCCalls ==
    UNION {{[f |-> f, http |-> h, ids |-> ids] : h \in BOOLEAN, ids \in IdsOf(f)} :
            f \in Generators \cup More \cup Scans \cup Cached \cup Filtered}
=============================================================================
