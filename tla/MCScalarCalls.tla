---------------------------- MODULE MCScalarCalls ----------------------------
(***************************************************************************)
(* Calls of every scalar fixture: each overload, each promotion rule, NULL *)
(* rows, the edges of the integer widths and constants on both sides of    *)
(* their bounds.                                                           *)
(***************************************************************************)
EXTENDS ScalarCalls

Col(t) == [const |-> FALSE, type |-> t, value |-> None]
Con(t, v) == [const |-> TRUE, type |-> t, value |-> v]
Num(v) == Con(Int64, v)
Str(v) == Con(Utf8, v)

CallOf(name, sql, rows) ==
    [name |-> name, sql |-> sql, rows |-> rows, names |-> <<>>,
     secrets |-> {}]

(* Calls listed one by one.                                                *)
Each(calls) == [i \in DOMAIN calls |-> {calls[i]}]

Ints == {<<"int8">>, <<"int32">>, <<"int64">>, <<"uint8">>, <<"uint64">>}
Edges(t) == {Lowest(t), Highest(t), 1}

Decimals == {<<"decimal", 1, 0>>, <<"decimal", 2, 0>>, <<"decimal", 2, 1>>, <<"decimal", 3, 0>>, <<"decimal", 3, 2>>}
Digits(t) == {10^t[2] - 1, 1 - 10^t[2], 1}

Arithmetic ==
    <<{CallOf("double", <<Col(t)>>, <<<<Lowest(t)>>, <<None>>, <<Highest(t)>>>>) : t \in Ints}>>
    \o <<{CallOf("double", <<Col(t)>>, <<<<x>>, <<None>>, <<1>>>>) : t \in Decimals, x \in {9, 500}}>>
    \o <<{CallOf("double", <<Col(t)>>, <<<<7>>, <<None>>, <<-99>>>>) : t \in {Float64, <<"float32">>, <<"date">>}}>>
    \o <<{CallOf(f, <<Col(t), Col(u)>>, <<<<x, y>>, <<None, y>>>>) :
              f \in {"add_values", "sum_values"}, t \in Ints, u \in Ints, x \in {1, 127}, y \in {1, 127}}>>
    \o <<UNION {{CallOf("add_values", <<Col(t), Col(t)>>, <<<<x, y>>>>) : x \in Edges(t), y \in Edges(t)} : t \in Ints}>>
    \o <<UNION {{CallOf(f, <<Col(t), Col(u)>>, <<<<x, y>>>>) : x \in Digits(t), y \in Digits(u)} :
              f \in {"add_values", "sum_values"}, t \in Decimals, u \in Decimals}>>
    \o <<{CallOf(f, <<Col(t), Col(u)>>, <<<<150, -3>>, <<1, None>>>>) :
              f \in {"add_values", "sum_values"}, t \in {Int64, Float64, <<"decimal", 3, 1>>}, u \in {<<"decimal", 2, 1>>, Float64, <<"date">>}}>>
    \o <<{CallOf(f, <<Col(<<"date">>), Col(<<"date">>)>>, <<<<3, 5>>>>) : f \in {"add_values", "sum_values"}}>>
    \o Each(<<CallOf("double", <<Col(Utf8)>>, <<<< <<"a">> >>>>),
          CallOf("sum_values", <<>>, <<<<>>>>),
          CallOf("sum_values", <<Col(<<"int8">>), Col(<<"int8">>), Col(<<"int64">>)>>,
                 <<<<127, 127, 127>>, <<1, None, 2>>, <<1, 1, 8000>>>>),
          CallOf("sum_values", <<Col(Int64), Col(Int64)>>, <<<<8000, 8000>>>>),
          CallOf("concat_values", <<Col(Int64), Col(Int64)>>, <<<<2, 3>>, <<4, 3>>, <<8191, 3>>>>),
          CallOf("concat_values", <<Col(<<"int32">>)>>, <<<<2>>>>),
          CallOf("concat_values", <<Col(Utf8), Col(Utf8)>>, <<<<<<"a">>, <<"b">>>>, <<None, <<"b">>>>>>),
          CallOf("concat_values", <<Col(Bool)>>, <<<<1>>>>),
          CallOf("multiply", <<Col(Int64), Num(3)>>, <<<<8191>>, <<None>>, <<2>>>>),
          CallOf("collatz_steps", <<Col(Int64)>>, <<<<7>>, <<0>>, <<None>>>>)>>)

Strings ==
    <<{CallOf(f, <<Col(Utf8)>>, <<<< <<"a", "b">> >>, <<None>>, <<<<>>>>>>) :
         f \in {"passthru", "sha256_hex", "upper_case"}}>>
    \o <<{CallOf("hash_rounds", <<Col(Utf8), Num(k)>>, <<<< <<"a">> >>, <<None>>>>) : k \in {-1, 0, 2}}>>
    \o Each(<<CallOf("binary_packet",
                 <<Con(Binary, <<1>>), Col(Binary), Con(ConfigType, [label |-> <<"l">>, version |-> 258])>>,
                 <<<< <<7, 8>> >>, <<None>>>>),
          CallOf("null_handling", <<Col(Int64)>>, <<<<None>>, <<-5000>>, <<4>>>>),
          CallOf("conditional_message", <<Num(2), Str(<<"m">>), Col(Bool)>>, <<<<1>>, <<0>>, <<None>>>>),
          CallOf("conditional_message", <<Num(-2), Str(<<"m">>), Col(Bool)>>, <<<<1>>>>)>>)

Seeded ==
    Each(<<CallOf("hash_seed", <<Num(5)>>, <<<<>>, <<>>, <<>>>>),
     CallOf("query_seed", <<Col(Int64)>>, <<<<1>>, <<None>>, <<8000>>>>),
     CallOf("bernoulli", <<>>, <<<<>>, <<>>>>),
     CallOf("random_int", <<Col(Int64), Col(Int64)>>, <<<<1, 3>>, <<3, 1>>, <<None, 2>>>>),
     CallOf("random_bytes", <<Num(5), Num(2)>>, <<<<>>, <<>>>>),
     CallOf("random_bytes", <<Num(5), Num(-1)>>, <<<<>>>>)>>)

Overloaded ==
    <<{CallOf("type_info", <<Col(t)>>, <<<<1>>, <<None>>>>) :
         t \in {<<"int32">>, Int64, <<"uint32">>, <<"uint64">>, <<"int8">>, Float64}}>>
    \o Each(<<CallOf("type_info", <<Col(Utf8)>>, <<<< <<"a">> >>>>)>>)
    \o <<{CallOf("pair_type", <<Col(t), Col(u)>>, <<<<None, None>>, <<<<1>>, <<2>>>>>>) :
             t \in {Int64, Utf8}, u \in {Int64, Utf8, <<"int32">>}}>>
    \o <<{CallOf("any_mixed", <<Col(t), Col(u)>>, <<<<None, None>>, <<4, 4>>>>) :
             t \in {Int64, Float64}, u \in {Int64, Utf8, Bool}}>>
    \o Each(<<CallOf("format_number", <<Col(Float64)>>, <<<<10>>, <<None>>, <<6>>>>),
          CallOf("format_number", <<Num(1), Str(<<"$">>), Col(Float64)>>, <<<<9>>, <<-3>>>>),
          CallOf("smart_format", <<Num(6), Col(Float64)>>, <<<<9>>, <<None>>>>),
          CallOf("smart_format", <<Str(<<"$">>), Col(Int64)>>, <<<<9>>>>),
          CallOf("smart_format", <<Con(Bool, 1), Col(Int64)>>, <<<<9>>>>)>>)
    \o <<{CallOf("format_number", <<Num(p), Col(Float64)>>, <<<<9>>, <<None>>>>) : p \in {-1, 0, 2, 10, 11}}>>

(* The engine's point types name their child fields differently.           *)
Points ==
    <<{CallOf(f, <<Col(t), Col(t)>>,
            <<<<<<0, 0>>, <<3, 4>>>>, <<None, <<1, 1>>>>, <<<<1, None>>, <<1, 1>>>>>>) :
         f \in {"geo_distance_list", "geo_centroid_list"}, t \in {<<"list", Float64, "l">>}}>>
    \o <<{CallOf(f, <<Col(point_struct_type), Col(point_struct_type)>>, <<<<<<0, 0>>, <<3, 4>>>>>>) :
             f \in {"geo_distance_struct", "geo_centroid_struct"}}>>
    \o <<{CallOf(f, <<Col(fixed_f64), Col(fixed_f64)>>, <<<<<<0, 0>>, <<3, 4>>>>>>) :
             f \in {"geo_distance_fixed", "geo_centroid_fixed"}}>>
    \o Each(<<CallOf("geo_distance_list", <<Col(list_f64), Col(list_f64)>>, <<<<<<1>>, <<3, 4>>>>>>)>>)

Secret == [type |-> "vgi_example", fields |-> [port |-> "8080", secret_string |-> "s"]]
Contextual ==
    <<{[CallOf(f, <<>>, <<<<>>, <<>>>>) EXCEPT !.secrets = s] :
         f \in {"return_secret_value", "secret_field"}, s \in {{}, {Secret}}}>>
    \o <<{CallOf(f, <<Col(t)>>, <<<<5>>, <<None>>>>) :
             f \in {"whoami", "multiply_by_setting", "scale_by_setting"}, t \in {Int64, Float64}}>>
    \o <<{[CallOf("argument_names_probe", <<Col(Int64), Col(Int64), Num(k)>>, <<<<1, 2>>, <<None, 3>>>>)
              EXCEPT !.names = n] : k \in {2, 5}, n \in {<<"left", "right", "scale">>, <<>>}}>>

Cached ==
    <<{CallOf(f, <<Col(t)>>, <<<<4>>, <<None>>, <<8191>>>>) :
         t \in {Int64, <<"uint64">>}, f \in {"cached_double_scalar", "cached_reval_double_scalar", "cached_label", "test_same_name_bind"}}>>
    \o Each(<<CallOf("cached_add_const", <<Col(Int64), Num(3)>>, <<<<4>>, <<None>>>>)>>)
    \o <<{CallOf("cached_reval_policy_scalar", <<Col(Int64), Str(<<p>>)>>, <<<<4>>, <<5>>, <<None>>>>) :
             p \in {"error", "not_modified_no_store", "fresh_no_store", "transaction", "other"}}>>

MCCalls == Arithmetic \o Strings \o Seeded \o Overloaded \o Points \o Contextual \o Cached
=============================================================================
