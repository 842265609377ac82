------------------------------ MODULE HttpCall ------------------------------
(***************************************************************************)
(* The client's HTTP call: RetryTransport (retry.rs) around                *)
(* AuthenticatedHttpTransport (auth/http_auth.rs) around a worker, with    *)
(* one OAuthAuth (auth/catalog_auth.rs, auth/oauth.rs) for all threads.    *)
(*                                                                         *)
(* Durations are relative: `spent` is the time since a call began, `slept` *)
(* that of a device-code flow, in units of its poll interval.  A token     *)
(* grows old when the environment says so.  An access token and the        *)
(* refresh token issued with it have the same number.                      *)
(***************************************************************************)
EXTENDS Integers, FiniteSets, FiniteSetsExt

CONSTANTS Threads, Nil,
          MaxAttempts, MaxElapsed, BaseDelay, MaxDelay,  \* RetryPolicy
          RetryAfters,  \* what a Retry-After header may ask for
          FlowTimeout,  \* flow_timeout of OAuthAuth
          MethodsOf,    \* the methods each thread calls
          MaxCalls,     \* calls a thread makes
          MaxIssued     \* tokens the provider issues

VARIABLES auth,    \* the State under OAuthAuth's mutex
          th,      \* the threads
          issued,  \* the number of tokens issued so far
          valid,   \* the access token the worker accepts, if any
          grant,   \* the refresh token the provider accepts, if any
          fault    \* what has gone wrong so far, of Faults

httpVars == <<auth, th, issued, valid, grant, fault>>

\* At most one of: the answer to a refresh is lost, the worker refuses a token
\* before its time, the user calls clear().
Faults == {"lost", "revoked", "cleared"}

HttpConstants ==
    /\ Nil \notin Threads \cup Nat \cup Faults
    /\ {MaxAttempts, MaxElapsed, BaseDelay, MaxDelay, FlowTimeout} \subseteq Nat \ {0}
    /\ RetryAfters \subseteq Nat
    /\ {MaxCalls, MaxIssued} \subseteq Nat

TokenSet == [id : 1..MaxIssued, fresh : BOOLEAN]

IdleThread == [pc |-> "idle", calls |-> 0, method |-> Nil, attempt |-> 0, spent |-> 0,
         second |-> FALSE, bearer |-> Nil, out |-> Nil, applied |-> 0,
         chal |-> FALSE, rt |-> Nil, got |-> Nil, slept |-> 0, slower |-> 0, fails |-> 0]

HttpTypeOK ==
    /\ auth.phase \in {"idle", "in_progress", "complete", "failed"}
    /\ auth.tokens \in TokenSet \cup {Nil}
    /\ auth.refresh \in (0..MaxIssued) \cup {Nil}
    /\ auth.endpoints \in BOOLEAN
    /\ issued \in 0..MaxIssued
    /\ {valid, grant} \subseteq (0..MaxIssued) \cup {Nil}
    /\ \A t \in Threads : th[t].attempt \in 0..MaxAttempts

\* OAuthAuth::new, with or without with_refresh_token (the seed is number 0).
HttpInit ==
    /\ \E rt \in {0, Nil} :
         /\ auth = [phase |-> "idle", tokens |-> Nil, refresh |-> rt, endpoints |-> FALSE,
                    woken |-> {}]
         /\ grant \in {rt, Nil}
    /\ th = [t \in Threads |-> IdleThread]
    /\ issued = 0
    /\ valid = Nil
    /\ fault = Nil

GoTo(t, pc) == th' = [th EXCEPT ![t].pc = pc]

Others == <<issued, valid, grant, fault>>

-----------------------------------------------------------------------------
(* retry.rs                                                                *)

\* classify_error with classify_status: what one failure says about trying
\* again.  A refused credential reads as fatal.
Class(out) ==
    CASE out = "ok" -> "success"
      [] out = "429" -> "throttled"
      [] out \in {"502", "unavailable"} -> "transient"
      [] OTHER -> "fatal"

IsRetryable(class) == class \in {"throttled", "transient"}

\* The methods of the service whose names begin with "catalog_schema" and with
\* "catalog_table_".
SchemaReads ==
    {"catalog_schemas", "catalog_schema_get", "catalog_schema_option_definitions",
     "catalog_schema_contents_functions", "catalog_schema_contents_indexes", "catalog_schema_contents_macros",
     "catalog_schema_contents_tables", "catalog_schema_contents_views"}

SchemaChanges ==
    {"catalog_schema_create", "catalog_schema_drop", "catalog_schema_alter_metadata", "catalog_schema_alter_options"}

TableReads ==
    {"catalog_table_get", "catalog_table_option_definitions", "catalog_table_column_statistics_get",
     "catalog_table_scan_function_get", "catalog_table_scan_branches_get", "catalog_table_insert_function_get",
     "catalog_table_update_function_get", "catalog_table_delete_function_get"}

TableChanges ==
    {"catalog_table_create", "catalog_table_drop", "catalog_table_rename", "catalog_table_comment_set",
     "catalog_table_alter_layout", "catalog_table_alter_options", "catalog_table_constraints_apply",
     "catalog_table_column_add", "catalog_table_column_drop", "catalog_table_column_rename",
     "catalog_table_column_type_change", "catalog_table_column_comment_set", "catalog_table_column_default_set",
     "catalog_table_column_default_drop", "catalog_table_not_null_set", "catalog_table_not_null_drop"}

\* The methods that the comment on method_is_retryable calls deliberately
\* absent: they move session state or fold input into an accumulator.
Absent ==
    {"catalog_attach", "catalog_detach", "catalog_transaction_begin", "catalog_transaction_commit",
     "catalog_transaction_rollback", "aggregate_update", "table_buffering_process"}

Mut_MethodIsRetryable(m) == TRUE

\* The allowlist, and two prefixes.
MethodIsRetryable(m) ==
    \/ m \in {"bind", "table_function_plan", "catalog_catalogs", "catalog_version", "catalog_contents"}
    \/ m \in SchemaReads \cup SchemaChanges
    \/ m \in TableReads \cup TableChanges

\* The backoff window after a number of failures.
Window(attempt) == Min({BaseDelay * 2 ^ Min({attempt - 1, 16}), MaxDelay})

\* Full jitter over the window, on top of what the server asked for.
Delays(attempt, after) == {after + j : j \in 0..(Window(attempt) - 1)}

\* RetryPolicy::decide: for each jitter a delay, or Nil to stop because the
\* failure is final, the attempts are used up, or the budget would be.
Decide(class, attempt, spent, after) ==
    IF ~IsRetryable(class) \/ attempt >= MaxAttempts THEN {Nil}
    ELSE {IF spent + d >= MaxElapsed THEN Nil ELSE d : d \in Delays(attempt, after)}

-----------------------------------------------------------------------------
(* The call                                                                *)

\* call_unary of RetryTransport enters RetryPolicy::run.
Call(t, m) ==
    /\ th[t].pc = "idle"
    /\ th[t].calls < MaxCalls
    /\ th' = [th EXCEPT ![t] = [IdleThread EXCEPT !.pc = "ensure", !.calls = th[t].calls + 1,
                                            !.method = m, !.attempt = 1]]
    /\ UNCHANGED <<auth, Others>>

\* TokenSet::is_valid_at with SKEW.
IsValid(tokens) == tokens # Nil /\ tokens.fresh

\* OAuthAuth::bearer_token: none rather than an expired one, so that the 401
\* carries the challenge.
BearerToken == IF IsValid(auth.tokens) THEN auth.tokens.id ELSE Nil

EnsureClient(t) ==
    /\ th[t].pc = "ensure"
    /\ th' = [th EXCEPT ![t] = [@ EXCEPT !.pc = "sent", !.bearer = BearerToken]]
    /\ UNCHANGED <<auth, Others>>

Mut_WithRetry(out, second) == IF out = "401" THEN "unauthorized" ELSE "decide"

\* with_retry: only a first 401 is recovered from.
WithRetry(out, second) == IF out = "401" /\ ~second THEN "unauthorized" ELSE "decide"

\* fetch_challenge: the probe may find no WWW-Authenticate header.
FetchChallenge(pc) == IF pc = "unauthorized" THEN BOOLEAN ELSE {FALSE}

\* The worker and the proxies before it: a request without a valid credential
\* is refused; another one runs and is answered, or fails on the way back, or
\* is turned away before it runs.
Serve(t) ==
    /\ th[t].pc = "sent"
    /\ \E out \in {"ok", "error", "502", "429", "unavailable", "401"} :
         LET accepted == th[t].bearer # Nil /\ th[t].bearer = valid
             pc == WithRetry(out, th[t].second)
             runs == out \in {"ok", "error", "502"}
         IN  /\ IF accepted THEN out # "401" ELSE out \in {"401", "429", "unavailable"}
             /\ \E ran \in IF out = "502" THEN BOOLEAN ELSE {runs},
                   chal \in FetchChallenge(pc) :
                  th' = [th EXCEPT ![t] =
                           [@ EXCEPT !.pc = pc, !.chal = chal, !.out = Class(out), !.bearer = Nil,
                                     !.applied = IF ran THEN Min({th[t].applied + 1, 2})
                                                 ELSE th[t].applied]]
    /\ UNCHANGED <<auth, Others>>

\* The end of RetryPolicy::run, or its next turn; the time an attempt took is
\* read here.
Return(t) == [IdleThread EXCEPT !.calls = th[t].calls]

AfterAttempt(t) ==
    /\ th[t].pc = "decide"
    /\ \E now \in th[t].spent..MaxElapsed, after \in RetryAfters :
         \E v \in IF th[t].out = "success" \/ ~MethodIsRetryable(th[t].method) THEN {Nil}
                 ELSE Decide(th[t].out, th[t].attempt, now, after) :
             th' = [th EXCEPT ![t] =
                      IF v # Nil
                      THEN [@ EXCEPT !.pc = "ensure", !.attempt = th[t].attempt + 1, !.second = FALSE,
                                     !.out = Nil, !.spent = now + v]
                      ELSE Return(t)]
    /\ UNCHANGED <<auth, Others>>

-----------------------------------------------------------------------------
(* OAuthAuth: one exchange for all the threads that meet a 401             *)

Waiting == {t \in Threads : th[t].pc = "waiting"}

\* What only the exchange used is forgotten.
Forget(r) == [r EXCEPT !.chal = FALSE, !.rt = Nil, !.got = Nil, !.slept = 0, !.slower = 0,
                       !.fails = 0]

Fail(t) == th' = [th EXCEPT ![t] = [Forget(@) EXCEPT !.pc = "decide", !.out = "fatal"]]

Recovered(t) == th' = [th EXCEPT ![t] = [Forget(@) EXCEPT !.pc = "ensure", !.second = TRUE]]

Mut_HandleUnauthorized(t) ==
    /\ th[t].pc = "unauthorized"
    /\ \/ /\ auth.phase = "complete" /\ IsValid(auth.tokens)
          /\ Recovered(t)
          /\ UNCHANGED auth
       \/ /\ ~(auth.phase = "complete" /\ IsValid(auth.tokens))
          /\ auth' = [auth EXCEPT !.phase = "in_progress"]
          /\ GoTo(t, "acquire")
    /\ UNCHANGED Others

\* handle_unauthorized: wait for the leader, take its token, or become it.
HandleUnauthorized(t) ==
    /\ th[t].pc = "unauthorized"
    /\ \/ /\ auth.phase = "in_progress"
          /\ GoTo(t, "waiting")
          /\ UNCHANGED auth
       \/ /\ auth.phase = "complete" /\ IsValid(auth.tokens)
          /\ Recovered(t)
          /\ UNCHANGED auth
       \/ /\ auth.phase # "in_progress"
          /\ ~(auth.phase = "complete" /\ IsValid(auth.tokens))
          /\ auth' = [auth EXCEPT !.phase = "in_progress"]
          /\ GoTo(t, "acquire")
    /\ UNCHANGED Others

\* wait_timeout returns because it was notified, or because 180 s are over.
Wake(t) ==
    /\ th[t].pc = "waiting"
    /\ IF t \in auth.woken \/ auth.phase # "in_progress"
       THEN GoTo(t, "unauthorized")
       ELSE Fail(t)
    /\ auth' = [auth EXCEPT !.woken = @ \ {t}]
    /\ UNCHANGED Others

\* acquire: from the state it read, what the leader does next.
Exchange(rt) == IF rt # Nil THEN "refresh" ELSE "poll"

Acquire(t) ==
    /\ th[t].pc = "acquire"
    /\ th' = [th EXCEPT ![t] =
                 [@ EXCEPT !.rt = auth.refresh,
                           !.pc = IF auth.endpoints THEN Exchange(auth.refresh)
                                  ELSE IF th[t].chal THEN "discover" ELSE "failed"]]
    /\ UNCHANGED <<auth, Others>>

\* discover reads the resource metadata and the issuer's, and either may be
\* missing or say too little.
Discover(t) ==
    /\ th[t].pc = "discover"
    /\ \/ GoTo(t, "failed") /\ UNCHANGED auth
       \/ GoTo(t, Exchange(th[t].rt)) /\ auth' = [auth EXCEPT !.endpoints = TRUE]
    /\ UNCHANGED Others

\* The provider issues an access token that replaces the last one, and a refresh
\* token with it or not; parse_token_response then carries `old` forward.
Issue(t, rotate, old) ==
    /\ issued < MaxIssued
    /\ issued' = issued + 1
    /\ valid' = issued + 1
    /\ grant' = IF rotate THEN issued + 1 ELSE grant
    /\ th' = [th EXCEPT ![t] = [@ EXCEPT !.pc = "publish", !.got = issued + 1,
                                         !.rt = IF rotate THEN issued + 1 ELSE old]]

\* refresh: new tokens, or invalid_grant, after which the device-code flow is
\* the only way left, or another failure.  A provider that rotates refresh
\* tokens has done so even when its answer is lost.
Refresh(t) ==
    /\ th[t].pc = "refresh"
    /\ \/ /\ th[t].rt = grant
          /\ \E rotate \in BOOLEAN : Issue(t, rotate, th[t].rt)
          /\ UNCHANGED <<auth, fault>>
       \/ /\ fault = Nil
          /\ fault' = "lost"
          /\ grant' = Nil
          /\ GoTo(t, "failed")
          /\ UNCHANGED <<auth, issued, valid>>
       \/ /\ th[t].rt # grant
          /\ GoTo(t, "poll")
          /\ auth' = [auth EXCEPT !.refresh = Nil]
          /\ UNCHANGED Others
       \/ /\ GoTo(t, "failed")
          /\ UNCHANGED <<auth, Others>>

\* The time in a device-code flow after the next sleep.
Slept(t) == th[t].slept + 1 + th[t].slower

Continue(t, fails, slower) ==
    th' = [th EXCEPT ![t] = [@ EXCEPT !.slept = Slept(t), !.fails = fails, !.slower = slower]]

\* device_code_flow: a failed device authorization request, or one turn of the
\* polling loop after its sleep.  An answer of any status
\* resets the count of failures before a 5xx adds to it.
Poll(t) ==
    /\ th[t].pc = "poll"
    /\ UNCHANGED <<auth, fault>>
    /\ \/ Slept(t) >= FlowTimeout /\ GoTo(t, "failed") /\ UNCHANGED <<issued, valid, grant>>
       \/ /\ Slept(t) < FlowTimeout
          /\ \/ \E rotate \in BOOLEAN : Issue(t, rotate, Nil)
             \/ /\ UNCHANGED <<issued, valid, grant>>
                /\ \/ Continue(t, 0, th[t].slower)            \* authorization_pending
                   \/ Continue(t, 0, th[t].slower + 1)        \* slow_down, 429
                   \/ Continue(t, 1, th[t].slower)            \* 5xx
                   \/ /\ th[t].fails + 1 <= 3            \* no answer
                      /\ Continue(t, th[t].fails + 1, th[t].slower)
                   \/ GoTo(t, "failed")                    \* any other error

\* The leader's last step: publish the tokens and wake the others...
Publish(t) ==
    /\ th[t].pc = "publish"
    /\ auth' = [auth EXCEPT !.phase = "complete", !.woken = Waiting,
                            !.tokens = [id |-> th[t].got, fresh |-> TRUE],
                            !.refresh = IF th[t].rt # Nil THEN th[t].rt ELSE @]
    /\ Recovered(t)
    /\ UNCHANGED Others

\* ... or the failure.
PublishFailure(t) ==
    /\ th[t].pc = "failed"
    /\ auth' = [auth EXCEPT !.phase = "failed", !.woken = Waiting]
    /\ Fail(t)
    /\ UNCHANGED Others

\* clear: a logout.
Clear ==
    /\ fault = Nil
    /\ fault' = "cleared"
    /\ auth' = [auth EXCEPT !.phase = "idle", !.tokens = Nil, !.refresh = Nil,
                            !.woken = Waiting]
    /\ UNCHANGED <<th, issued, valid, grant>>

\* The stored token comes within SKEW of its end, or passes it.
Age ==
    /\ IsValid(auth.tokens)
    /\ auth' = [auth EXCEPT !.tokens.fresh = FALSE]
    /\ valid' \in {valid, Nil}
    /\ UNCHANGED <<th, issued, grant, fault>>

\* The worker stops accepting its tokens.
Revoke ==
    /\ fault = Nil
    /\ fault' = "revoked"
    /\ valid' = Nil
    /\ UNCHANGED <<auth, th, issued, grant>>

\* What a thread does by itself: it computes, sleeps for a bounded time, or waits
\* at most 180 s for another thread.
OwnStep(t) ==
    \/ EnsureClient(t) \/ AfterAttempt(t) \/ HandleUnauthorized(t) \/ Wake(t)
    \/ Acquire(t) \/ Publish(t) \/ PublishFailure(t)

\* What ends when the worker or the provider answers: the RPC has a deadline
\* only if its client was given one, and the requests to the provider have none.
Answered(t) == Serve(t) \/ Discover(t) \/ Refresh(t) \/ Poll(t)

Step(t) == OwnStep(t) \/ Answered(t)

HttpNext ==
    \/ \E t \in Threads : Step(t) \/ \E m \in MethodsOf[t] : Call(t, m)
    \/ Clear \/ Age \/ Revoke

HttpSpec == HttpInit /\ [][HttpNext]_httpVars

\* A thread that need not wait for an answer keeps running.
HttpFairSpec == HttpSpec /\ \A t \in Threads : WF_httpVars(OwnStep(t))

-----------------------------------------------------------------------------
(* Properties                                                              *)

\* A method that moves session state or folds input into an accumulator runs at
\* most once per call, whatever the proxies and the credential recovery do to
\* the call: an answer lost after it ran is the caller's error
\* (method_is_retryable, with_retry).
AtMostOnce ==
    \A t \in Threads : th[t].method \in Absent => th[t].applied <= 1


Leaders == {t \in Threads : th[t].pc \in {"acquire", "discover", "refresh", "poll",
                                          "publish", "failed"}}

\* However many threads meet a 401 together, one of them talks to the
\* provider, whatever fails or is lost, unless the user logs out meanwhile: then
\* a second exchange may begin beside the first.  So a rotating refresh token is
\* never presented twice: if moreover no answer of the provider was lost, the
\* stored one is good whenever no exchange is under way, and so is the one being
\* exchanged (handle_unauthorized, "Single-flight: the first caller becomes the
\* leader").
OneExchange ==
    /\ fault # "cleared" => \A t, u \in Leaders : t = u
    /\ fault \in {Nil, "revoked"} =>
        /\ issued > 0 /\ Leaders = {} /\ auth.refresh # Nil => auth.refresh = grant
        /\ \A t \in Leaders : issued > 0 /\ th[t].pc = "refresh" => th[t].rt = grant

\* A thread waits for the answer to a request of its own.
Asking(t) == th[t].pc \in {"sent", "discover", "refresh", "poll"}
=============================================================================
