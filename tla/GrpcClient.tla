----------------------------- MODULE GrpcClient ------------------------------
(***************************************************************************)
(* Google::gRPC::Client->call and the Google::gRPC::ChannelPool it draws   *)
(* its subchannels from: round robin, retries with capped exponential      *)
(* backoff, and the pool's metrics.                                        *)
(*                                                                         *)
(* A unary call goes out through Net::Curl, one request per attempt, each  *)
(* to the next subchannel; a stream goes through the subchannel's engine.  *)
(* Sizes are counted in frames.                                            *)
(***************************************************************************)
EXTENDS Naturals, Sequences, FiniteSets, FiniteSetsExt, Functions

CONSTANTS
    resolved_ips,     \* the pool's addresses: [host, form]
    max_retries,
    initial_backoff,
    max_backoff,
    backoff_factor,
    MaxPicks,         \* bound: subchannels picked in a behaviour
    MaxFrames,        \* bound: frames recorded between two resets
    Undef

(* The forms of an address: bare; "bracketed", [host]:port; and "ported", a *)
(* dotted host:port, whose colon makes _init_pool take it for IPv6 and     *)
(* wrap it in brackets.                                                    *)
ASSUME GrpcClientAssumption ==
    /\ Len(resolved_ips) \in Nat \ {0}
    /\ \A i \in 1 .. Len(resolved_ips) :
          /\ resolved_ips[i] = [host |-> resolved_ips[i].host, form |-> resolved_ips[i].form]
          /\ resolved_ips[i].form \in {"bare", "bracketed", "ported"}
    /\ max_retries \in Nat
    /\ initial_backoff \in Nat
    /\ max_backoff \in Nat
    /\ backoff_factor \in Nat

Subchannels == 1 .. Len(resolved_ips)

(* The target of a subchannel, in the form _init_pool gives it. *)
Target(i) ==
    [host |-> resolved_ips[i].host,
     form |-> CASE resolved_ips[i].form = "bare" -> "ported"
                [] resolved_ips[i].form = "bracketed" -> "bracketed"
                [] resolved_ips[i].form = "ported" -> "wrapped"]

(* _extract_ip_key: the bare host, but for an address wrapped in brackets,  *)
(* which matches no pattern and is the key itself.                         *)
Extract(key) ==
    [host |-> key.host, form |-> IF key.form = "wrapped" THEN "wrapped" ELSE "bare"]

(* The key an entry is made under, and the one it is recorded under. *)
GivenKey(i) == resolved_ips[i]
ExtractKey(i) == Extract(Target(i))
Keys == {GivenKey(i) : i \in Subchannels} \cup {ExtractKey(i) : i \in Subchannels}

VARIABLES
    rr_index,   \* the pool's round robin counter
    metrics,    \* the pool's metrics, by key
    pc,         \* where call is: idle, performing, sleeping
    attempt,    \* call's attempt counter
    backoff,    \* call's next sleep
    via,        \* the subchannel of the current attempt
    outcome,    \* history: how the last call ended, and its last reply
    tried,      \* history: the subchannels the call has tried
    slept,      \* history: the call's longest sleep
    picks,      \* history: how often each subchannel was picked
    streamed    \* history: requests put on each subchannel's streams

call_vars == <<pc, attempt, backoff, via, outcome, tried, slept>>
pool_vars == <<rr_index, metrics, picks, streamed>>
client_vars == <<call_vars, pool_vars>>

(* What an attempt gets back: a libcurl error, a 503 or 504, a grpc-status, *)
(* and whether the body holds a message.                                    *)
Reply == [curl_err: BOOLEAN, unavailable: BOOLEAN, grpc_status: {0, 13, 14},
          framed: BOOLEAN]

ZeroMetrics == [requests |-> 0, bytes_sent |-> 0, bytes_received |-> 0, total_bytes |-> 0]
ZeroCount == [i \in Subchannels |-> 0]
NoOutcome == [is |-> "none", attempts |-> 0, reply |-> Undef, tried |-> {}]

ClientTypeOK ==
    /\ rr_index \in Nat
    /\ DOMAIN metrics \subseteq Keys
    /\ \A k \in DOMAIN metrics :
          metrics[k] \in [requests: Nat, bytes_sent: Nat, bytes_received: Nat,
                          total_bytes: Nat]
    /\ pc \in {"idle", "performing", "sleeping"}
    /\ attempt \in 0 .. max_retries + 1
    /\ backoff \in Nat
    /\ via \in Subchannels \cup {Undef}
    /\ outcome \in [is: {"none", "response", "croak"}, attempts: Nat,
                    reply: Reply \cup {Undef}, tried: SUBSET Subchannels]
    /\ tried \in SUBSET Subchannels
    /\ slept \in Nat
    /\ \A count \in {picks, streamed} : count \in [Subchannels -> Nat]

(* _init_pool: one subchannel and one metrics entry per address. *)
ClientInit ==
    /\ rr_index = 0
    /\ metrics = [k \in {GivenKey(i) : i \in Subchannels} |-> ZeroMetrics]
    /\ pc = "idle"
    /\ attempt = 0
    /\ backoff = 0
    /\ via = Undef
    /\ outcome = NoOutcome
    /\ tried = {}
    /\ slept = 0
    /\ picks = ZeroCount
    /\ streamed = ZeroCount

-----------------------------------------------------------------------------
(* ChannelPool. *)

(* Faulty variant: the counter starts over at the second subchannel.       *)
Faulty_get_channel(i) ==
    /\ i = (rr_index % Len(resolved_ips)) + 1
    /\ rr_index' = IF i = Len(resolved_ips) THEN 1 ELSE rr_index + 1
    /\ picks' = [picks EXCEPT ![i] = @ + 1]

get_channel(i) ==
    /\ i = (rr_index % Len(resolved_ips)) + 1
    /\ rr_index' = rr_index + 1
    /\ picks' = [picks EXCEPT ![i] = @ + 1]

(* A record under a key that is not there yet starts a new entry. *)
Entry(key) == IF key \in DOMAIN metrics THEN metrics[key] ELSE ZeroMetrics

WithEntry(key, entry) ==
    [k \in DOMAIN metrics \cup {key} |-> IF k = key THEN entry ELSE metrics[k]]

(* Faulty variant: a new entry is made and the request is not counted.     *)
Faulty_record_request(key, frames) ==
    metrics' = WithEntry(key, IF key \in DOMAIN metrics
                              THEN [metrics[key] EXCEPT !.requests = @ + 1,
                                        !.bytes_sent = @ + frames,
                                        !.total_bytes = @ + frames]
                              ELSE ZeroMetrics)

record_request(key, frames) ==
    metrics' = WithEntry(key, [Entry(key) EXCEPT !.requests = @ + 1,
                                   !.bytes_sent = @ + frames,
                                   !.total_bytes = @ + frames])

record_response(key, frames) ==
    metrics' = WithEntry(key, [Entry(key) EXCEPT !.bytes_received = @ + frames,
                                   !.total_bytes = @ + frames])

(* get_metrics: the entry of the key as it is, else of what is taken out of *)
(* it.                                                                     *)
get_metrics(key) ==
    IF key \in DOMAIN metrics THEN metrics[key]
    ELSE IF Extract(key) \in DOMAIN metrics THEN metrics[Extract(key)]
    ELSE Undef

Recorded == MapThenSumSet(LAMBDA k : metrics[k].total_bytes, DOMAIN metrics)

(* create_stream of the pool, with or without a request to send at once.     *)
pool_create_stream(i, frames) ==
    /\ pc = "idle"
    /\ rr_index < MaxPicks
    /\ get_channel(i)
    /\ record_request(ExtractKey(i), frames)
    /\ streamed' = [streamed EXCEPT ![i] = @ + 1]
    /\ UNCHANGED call_vars

(* A message is written to, or arrives on, a stream of subchannel i. *)
stream_write_message(i) ==
    /\ pc = "idle"
    /\ picks[i] > 0
    /\ Recorded < MaxFrames
    /\ record_request(ExtractKey(i), 1)
    /\ streamed' = [streamed EXCEPT ![i] = @ + 1]
    /\ UNCHANGED <<call_vars, rr_index, picks>>

on_message(i) ==
    /\ pc = "idle"
    /\ picks[i] > 0
    /\ Recorded < MaxFrames
    /\ record_response(ExtractKey(i), 1)
    /\ UNCHANGED <<call_vars, rr_index, picks, streamed>>

reset_metrics ==
    /\ pc = "idle"
    /\ metrics' = [k \in DOMAIN metrics |-> ZeroMetrics]
    /\ streamed' = ZeroCount
    /\ UNCHANGED <<rr_index, picks, pc, attempt, backoff, via, outcome, tried, slept>>

-----------------------------------------------------------------------------
(* Client->call. *)

(* An attempt: the next subchannel of the pool, and one request to it. *)
Attempt ==
    /\ rr_index < MaxPicks
    /\ \E i \in Subchannels :
          /\ get_channel(i)
          /\ via' = i
          /\ tried' = (IF attempt' = 1 THEN {} ELSE tried) \cup {i}
    /\ pc' = "performing"
    /\ UNCHANGED <<metrics, streamed, outcome>>

call ==
    /\ pc = "idle"
    /\ attempt' = 1
    /\ backoff' = initial_backoff
    /\ slept' = 0
    /\ Attempt

IsTransient(reply) == reply.curl_err \/ reply.unavailable \/ reply.grpc_status = 14

(* Faulty variant: one retry too few.                                      *)
Faulty_Retries(reply) == IsTransient(reply) /\ attempt < max_retries

Retries(reply) == IsTransient(reply) /\ attempt <= max_retries

Capped(delay) == IF delay > max_backoff THEN max_backoff ELSE delay

Backoff(delay) == Capped(delay * backoff_factor)

(* A transient failure: call sleeps and raises the next sleep up to the cap. *)
PerformRetries(reply) ==
    /\ pc = "performing"
    /\ Retries(reply)
    /\ pc' = "sleeping"
    /\ slept' = IF backoff > slept THEN backoff ELSE slept
    /\ backoff' = Backoff(backoff)
    /\ UNCHANGED <<pool_vars, attempt, via, outcome, tried>>

Wake ==
    /\ pc = "sleeping"
    /\ attempt' = attempt + 1
    /\ UNCHANGED <<backoff, slept>>
    /\ Attempt

Ends(is, reply) ==
    /\ pc' = "idle"
    /\ outcome' = [is |-> is, attempts |-> attempt, reply |-> reply, tried |-> tried]
    /\ UNCHANGED <<attempt, backoff, via, tried, slept>>

(* A failure that is final, or a body without a frame that parses, croaks. *)
PerformCroaks(reply) ==
    /\ pc = "performing"
    /\ ~Retries(reply)
    /\ reply.curl_err \/ reply.grpc_status # 0 \/ ~reply.framed
    /\ Ends("croak", reply)
    /\ UNCHANGED pool_vars

(* The response is returned.  unpack_frame has taken the frames out of the  *)
(* body, and record_response counts what it left.                          *)
PerformReturns(reply) ==
    /\ pc = "performing"
    /\ ~Retries(reply)
    /\ ~reply.curl_err /\ reply.grpc_status = 0 /\ reply.framed
    /\ record_response(ExtractKey(via), 0)
    /\ Ends("response", reply)
    /\ UNCHANGED <<rr_index, picks, streamed>>

-----------------------------------------------------------------------------
ClientNext ==
    \/ \E i \in Subchannels :
          \/ \E frames \in {0, 1} : pool_create_stream(i, frames)
          \/ stream_write_message(i)
          \/ on_message(i)
    \/ reset_metrics
    \/ call
    \/ Wake
    \/ \E reply \in Reply : PerformRetries(reply) \/ PerformCroaks(reply)
                                                  \/ PerformReturns(reply)

ClientSpec == ClientInit /\ [][ClientNext]_client_vars

-----------------------------------------------------------------------------
(* Properties. *)

(* Round robin: calls, their retries and streams together, no subchannel is *)
(* picked more than once oftener than another, and the first ones first.   *)
Balanced ==
    \A i, j \in Subchannels : i < j => picks[i] \in {picks[j], picks[j] + 1}

(* A call that gives up on a transient failure has made all its attempts,   *)
(* on as many subchannels as there are, or as it made attempts, and slept   *)
(* no longer than the cap between two (but for the first sleep of a client  *)
(* whose initial backoff is above it).                                     *)
GivesUpLate ==
    /\ outcome.is = "croak" /\ IsTransient(outcome.reply) =>
          /\ outcome.attempts = max_retries + 1
          /\ Cardinality(outcome.tried) = Min({max_retries + 1, Len(resolved_ips)})
    /\ slept <= Max({initial_backoff, max_backoff})

SumOf(count, S) == MapThenSumSet(LAMBDA j : count[j], S)

(* Since the last reset, the entry a subchannel records under has counted   *)
(* every request put on the streams of all subchannels with that key, and  *)
(* its total is the sum of both directions.  Who asks get_metrics for an   *)
(* address as it was given sees that entry if it was given as a bare host, *)
(* and otherwise the one _init_pool made, at zero for ever: less than the  *)
(* "per-socket request/byte metrics tracking" of README.md:15.             *)
StreamsAreCounted ==
    \A i \in Subchannels :
        LET counted == SumOf(streamed, {j \in Subchannels : ExtractKey(j) = ExtractKey(i)})
            entry == Entry(ExtractKey(i))
        IN  /\ entry.requests = counted
            /\ entry.total_bytes = entry.bytes_sent + entry.bytes_received
            /\ get_metrics(GivenKey(i)).requests =
                  IF resolved_ips[i].form = "bare" THEN counted ELSE 0
=============================================================================
