------------------------------ MODULE KeySource ------------------------------
(***************************************************************************)
(* Google::Auth::IDTokens::HttpKeySource: a cache of the public keys that  *)
(* a server publishes, refilled by refresh_keys at most once per           *)
(* retry_interval.  The download is a point at which another coroutine may *)
(* run, so several refreshes can be under way; nothing in the code keeps   *)
(* them apart, and their answers are stored in the order they arrive.      *)
(*                                                                         *)
(* The publisher adds and withdraws keys while this goes on.               *)
(***************************************************************************)
EXTENDS Naturals

CONSTANTS
    Callers,        \* the coroutines that use the key source
    Keys,           \* the keys the publisher may ever publish
    RetryInterval,  \* retry_interval
    MaxLatency,     \* longest a download takes (HTTP::Tiny's timeout)
    MaxTime,        \* bound: the clock stops here
    Never           \* no such instant

ASSUME KeySourceAssumption ==
    /\ RetryInterval \in Nat \ {0}
    /\ MaxLatency \in Nat
    /\ MaxTime \in Nat
    /\ Never \notin Nat

VARIABLES
    now,              \* time()
    pubAt,            \* when the publisher published each key
    retAt,            \* when it withdrew each key
    current_keys,     \* the keys held
    allow_refresh_at, \* no download before this instant
    req,              \* the download each caller has under way
    snap              \* history: the instant current_keys is a picture of

source == <<current_keys, allow_refresh_at>>
server == <<pubAt, retAt>>
ksvars == <<now, server, source, req, snap>>

Instant == Nat \cup {Never}

NoRequest == [st |-> "none", sent |-> 0, at |-> 0, keys |-> {}]

KeySourceTypeOK ==
    /\ now \in Nat
    /\ pubAt \in [Keys -> Instant]
    /\ retAt \in [Keys -> Instant]
    /\ current_keys \in SUBSET Keys
    /\ allow_refresh_at \in Nat
    /\ req \in [Callers -> [st: {"none", "asked", "answered"}, sent: Nat,
                            at: Nat, keys: SUBSET Keys]]
    /\ snap \in Nat

(* The constructor allows a refresh at once and holds no keys. *)
KeySourceInit ==
    /\ now = 0
    /\ pubAt \in [Keys -> {0, Never}]
    /\ retAt = [k \in Keys |-> Never]
    /\ current_keys = {}
    /\ allow_refresh_at = now
    /\ req = [c \in Callers |-> NoRequest]
    /\ snap = 0

-----------------------------------------------------------------------------
(* The publisher and the clock. *)

Published == {k \in Keys : pubAt[k] # Never /\ retAt[k] = Never}

Publish(k) ==
    /\ pubAt[k] = Never
    /\ pubAt' = [pubAt EXCEPT ![k] = now]
    /\ UNCHANGED <<now, retAt, source, req, snap>>

Withdraw(k) ==
    /\ k \in Published
    /\ retAt' = [retAt EXCEPT ![k] = now]
    /\ UNCHANGED <<now, pubAt, source, req, snap>>

(* The server takes a picture of its keys at some instant of the request. *)
ServerAnswers(c) ==
    /\ req[c].st = "asked"
    /\ req' = [req EXCEPT ![c].st = "answered", ![c].at = now, ![c].keys = Published]
    /\ UNCHANGED <<now, server, source, snap>>

(* No download outlasts the user agent's timeout. *)
KeySourceTick ==
    /\ now < MaxTime
    /\ \A c \in Callers : req[c].st # "none" => now < req[c].sent + MaxLatency
    /\ now' = now + 1
    /\ UNCHANGED <<server, source, req, snap>>

-----------------------------------------------------------------------------
(* refresh_keys. *)

(* Inside the interval the keys held are returned as they are. *)
RefreshRefused == now < allow_refresh_at

RefreshStart(c) ==
    /\ req[c].st = "none"
    /\ ~RefreshRefused
    /\ req' = [req EXCEPT ![c] = [NoRequest EXCEPT !.st = "asked", !.sent = now]]
    /\ UNCHANGED <<now, server, source, snap>>

(* Faulty variants: the new keys are added to the old ones; the interval is *)
(* doubled.                                                                *)
Merging_RefreshStores(c) ==
    /\ req[c].st = "answered"
    /\ current_keys' = current_keys \cup req[c].keys
    /\ allow_refresh_at' = now + RetryInterval
    /\ req' = [req EXCEPT ![c] = NoRequest]
    /\ snap' = req[c].at
    /\ UNCHANGED <<now, server>>

Doubling_RefreshStores(c) ==
    /\ req[c].st = "answered"
    /\ current_keys' = req[c].keys
    /\ allow_refresh_at' = now + 2 * RetryInterval
    /\ req' = [req EXCEPT ![c] = NoRequest]
    /\ snap' = req[c].at
    /\ UNCHANGED <<now, server>>

(* The body is decoded and interpreted; keys and interval are set together. *)
RefreshStores(c) ==
    /\ req[c].st = "answered"
    /\ current_keys' = req[c].keys
    /\ allow_refresh_at' = now + RetryInterval
    /\ req' = [req EXCEPT ![c] = NoRequest]
    /\ snap' = req[c].at
    /\ UNCHANGED <<now, server>>

(* The request fails, or its body does not decode, or it holds a key of an  *)
(* unknown type: refresh_keys dies before it has stored anything.          *)
RefreshDies(c) ==
    /\ req[c].st \in {"asked", "answered"}
    /\ req' = [req EXCEPT ![c] = NoRequest]
    /\ UNCHANGED <<now, server, source, snap>>

Environment ==
    \/ KeySourceTick
    \/ \E k \in Keys : Publish(k) \/ Withdraw(k)
    \/ \E c \in Callers : ServerAnswers(c)

-----------------------------------------------------------------------------
(* Properties. *)

(* The keys held are the ones the publisher had at the instant snap, even   *)
(* when downloads overlap, fail or overtake each other: never a mixture of *)
(* two answers.                                                            *)
HeldKeysAreASnapshot ==
    \A k \in Keys :
        /\ k \in current_keys =>
              /\ pubAt[k] # Never /\ pubAt[k] <= snap
              /\ retAt[k] = Never \/ snap <= retAt[k]
        /\ k \notin current_keys =>
              \/ pubAt[k] = Never \/ pubAt[k] >= snap
              \/ retAt[k] # Never /\ retAt[k] <= snap

(* While refresh_keys refuses to download, the keys it returns are younger  *)
(* than the interval and one download together.                            *)
RefusedKeysAreFresh ==
    RefreshRefused => now < snap + RetryInterval + MaxLatency
=============================================================================
