----------------------------- MODULE Credentials -----------------------------
(***************************************************************************)
(* Google::Auth::Credentials and the token fetchers built on it: one       *)
(* credentials object shared by several coroutines that all call           *)
(* get_token.  The object caches an access token and its expiry; the       *)
(* is_refreshing flag lets one call refresh while the others yield and     *)
(* then return whatever the object holds.                                  *)
(*                                                                         *)
(* Control changes hands only where the code gives up the processor: in    *)
(* the yield loop of get_token, in an HTTP request, in the sleep between   *)
(* two attempts.  Everything between two such points is one action.        *)
(*                                                                         *)
(* A token is abstracted to the instant at which the server stops          *)
(* honouring it; that instant is what the object must not misjudge.        *)
(***************************************************************************)
EXTENDS Naturals, FiniteSets

CONSTANTS
    Callers,        \* the coroutines that share the object
    Kinds,          \* the subclasses the object may be an instance of
    Skews,          \* the clock_skew values a call may ask for
    WaitLimit,      \* how often a waiting call yields (30 in the code)
    MaxRetries,     \* option max_retries of execute_with_retry
    InitialDelay,   \* option initial_delay of execute_with_retry
    BackoffFactor,  \* option backoff_factor of execute_with_retry
    Lifetimes,      \* token lifetimes the server grants
    MaxLatency,     \* longest an HTTP request takes (the user agent's timeout)
    MaxTime,        \* bound: the clock stops here
    Undef,          \* Perl's undef
    Unparsable      \* an expiry text neither strptime format accepts

ASSUME ConstantsAssumption ==
    /\ Kinds \subseteq {"service_account", "authorized_user", "external_account",
                        "external_impersonating", "impersonated"}
    /\ Skews \subseteq Nat
    /\ Lifetimes \subseteq Nat
    /\ WaitLimit \in Nat \ {0}
    /\ MaxRetries \in Nat
    /\ InitialDelay \in Nat
    /\ BackoffFactor \in Nat
    /\ MaxLatency \in Nat
    /\ MaxTime \in Nat
    /\ Undef \notin Nat
    /\ Unparsable \notin Nat
    /\ Undef # Unparsable

VARIABLES
    now,            \* time()
    kind,           \* the class of the object
    access_token,   \* the cached token, or Undef
    expires_at,     \* its recorded expiry: an epoch, Undef or Unparsable
    is_refreshing,  \* the refresh flag
    pc,             \* where each caller is in get_token
    my,             \* the lexical variables of each caller's calls
    answer,         \* history: what the last call to end came to
    ended           \* history: how and when the last refresh ended

object == <<kind, access_token, expires_at, is_refreshing>>
vars   == <<now, object, pc, my, answer, ended>>

Token  == Nat
Expiry == Nat \cup {Undef, Unparsable}
PCs    == {"idle", "waiting", "lookup", "posting", "sleeping"}
Vias   == {"none", "cached", "fetched", "resumed", "gave_up", "died"}
Ends   == {"none", "stored", "empty", "failed"}

Locals == [limit: Nat,      \* the yields a waiting call has left
           left: Nat,       \* the exchanges a fetch still has to make
           attempt: Nat,    \* execute_with_retry's attempt counter
           delay: Nat,      \* execute_with_retry's delay
           started: Nat,    \* when the fetch took its own time()
           sent: Nat,       \* when the request in flight was sent
           wake: Nat]       \* when the sleep between two attempts ends

NoLocals == [limit |-> 0, left |-> 0, attempt |-> 0, delay |-> 0,
             started |-> 0, sent |-> 0, wake |-> 0]

TypeOK ==
    /\ now \in Nat
    /\ kind \in Kinds
    /\ access_token \in Token \cup {Undef}
    /\ expires_at \in Expiry
    /\ is_refreshing \in BOOLEAN
    /\ pc \in [Callers -> PCs]
    /\ my \in [Callers -> Locals]
    /\ answer \in [via: Vias, token: Token \cup {Undef}, at: Nat, skew: Nat,
                   how: Ends, since: Nat]
    /\ ended \in [how: Ends, at: Nat]

Init ==
    /\ now = 0
    /\ kind \in Kinds
    /\ access_token = Undef
    /\ expires_at = Undef
    /\ is_refreshing = FALSE
    /\ pc = [c \in Callers |-> "idle"]
    /\ my = [c \in Callers |-> NoLocals]
    /\ answer = [via |-> "none", token |-> Undef, at |-> 0, skew |-> 0,
                 how |-> "none", since |-> 0]
    /\ ended = [how |-> "none", at |-> 0]

-----------------------------------------------------------------------------
(* is_expired: an expiry that cannot be parsed counts as time(), which is   *)
(* expired under every skew.                                               *)

(* Faulty variant: the instant of expiry itself counts as alive.           *)
Faulty_is_expired(skew) ==
    \/ expires_at \in {Undef, Unparsable}
    \/ expires_at \in Nat /\ now + skew > expires_at

is_expired(skew) ==
    \/ expires_at \in {Undef, Unparsable}
    \/ expires_at \in Nat /\ now + skew >= expires_at

NeedsRefresh(skew) == is_expired(skew) \/ access_token = Undef

(* The fetchers.  Each obtains what it needs first (LooksUp: a subject      *)
(* token or the source credentials' token, in one unretried request), then *)
(* makes its exchanges, each under execute_with_retry, and stores the last *)
(* answer with an expiry of its own making.                                *)

LooksUp == kind \in {"external_account", "external_impersonating", "impersonated"}

Exchanges == IF kind = "external_impersonating" THEN 2 ELSE 1

(* Faulty variant: expires_in counted from the answer.                     *)
Faulty_ServiceAccountExpiry(c, life) == {now + life}

(* ServiceAccountCredentials counts expires_in from the time() it took      *)
(* before it signed the assertion.                                         *)
ServiceAccountExpiry(c, life) == {my[c].started + life}

(* UserRefreshCredentials counts expires_in from the time() at which it     *)
(* handles the answer.                                                     *)
UserRefreshExpiry(life) == {now + life}

(* ExternalAccountCredentials without impersonation formats and later      *)
(* parses the same instant as an ISO text with whole seconds.              *)
ExternalAccountExpiry(life) == {now + life}

(* With impersonation the expiry is the answer's expireTime: the instant    *)
(* itself, absent, or with a fraction that strptime does not take.         *)
ImpersonatedExpiry(issued, life) == {issued + life, Undef, Unparsable}

ExpiriesFor(c, issued, life) ==
    CASE kind = "service_account"  -> ServiceAccountExpiry(c, life)
      [] kind = "authorized_user"  -> UserRefreshExpiry(life)
      [] kind = "external_account" -> ExternalAccountExpiry(life)
      [] OTHER                     -> ImpersonatedExpiry(issued, life)

-----------------------------------------------------------------------------
(* Leaving get_token. *)

Answer(c, via, token, skew) ==
    /\ pc' = [pc EXCEPT ![c] = "idle"]
    /\ my' = [my EXCEPT ![c] = NoLocals]
    /\ answer' = [via |-> via, token |-> token, at |-> now, skew |-> skew,
                   how |-> ended.how, since |-> ended.at]

(* Faulty variant: the error is rethrown before the flag is cleared.       *)
Faulty_FetchDies(c) ==
    /\ ended' = [how |-> "failed", at |-> now]
    /\ Answer(c, "died", Undef, 0)
    /\ UNCHANGED <<now, object>>

(* A failed fetch: the flag is cleared before the error is rethrown, and    *)
(* the cached pair is left as it was.                                      *)
FetchDies(c) ==
    /\ is_refreshing' = FALSE
    /\ ended' = [how |-> "failed", at |-> now]
    /\ Answer(c, "died", Undef, 0)
    /\ UNCHANGED <<now, kind, access_token, expires_at>>

-----------------------------------------------------------------------------
(* get_token, entered by a caller that is not already in it. *)

GetTokenCached(c, skew) ==
    /\ pc[c] = "idle"
    /\ ~is_refreshing
    /\ ~NeedsRefresh(skew)
    /\ Answer(c, "cached", access_token, skew)
    /\ UNCHANGED <<now, object, ended>>

GetTokenWait(c) ==
    /\ pc[c] = "idle"
    /\ is_refreshing
    /\ pc' = [pc EXCEPT ![c] = "waiting"]
    /\ my' = [my EXCEPT ![c].limit = WaitLimit - 1]
    /\ UNCHANGED <<now, object, answer, ended>>

(* Faulty variant: the flag is not looked at before the fetch.             *)
Faulty_GetTokenFetch(c, skew) ==
    /\ pc[c] = "idle"
    /\ NeedsRefresh(skew)
    /\ is_refreshing' = TRUE
    /\ pc' = [pc EXCEPT ![c] = IF LooksUp THEN "lookup" ELSE "posting"]
    /\ my' = [my EXCEPT ![c] = [NoLocals EXCEPT !.left = Exchanges, !.attempt = 1,
                                   !.delay = InitialDelay,
                                   !.started = now, !.sent = now]]
    /\ UNCHANGED <<now, kind, access_token, expires_at, answer, ended>>

(* The caller sets the flag and runs fetch_access_token up to its first    *)
(* request.                                                                *)
GetTokenFetch(c, skew) ==
    /\ pc[c] = "idle"
    /\ ~is_refreshing
    /\ NeedsRefresh(skew)
    /\ is_refreshing' = TRUE
    /\ pc' = [pc EXCEPT ![c] = IF LooksUp THEN "lookup" ELSE "posting"]
    /\ my' = [my EXCEPT ![c] = [NoLocals EXCEPT !.left = Exchanges, !.attempt = 1,
                                   !.delay = InitialDelay,
                                   !.started = now, !.sent = now]]
    /\ UNCHANGED <<now, kind, access_token, expires_at, answer, ended>>

(* The fetch throws before its first request: a missing key or client      *)
(* email, an assertion that cannot be signed, an absent subject token file.*)
GetTokenThrows(c, skew) ==
    /\ pc[c] = "idle"
    /\ ~is_refreshing
    /\ NeedsRefresh(skew)
    /\ FetchDies(c)

(* Faulty variant: the yields are not counted.                             *)
Uncounted_YieldAgain(c) ==
    /\ pc[c] = "waiting"
    /\ is_refreshing
    /\ my[c].limit > 0
    /\ UNCHANGED vars

(* One turn of the yield loop: the flag is tested first, and the limit is   *)
(* counted down only while it is set.                                      *)
YieldAgain(c) ==
    /\ pc[c] = "waiting"
    /\ is_refreshing
    /\ my[c].limit > 0
    /\ my' = [my EXCEPT ![c].limit = @ - 1]
    /\ UNCHANGED <<now, object, pc, answer, ended>>

StopWaiting(c) ==
    /\ pc[c] = "waiting"
    /\ ~is_refreshing \/ my[c].limit = 0
    /\ Answer(c, IF is_refreshing THEN "gave_up" ELSE "resumed", access_token, 0)
    /\ UNCHANGED <<now, object, ended>>

-----------------------------------------------------------------------------
(* fetch_access_token. *)

(* The subject token, or the source credentials' token, has arrived. *)
LookupDone(c) ==
    /\ pc[c] = "lookup"
    /\ pc' = [pc EXCEPT ![c] = "posting"]
    /\ my' = [my EXCEPT ![c].sent = now]
    /\ UNCHANGED <<now, object, answer, ended>>

LookupFails(c) ==
    /\ pc[c] = "lookup"
    /\ FetchDies(c)

(* The first of two exchanges succeeded: the second starts at once, with a  *)
(* retry loop of its own.                                                  *)
NextExchange(c) ==
    /\ pc[c] = "posting"
    /\ my[c].left > 1
    /\ my' = [my EXCEPT ![c].left = @ - 1, ![c].attempt = 1,
                        ![c].delay = InitialDelay, ![c].sent = now]
    /\ UNCHANGED <<now, object, pc, answer, ended>>

(* Faulty variant: the expiry is stored and the token is not.              *)
Faulty_Store(c, token, expiry) ==
    /\ pc[c] = "posting"
    /\ my[c].left = 1
    /\ expires_at' = expiry
    /\ is_refreshing' = FALSE
    /\ ended' = [how |-> IF token = Undef THEN "empty" ELSE "stored", at |-> now]
    /\ Answer(c, "fetched", token, 0)
    /\ UNCHANGED <<now, kind, access_token>>

(* Token and expiry of the last answer are stored, the flag is cleared and  *)
(* get_token returns the token it finds in the object.                     *)
Store(c, token, expiry) ==
    /\ pc[c] = "posting"
    /\ my[c].left = 1
    /\ access_token' = token
    /\ expires_at' = expiry
    /\ is_refreshing' = FALSE
    /\ ended' = [how |-> IF token = Undef THEN "empty" ELSE "stored", at |-> now]
    /\ Answer(c, "fetched", token, 0)
    /\ UNCHANGED <<now, kind>>

(* The server issued the token at some instant of the request. *)
PostGrants(c) ==
    \E life \in Lifetimes, issued \in my[c].sent .. now :
        \E expiry \in ExpiriesFor(c, issued, life) :
            Store(c, issued + life, expiry)

(* A success answer without the token field. *)
PostLacksToken(c) ==
    \E life \in Lifetimes :
        \E expiry \in ExpiriesFor(c, now, life) : Store(c, Undef, expiry)

(* A failed request that is neither the last attempt nor a fatal error      *)
(* sleeps, and doubles the next sleep.  (The sleep ends within MaxTime.)   *)
PostRetries(c) ==
    /\ pc[c] = "posting"
    /\ my[c].attempt < MaxRetries
    /\ now + my[c].delay <= MaxTime
    /\ pc' = [pc EXCEPT ![c] = "sleeping"]
    /\ my' = [my EXCEPT ![c].wake = now + my[c].delay,
                        ![c].delay = @ * BackoffFactor]
    /\ UNCHANGED <<now, object, answer, ended>>

(* The error is rethrown: retries are used up, the text is a fatal one, or  *)
(* the request succeeded and its body does not decode.                     *)
PostDies(c) ==
    /\ pc[c] = "posting"
    /\ FetchDies(c)

Wake(c) ==
    /\ pc[c] = "sleeping"
    /\ now >= my[c].wake
    /\ pc' = [pc EXCEPT ![c] = "posting"]
    /\ my' = [my EXCEPT ![c].attempt = @ + 1, ![c].sent = now]
    /\ UNCHANGED <<now, object, answer, ended>>

-----------------------------------------------------------------------------
(* The clock.  No request outlasts the user agent's timeout. *)
Tick ==
    /\ now < MaxTime
    /\ \A c \in Callers : pc[c] = "posting" => now < my[c].sent + MaxLatency
    /\ now' = now + 1
    /\ UNCHANGED <<object, pc, my, answer, ended>>

Enter(c) ==
    \/ GetTokenWait(c)
    \/ \E skew \in Skews : \/ GetTokenCached(c, skew)
                           \/ GetTokenFetch(c, skew)
                           \/ GetTokenThrows(c, skew)

Resume(c) ==
    \/ YieldAgain(c)
    \/ StopWaiting(c)
    \/ LookupDone(c)
    \/ LookupFails(c)
    \/ NextExchange(c)
    \/ PostGrants(c)
    \/ PostLacksToken(c)
    \/ PostRetries(c)
    \/ PostDies(c)
    \/ Wake(c)

Next == Tick \/ \E c \in Callers : Enter(c) \/ Resume(c)

Spec == Init /\ [][Next]_vars

(* A caller inside get_token is resumed: coroutines are scheduled in turn   *)
(* and a request ends by an answer or by the user agent's timeout.         *)
FairSpec == Spec /\ WF_vars(Tick) /\ \A c \in Callers : WF_vars(Resume(c))

-----------------------------------------------------------------------------
(* Properties. *)

Fetching(c) == pc[c] \in {"lookup", "posting", "sleeping"}

(* At most one call of get_token talks to the token server at a time, and   *)
(* the flag is set exactly while one does: no path out of the fetch, error *)
(* or not, leaves the flag behind, and no second refresh starts beside it. *)
SingleFlight ==
    /\ \A c, d \in Callers : Fetching(c) /\ Fetching(d) => c = d
    /\ is_refreshing <=> \E c \in Callers : Fetching(c)

(* How far a recorded expiry may overstate the token's life: the fetchers   *)
(* that add expires_in to the time of the answer miss the time the answer  *)
(* took.                                                                   *)
Slack == IF kind \in {"authorized_user", "external_account"} THEN MaxLatency ELSE 0

(* The cached pair belongs together: the recorded expiry is that of the     *)
(* cached token and overstates its life by at most the latency of one      *)
(* request, however many attempts and sleeps the refresh took.             *)
StampSound ==
    access_token # Undef /\ expires_at \in Nat => expires_at <= access_token + Slack

(* What get_token answers without waiting is alive: a cached token outlives *)
(* the answer by the skew asked for less the slack, and a fetched one has  *)
(* lost no more of its life than one request takes.                        *)
DirectTokenAlive ==
    /\ answer.via = "cached" =>
          /\ answer.token # Undef
          /\ answer.token + Slack > answer.at + answer.skew
    /\ answer.via = "fetched" /\ answer.token # Undef =>
          \E life \in Lifetimes : answer.token + MaxLatency >= answer.at + life

(* A caller that waited for a refresh that succeeded answers with a token   *)
(* that was alive when that refresh ended.  (When it failed, or the yields  *)
(* ran out, the code answers with whatever the object holds.)              *)
WaiterSharesRefresh ==
    answer.via = "resumed" /\ answer.how = "stored" =>
        /\ answer.token # Undef
        /\ \E life \in Lifetimes : answer.token + MaxLatency >= answer.since + life

(* The strengthening the proofs rest on: the instants a fetch has noted are *)
(* in order and a request is no older than the latency bound; the token    *)
(* that a successful refresh left is still the cached one.                 *)
Timing ==
    \A c \in Callers :
        /\ Fetching(c) => my[c].started <= now
        /\ pc[c] = "posting" => /\ my[c].started <= my[c].sent
                               /\ my[c].sent <= now
                               /\ now <= my[c].sent + MaxLatency

EndedSound ==
    ended.how = "stored" =>
        /\ access_token # Undef
        /\ \E life \in Lifetimes : access_token + MaxLatency >= ended.at + life

(* The inductive invariant: every conjunct above, with the strengthening.   *)
IInv == /\ TypeOK
        /\ SingleFlight
        /\ Timing
        /\ StampSound
        /\ EndedSound
        /\ DirectTokenAlive
        /\ WaiterSharesRefresh

(* Every call of get_token comes to an end: the yields are counted and so   *)
(* are the attempts.                                                       *)
EveryCallReturns == \A c \in Callers : pc[c] # "idle" ~> pc[c] = "idle"

(* The flag never stays set: the object is not lost to its callers. *)
FlagClears == is_refreshing ~> ~is_refreshing
=============================================================================
