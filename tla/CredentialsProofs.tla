-------------------------- MODULE CredentialsProofs --------------------------
(***************************************************************************)
(* Proofs about Credentials, for every set of callers, every kind of       *)
(* credentials and every value of the limits.                              *)
(***************************************************************************)
EXTENDS Credentials, TLAPS

(* Every expiry a fetcher may store is a value of the expires_at attribute. *)
LEMMA ExpiriesType ==
    ASSUME TypeOK, NEW c \in Callers, NEW issued \in Nat, NEW life \in Lifetimes
    PROVE  ExpiriesFor(c, issued, life) \subseteq Expiry
<1>1. life \in Nat
    BY ConstantsAssumption
<1>2. my[c].started \in Nat /\ now \in Nat
    BY DEF TypeOK, Locals
<1>3. CASE kind = "service_account"
    BY <1>1, <1>2, <1>3 DEF ExpiriesFor, ServiceAccountExpiry, Expiry
<1>4. CASE kind = "authorized_user"
    BY <1>1, <1>2, <1>4 DEF ExpiriesFor, UserRefreshExpiry, Expiry
<1>5. CASE kind = "external_account"
    BY <1>1, <1>2, <1>5 DEF ExpiriesFor, ExternalAccountExpiry, Expiry
<1>6. CASE kind \notin {"service_account", "authorized_user", "external_account"}
    BY <1>1, <1>2, <1>6 DEF ExpiriesFor, ImpersonatedExpiry, Expiry
<1> QED BY <1>3, <1>4, <1>5, <1>6

LEMMA NoLocalsType == NoLocals \in Locals
BY DEF NoLocals, Locals

(* Leaving get_token keeps the types of the caller's own state. *)
LEMMA AnswerType ==
    ASSUME TypeOK, NEW c \in Callers, NEW via \in Vias,
           NEW token \in Token \cup {Undef}, NEW skew \in Nat,
           Answer(c, via, token, skew)
    PROVE  /\ pc' \in [Callers -> PCs]
           /\ my' \in [Callers -> Locals]
           /\ answer' \in [via: Vias, token: Token \cup {Undef}, at: Nat, skew: Nat,
                           how: Ends, since: Nat]
<1>1. pc' \in [Callers -> PCs]
    BY DEF Answer, TypeOK, PCs
<1>2. my' \in [Callers -> Locals]
    BY NoLocalsType DEF Answer, TypeOK
<1>3. ended.how \in Ends /\ ended.at \in Nat /\ now \in Nat
    BY DEF TypeOK
<1> QED BY <1>1, <1>2, <1>3 DEF Answer

LEMMA FetchDiesType ==
    ASSUME TypeOK, NEW c \in Callers, FetchDies(c)
    PROVE  TypeOK'
<1>1. Answer(c, "died", Undef, 0)
    BY DEF FetchDies
<1>2. "died" \in Vias /\ Undef \in Token \cup {Undef} /\ 0 \in Nat
    BY DEF Vias
<1>3. /\ pc' \in [Callers -> PCs]
      /\ my' \in [Callers -> Locals]
      /\ answer' \in [via: Vias, token: Token \cup {Undef}, at: Nat, skew: Nat,
                      how: Ends, since: Nat]
    BY <1>1, <1>2, AnswerType
<1>4. ended' \in [how: Ends, at: Nat]
    BY DEF FetchDies, TypeOK, Ends
<1> QED BY <1>3, <1>4 DEF FetchDies, TypeOK

LEMMA StoreType ==
    ASSUME TypeOK, NEW c \in Callers, NEW token \in Token \cup {Undef},
           NEW expiry \in Expiry, Store(c, token, expiry)
    PROVE  TypeOK'
<1>1. Answer(c, "fetched", token, 0)
    BY DEF Store
<1>2. "fetched" \in Vias /\ 0 \in Nat
    BY DEF Vias
<1>3. /\ pc' \in [Callers -> PCs]
      /\ my' \in [Callers -> Locals]
      /\ answer' \in [via: Vias, token: Token \cup {Undef}, at: Nat, skew: Nat,
                      how: Ends, since: Nat]
    BY <1>1, <1>2, AnswerType
<1>4. ended' \in [how: Ends, at: Nat]
    BY DEF Store, TypeOK, Ends
<1> QED BY <1>3, <1>4 DEF Store, TypeOK

(* A product of natural numbers is one. *)
LEMMA TimesType == \A m, n \in Nat : m * n \in Nat
OBVIOUS

(* Each step of a caller or of the clock keeps every variable in its type. *)
LEMMA TypeStep == TypeOK /\ [Next]_vars => TypeOK'
<1> SUFFICES ASSUME TypeOK, [Next]_vars PROVE TypeOK'
    OBVIOUS
<1> USE ConstantsAssumption
<1>1. CASE Tick
    BY <1>1 DEF Tick, TypeOK, object
<1>2. ASSUME NEW c \in Callers, NEW skew \in Skews, GetTokenCached(c, skew)
      PROVE  TypeOK'
    <2>1. "cached" \in Vias /\ access_token \in Token \cup {Undef} /\ skew \in Nat
        BY DEF Vias, TypeOK
    <2>2. Answer(c, "cached", access_token, skew)
        BY <1>2 DEF GetTokenCached
    <2>3. /\ pc' \in [Callers -> PCs]
          /\ my' \in [Callers -> Locals]
          /\ answer' \in [via: Vias, token: Token \cup {Undef}, at: Nat, skew: Nat,
                          how: Ends, since: Nat]
        BY <2>1, <2>2, AnswerType
    <2> QED BY <1>2, <2>3 DEF GetTokenCached, TypeOK, object
<1>3. ASSUME NEW c \in Callers, GetTokenWait(c) PROVE TypeOK'
    <2>1. [my[c] EXCEPT !.limit = WaitLimit - 1] \in Locals
        BY DEF TypeOK, Locals
    <2>2. my' = [my EXCEPT ![c] = [my[c] EXCEPT !.limit = WaitLimit - 1]]
        BY <1>3 DEF GetTokenWait
    <2>3. my' \in [Callers -> Locals]
        BY <2>1, <2>2 DEF TypeOK
    <2> QED BY <1>3, <2>3 DEF GetTokenWait, TypeOK, PCs, object
<1>4. ASSUME NEW c \in Callers, NEW skew \in Skews, GetTokenFetch(c, skew)
      PROVE  TypeOK'
    <2>1. [NoLocals EXCEPT !.left = Exchanges, !.attempt = 1, !.delay = InitialDelay,
                           !.started = now, !.sent = now] \in Locals
        BY DEF NoLocals, Locals, Exchanges, TypeOK
    <2>2. my' \in [Callers -> Locals]
        BY <1>4, <2>1 DEF GetTokenFetch, TypeOK
    <2> QED BY <1>4, <2>2 DEF GetTokenFetch, TypeOK, PCs
<1>5. ASSUME NEW c \in Callers, NEW skew \in Skews, GetTokenThrows(c, skew)
      PROVE  TypeOK'
    BY <1>5, FetchDiesType DEF GetTokenThrows
<1>6. ASSUME NEW c \in Callers, YieldAgain(c) PROVE TypeOK'
    <2>1. [my[c] EXCEPT !.limit = my[c].limit - 1] \in Locals
        BY <1>6 DEF TypeOK, Locals, YieldAgain
    <2>2. my' = [my EXCEPT ![c] = [my[c] EXCEPT !.limit = my[c].limit - 1]]
        BY <1>6 DEF YieldAgain
    <2>3. my' \in [Callers -> Locals]
        BY <2>1, <2>2 DEF TypeOK
    <2> QED BY <1>6, <2>3 DEF YieldAgain, TypeOK, object
<1>7. ASSUME NEW c \in Callers, StopWaiting(c) PROVE TypeOK'
    <2> DEFINE via == IF is_refreshing THEN "gave_up" ELSE "resumed"
    <2>1. via \in Vias /\ access_token \in Token \cup {Undef} /\ 0 \in Nat
        BY DEF Vias, TypeOK
    <2>2. Answer(c, via, access_token, 0)
        BY <1>7 DEF StopWaiting
    <2> HIDE DEF via
    <2>3. /\ pc' \in [Callers -> PCs]
          /\ my' \in [Callers -> Locals]
          /\ answer' \in [via: Vias, token: Token \cup {Undef}, at: Nat, skew: Nat,
                          how: Ends, since: Nat]
        BY <2>1, <2>2, AnswerType
    <2> QED BY <1>7, <2>3 DEF StopWaiting, TypeOK, object
<1>8. ASSUME NEW c \in Callers, LookupDone(c) PROVE TypeOK'
    <2>1. [my[c] EXCEPT !.sent = now] \in Locals
        BY DEF TypeOK, Locals
    <2>2. my' = [my EXCEPT ![c] = [my[c] EXCEPT !.sent = now]]
        BY <1>8 DEF LookupDone
    <2>3. my' \in [Callers -> Locals]
        BY <2>1, <2>2 DEF TypeOK
    <2> QED BY <1>8, <2>3 DEF LookupDone, TypeOK, PCs, object
<1>9. ASSUME NEW c \in Callers, LookupFails(c) PROVE TypeOK'
    BY <1>9, FetchDiesType DEF LookupFails
<1>10. ASSUME NEW c \in Callers, NextExchange(c) PROVE TypeOK'
    <2>1. [my[c] EXCEPT !.left = my[c].left - 1, !.attempt = 1,
                        !.delay = InitialDelay, !.sent = now] \in Locals
        <3>1. my[c] \in Locals /\ my[c].left - 1 \in Nat /\ now \in Nat
            BY <1>10 DEF TypeOK, NextExchange, Locals
        <3> QED BY <3>1 DEF Locals
    <2>2. my' = [my EXCEPT ![c] = [my[c] EXCEPT !.left = my[c].left - 1, !.attempt = 1,
                                      !.delay = InitialDelay, !.sent = now]]
        BY <1>10 DEF NextExchange, TypeOK
    <2>3. my' \in [Callers -> Locals]
        BY <2>1, <2>2 DEF TypeOK
    <2> QED BY <1>10, <2>3 DEF NextExchange, TypeOK, object
<1>11. ASSUME NEW c \in Callers, PostGrants(c) PROVE TypeOK'
    <2>1. PICK life \in Lifetimes, issued \in my[c].sent .. now :
              \E expiry \in ExpiriesFor(c, issued, life) : Store(c, issued + life, expiry)
        BY <1>11 DEF PostGrants
    <2>2. my[c].sent \in Nat /\ now \in Nat
        BY DEF TypeOK, Locals
    <2>3. issued \in Nat /\ issued + life \in Token \cup {Undef}
        BY <2>2 DEF Token
    <2> QED BY <2>1, <2>3, ExpiriesType, StoreType
<1>12. ASSUME NEW c \in Callers, PostLacksToken(c) PROVE TypeOK'
    <2>1. now \in Nat /\ Undef \in Token \cup {Undef}
        BY DEF TypeOK
    <2> QED BY <1>12, <2>1, ExpiriesType, StoreType DEF PostLacksToken
<1>13. ASSUME NEW c \in Callers, PostRetries(c) PROVE TypeOK'
    <2>1. my[c].delay \in Nat /\ my[c].delay * BackoffFactor \in Nat
        BY TimesType DEF TypeOK, Locals
    <2>2. [my[c] EXCEPT !.wake = now + my[c].delay,
                        !.delay = my[c].delay * BackoffFactor] \in Locals
        <3>1. my[c] \in Locals /\ now + my[c].delay \in Nat
            BY <2>1 DEF TypeOK
        <3> QED BY <2>1, <3>1 DEF Locals
    <2>3. my' = [my EXCEPT ![c] = [my[c] EXCEPT !.wake = now + my[c].delay,
                                      !.delay = my[c].delay * BackoffFactor]]
        BY <1>13 DEF PostRetries, TypeOK
    <2>4. my' \in [Callers -> Locals]
        BY <2>2, <2>3 DEF TypeOK
    <2> QED BY <1>13, <2>4 DEF PostRetries, TypeOK, PCs, object
<1>14. ASSUME NEW c \in Callers, PostDies(c) PROVE TypeOK'
    BY <1>14, FetchDiesType DEF PostDies
<1>15. ASSUME NEW c \in Callers, Wake(c) PROVE TypeOK'
    <2>1. [my[c] EXCEPT !.attempt = my[c].attempt + 1, !.sent = now] \in Locals
        <3>1. my[c] \in Locals /\ my[c].attempt + 1 \in Nat /\ now \in Nat
            BY DEF TypeOK, Locals
        <3> QED BY <3>1 DEF Locals
    <2>2. my' = [my EXCEPT ![c] = [my[c] EXCEPT !.attempt = my[c].attempt + 1,
                                                !.sent = now]]
        BY <1>15 DEF Wake, TypeOK
    <2>3. my' \in [Callers -> Locals]
        BY <2>1, <2>2 DEF TypeOK
    <2> QED BY <1>15, <2>3 DEF Wake, TypeOK, PCs, object
<1>16. CASE UNCHANGED vars
    BY <1>16 DEF vars, object, TypeOK
<1> QED
    BY <1>1, <1>2, <1>3, <1>4, <1>5, <1>6, <1>7, <1>8, <1>9, <1>10, <1>11, <1>12,
       <1>13, <1>14, <1>15, <1>16 DEF Next, Enter, Resume

(* Every variable of the model keeps its type in every behaviour. *)
THEOREM TypeCorrect == Spec => []TypeOK
<1>1. Init => TypeOK
    <2> SUFFICES ASSUME Init PROVE TypeOK
        OBVIOUS
    <2>1. pc \in [Callers -> PCs]
        BY DEF Init, PCs
    <2>2. my \in [Callers -> Locals]
        BY NoLocalsType DEF Init
    <2>3. /\ answer \in [via: Vias, token: Token \cup {Undef}, at: Nat, skew: Nat,
                         how: Ends, since: Nat]
          /\ ended \in [how: Ends, at: Nat]
        BY DEF Init, Vias, Ends
    <2> QED BY <2>1, <2>2, <2>3 DEF Init, TypeOK, Expiry
<1> QED BY <1>1, TypeStep, PTL DEF Spec

-----------------------------------------------------------------------------
(* Mutual exclusion of refreshes. *)

LEMMA SingleFlightStep == TypeOK /\ SingleFlight /\ [Next]_vars => SingleFlight'
<1> SUFFICES ASSUME TypeOK, SingleFlight, [Next]_vars PROVE SingleFlight'
    OBVIOUS
<1> USE DEF SingleFlight, Fetching
<1>0. pc \in [Callers -> PCs]
    BY DEF TypeOK
<1>1. CASE Tick
    BY <1>1 DEF Tick, object
<1>2. ASSUME NEW c \in Callers, NEW skew \in Skews, GetTokenCached(c, skew)
      PROVE  SingleFlight'
    BY <1>0, <1>2 DEF GetTokenCached, Answer, object
<1>3. ASSUME NEW c \in Callers, GetTokenWait(c) PROVE SingleFlight'
    BY <1>0, <1>3 DEF GetTokenWait, object
<1>4. ASSUME NEW c \in Callers, NEW skew \in Skews, GetTokenFetch(c, skew)
      PROVE  SingleFlight'
    BY <1>0, <1>4 DEF GetTokenFetch
<1>5. ASSUME NEW c \in Callers, NEW skew \in Skews, GetTokenThrows(c, skew)
      PROVE  SingleFlight'
    BY <1>0, <1>5 DEF GetTokenThrows, FetchDies, Answer
<1>6. ASSUME NEW c \in Callers, YieldAgain(c) PROVE SingleFlight'
    BY <1>6 DEF YieldAgain, object
<1>7. ASSUME NEW c \in Callers, StopWaiting(c) PROVE SingleFlight'
    BY <1>0, <1>7 DEF StopWaiting, Answer, object
<1>8. ASSUME NEW c \in Callers, LookupDone(c) PROVE SingleFlight'
    BY <1>0, <1>8 DEF LookupDone, object
<1>9. ASSUME NEW c \in Callers, LookupFails(c) \/ PostDies(c) PROVE SingleFlight'
    BY <1>0, <1>9 DEF LookupFails, PostDies, FetchDies, Answer
<1>10. ASSUME NEW c \in Callers, NextExchange(c) PROVE SingleFlight'
    BY <1>10 DEF NextExchange, object
<1>11. ASSUME NEW c \in Callers, NEW token, NEW expiry, Store(c, token, expiry)
       PROVE  SingleFlight'
    BY <1>0, <1>11 DEF Store, Answer
<1>12. ASSUME NEW c \in Callers, PostGrants(c) \/ PostLacksToken(c) PROVE SingleFlight'
    BY <1>11, <1>12 DEF PostGrants, PostLacksToken
<1>13. ASSUME NEW c \in Callers, PostRetries(c) PROVE SingleFlight'
    BY <1>0, <1>13 DEF PostRetries, object
<1>14. ASSUME NEW c \in Callers, Wake(c) PROVE SingleFlight'
    BY <1>0, <1>14 DEF Wake, object
<1>15. CASE UNCHANGED vars
    BY <1>15 DEF vars, object
<1> QED
    BY <1>1, <1>2, <1>3, <1>4, <1>5, <1>6, <1>7, <1>8, <1>9, <1>10, <1>12, <1>13,
       <1>14, <1>15 DEF Next, Enter, Resume

(* At most one call refreshes at a time, and is_refreshing is set exactly   *)
(* while one does, for any number of coroutines.                           *)
THEOREM RefreshIsExclusive == Spec => []SingleFlight
<1>1. Init => SingleFlight
    BY DEF Init, SingleFlight, Fetching
<1> QED BY <1>1, TypeCorrect, SingleFlightStep, PTL DEF Spec

-----------------------------------------------------------------------------
(* Time: what a fetch has noted stays in order. *)

LEMMA TimingStep == TypeOK /\ Timing /\ [Next]_vars => Timing'
<1> SUFFICES ASSUME TypeOK, Timing, [Next]_vars PROVE Timing'
    OBVIOUS
<1> USE ConstantsAssumption DEF Timing, Fetching
<1>0. /\ pc \in [Callers -> PCs]
      /\ my \in [Callers -> Locals]
      /\ now \in Nat
      /\ \A c \in Callers : my[c].started \in Nat /\ my[c].sent \in Nat
    BY DEF TypeOK, Locals
<1>1. CASE Tick
    BY <1>0, <1>1 DEF Tick
<1>2. ASSUME NEW c \in Callers, NEW via, NEW token, NEW skew,
             Answer(c, via, token, skew), UNCHANGED now
      PROVE  Timing'
    BY <1>0, <1>2 DEF Answer, NoLocals
<1>3. ASSUME NEW c \in Callers, FetchDies(c) PROVE Timing'
    BY <1>2, <1>3 DEF FetchDies
<1>4. ASSUME NEW c \in Callers, NEW token, NEW expiry, Store(c, token, expiry)
      PROVE  Timing'
    BY <1>2, <1>4 DEF Store
<1>5. ASSUME NEW c \in Callers, GetTokenWait(c) PROVE Timing'
    BY <1>0, <1>5 DEF GetTokenWait
<1>6. ASSUME NEW c \in Callers, NEW skew \in Skews, GetTokenFetch(c, skew)
      PROVE  Timing'
    BY <1>0, <1>6 DEF GetTokenFetch, NoLocals
<1>7. ASSUME NEW c \in Callers, YieldAgain(c) PROVE Timing'
    BY <1>0, <1>7 DEF YieldAgain
<1>8. ASSUME NEW c \in Callers, LookupDone(c) PROVE Timing'
    BY <1>0, <1>8 DEF LookupDone, Locals
<1>9. ASSUME NEW c \in Callers, NextExchange(c) PROVE Timing'
    BY <1>0, <1>9 DEF NextExchange, Locals
<1>10. ASSUME NEW c \in Callers, PostRetries(c) PROVE Timing'
    BY <1>0, <1>10 DEF PostRetries, Locals
<1>11. ASSUME NEW c \in Callers, Wake(c) PROVE Timing'
    BY <1>0, <1>11 DEF Wake, Locals
<1>12. CASE UNCHANGED vars
    BY <1>12 DEF vars
<1>13. ASSUME NEW c \in Callers, Enter(c) PROVE Timing'
    BY <1>13, <1>2, <1>3, <1>5, <1>6 DEF Enter, GetTokenCached, GetTokenThrows
<1>14. ASSUME NEW c \in Callers, Resume(c) PROVE Timing'
    BY <1>14, <1>2, <1>3, <1>4, <1>7, <1>8, <1>9, <1>10, <1>11
       DEF Resume, StopWaiting, LookupFails, PostGrants, PostLacksToken, PostDies
<1> QED BY <1>1, <1>12, <1>13, <1>14 DEF Next

-----------------------------------------------------------------------------
(* What the object and the answers say about the token's true life. *)

(* A granted token was issued during the last request: its stamp overstates *)
(* its life by Slack at most, and it has lost MaxLatency of it at most.     *)
LEMMA GrantSound ==
    ASSUME TypeOK, Timing, NEW c \in Callers, pc[c] = "posting",
           NEW life \in Lifetimes, NEW issued \in my[c].sent .. now,
           NEW expiry \in ExpiriesFor(c, issued, life)
    PROVE  /\ issued + life \in Nat
           /\ expiry \in Nat => expiry <= issued + life + Slack
           /\ issued + life + MaxLatency >= now + life
<1>1. life \in Nat /\ MaxLatency \in Nat /\ Undef \notin Nat /\ Unparsable \notin Nat
    BY ConstantsAssumption
<1>2. my[c].started \in Nat /\ my[c].sent \in Nat /\ now \in Nat
    BY DEF TypeOK, Locals
<1>3. my[c].started <= my[c].sent /\ my[c].sent <= now /\ now <= my[c].sent + MaxLatency
    BY DEF Timing
<1>4. /\ issued \in Nat
      /\ my[c].started <= issued
      /\ now <= issued + MaxLatency
    BY <1>1, <1>2, <1>3
<1>5. expiry \in Nat => expiry <= issued + life + Slack
    <2>1. CASE kind = "service_account"
        BY <1>1, <1>2, <1>4, <2>1 DEF ExpiriesFor, ServiceAccountExpiry, Slack
    <2>2. CASE kind = "authorized_user"
        BY <1>1, <1>2, <1>4, <2>2 DEF ExpiriesFor, UserRefreshExpiry, Slack
    <2>3. CASE kind = "external_account"
        BY <1>1, <1>2, <1>4, <2>3 DEF ExpiriesFor, ExternalAccountExpiry, Slack
    <2>4. CASE kind \notin {"service_account", "authorized_user", "external_account"}
        BY <1>1, <1>2, <1>4, <2>4 DEF ExpiriesFor, ImpersonatedExpiry, Slack
    <2> QED BY <2>1, <2>2, <2>3, <2>4
<1> QED BY <1>1, <1>2, <1>4, <1>5

Claims == StampSound /\ EndedSound /\ DirectTokenAlive /\ WaiterSharesRefresh

(* Only an answer or a stored token can disturb the claims. *)
LEMMA ClaimsFrame ==
    ASSUME Claims, UNCHANGED <<kind, access_token, expires_at, answer, ended>>
    PROVE  Claims'
BY DEF Claims, StampSound, EndedSound, DirectTokenAlive, WaiterSharesRefresh, Slack

(* Leaving get_token with an answer other than a fetched token. *)
LEMMA ClaimsAnswered ==
    ASSUME Claims, NEW c \in Callers, NEW via, NEW token, NEW skew,
           Answer(c, via, token, skew), UNCHANGED <<kind, access_token, expires_at, ended>>,
           via # "fetched",
           via = "cached" => token # Undef /\ token + Slack > now + skew,
           via = "resumed" => token = access_token
    PROVE  Claims'
<1>1. StampSound' /\ EndedSound'
    BY DEF Claims, StampSound, EndedSound, Slack
<1>2. DirectTokenAlive'
    BY DEF DirectTokenAlive, Answer, Slack
<1>3. WaiterSharesRefresh'
    BY DEF Claims, EndedSound, WaiterSharesRefresh, Answer
<1> QED BY <1>1, <1>2, <1>3 DEF Claims

LEMMA ClaimsDied ==
    ASSUME Claims, NEW c \in Callers, FetchDies(c)
    PROVE  Claims'
<1>1. StampSound' /\ EndedSound'
    BY DEF Claims, StampSound, EndedSound, FetchDies, Slack
<1>2. DirectTokenAlive' /\ WaiterSharesRefresh'
    BY DEF DirectTokenAlive, WaiterSharesRefresh, FetchDies, Answer
<1> QED BY <1>1, <1>2 DEF Claims

LEMMA ClaimsStored ==
    ASSUME TypeOK, Timing, Claims, NEW c \in Callers, PostGrants(c)
    PROVE  Claims'
<1>1. PICK life \in Lifetimes, issued \in my[c].sent .. now :
          \E expiry \in ExpiriesFor(c, issued, life) : Store(c, issued + life, expiry)
    BY DEF PostGrants
<1>2. PICK expiry \in ExpiriesFor(c, issued, life) : Store(c, issued + life, expiry)
    BY <1>1
<1>3. pc[c] = "posting"
    BY <1>2 DEF Store
<1> DEFINE token == issued + life
<1>4. /\ token \in Nat
      /\ expiry \in Nat => expiry <= token + Slack
      /\ token + MaxLatency >= now + life
    BY <1>3, GrantSound
<1>5. token # Undef
    BY <1>4, ConstantsAssumption
<1> HIDE DEF token
<1>6. Store(c, token, expiry)
    BY <1>2 DEF token
<1>7. StampSound' /\ EndedSound'
    BY <1>4, <1>5, <1>6 DEF Store, StampSound, EndedSound, Slack
<1>8. DirectTokenAlive' /\ WaiterSharesRefresh'
    BY <1>4, <1>6 DEF Store, Answer, DirectTokenAlive, WaiterSharesRefresh
<1> QED BY <1>7, <1>8 DEF Claims

LEMMA ClaimsLackingToken ==
    ASSUME NEW c \in Callers, PostLacksToken(c)
    PROVE  Claims'
<1>1. PICK expiry : Store(c, Undef, expiry)
    BY DEF PostLacksToken
<1>2. StampSound' /\ EndedSound'
    BY <1>1 DEF Store, StampSound, EndedSound
<1>3. DirectTokenAlive' /\ WaiterSharesRefresh'
    BY <1>1 DEF Store, Answer, DirectTokenAlive, WaiterSharesRefresh
<1> QED BY <1>2, <1>3 DEF Claims

LEMMA ClaimsStep == TypeOK /\ Timing /\ Claims /\ [Next]_vars => Claims'
<1> SUFFICES ASSUME TypeOK, Timing, Claims, [Next]_vars PROVE Claims'
    OBVIOUS
<1>1. CASE Tick
    BY <1>1, ClaimsFrame DEF Tick, object
<1>2. ASSUME NEW c \in Callers, NEW skew \in Skews, GetTokenCached(c, skew)
      PROVE  Claims'
    <2>1. /\ Answer(c, "cached", access_token, skew)
          /\ UNCHANGED <<kind, access_token, expires_at, ended>>
          /\ access_token # Undef
          /\ expires_at \in Nat
          /\ ~(now + skew >= expires_at)
        BY <1>2 DEF GetTokenCached, NeedsRefresh, is_expired, object, TypeOK, Expiry
    <2>2. expires_at <= access_token + Slack
        BY <2>1 DEF Claims, StampSound
    <2>3. access_token \in Nat /\ now \in Nat /\ skew \in Nat /\ Slack \in Nat
        BY <2>1, ConstantsAssumption DEF TypeOK, Token, Slack
    <2>4. access_token + Slack > now + skew
        BY <2>1, <2>2, <2>3
    <2> QED BY <2>1, <2>4, ClaimsAnswered
<1>3. ASSUME NEW c \in Callers, GetTokenWait(c) PROVE Claims'
    BY <1>3, ClaimsFrame DEF GetTokenWait, object
<1>4. ASSUME NEW c \in Callers, NEW skew \in Skews, GetTokenFetch(c, skew)
      PROVE  Claims'
    BY <1>4, ClaimsFrame DEF GetTokenFetch
<1>5. ASSUME NEW c \in Callers, NEW skew \in Skews, GetTokenThrows(c, skew)
      PROVE  Claims'
    BY <1>5, ClaimsDied DEF GetTokenThrows
<1>6. ASSUME NEW c \in Callers, YieldAgain(c) PROVE Claims'
    BY <1>6, ClaimsFrame DEF YieldAgain, object
<1>7. ASSUME NEW c \in Callers, StopWaiting(c) PROVE Claims'
    <2> DEFINE via == IF is_refreshing THEN "gave_up" ELSE "resumed"
    <2>1. Answer(c, via, access_token, 0) /\ UNCHANGED <<kind, access_token, expires_at, ended>>
        BY <1>7 DEF StopWaiting, object
    <2>2. via # "fetched" /\ via # "cached"
        OBVIOUS
    <2> HIDE DEF via
    <2> QED BY <2>1, <2>2, ClaimsAnswered
<1>8. ASSUME NEW c \in Callers, LookupDone(c) PROVE Claims'
    BY <1>8, ClaimsFrame DEF LookupDone, object
<1>9. ASSUME NEW c \in Callers, LookupFails(c) \/ PostDies(c) PROVE Claims'
    BY <1>9, ClaimsDied DEF LookupFails, PostDies
<1>10. ASSUME NEW c \in Callers, NextExchange(c) PROVE Claims'
    BY <1>10, ClaimsFrame DEF NextExchange, object
<1>11. ASSUME NEW c \in Callers, PostGrants(c) PROVE Claims'
    BY <1>11, ClaimsStored
<1>12. ASSUME NEW c \in Callers, PostLacksToken(c) PROVE Claims'
    BY <1>12, ClaimsLackingToken
<1>13. ASSUME NEW c \in Callers, PostRetries(c) PROVE Claims'
    BY <1>13, ClaimsFrame DEF PostRetries, object
<1>14. ASSUME NEW c \in Callers, Wake(c) PROVE Claims'
    BY <1>14, ClaimsFrame DEF Wake, object
<1>15. CASE UNCHANGED vars
    BY <1>15, ClaimsFrame DEF vars, object
<1> QED
    BY <1>1, <1>2, <1>3, <1>4, <1>5, <1>6, <1>7, <1>8, <1>9, <1>10, <1>11, <1>12,
       <1>13, <1>14, <1>15 DEF Next, Enter, Resume

(* The whole inductive invariant holds in every behaviour: exclusion, the   *)
(* order of instants and the claims about tokens.                          *)
THEOREM Invariance == Spec => []IInv
<1>1. Init => Timing /\ Claims
    BY DEF Init, Timing, Fetching, Claims, StampSound, EndedSound, DirectTokenAlive,
           WaiterSharesRefresh
<1>2. TypeOK /\ SingleFlight /\ Timing /\ Claims => IInv
    BY DEF IInv, Claims
<1> QED BY <1>1, <1>2, TypeCorrect, RefreshIsExclusive, TimingStep, ClaimsStep, PTL
        DEF Spec

(* The recorded expiry never overstates the cached token's life by more     *)
(* than one request takes, for every kind of credentials.                  *)
THEOREM ExpiryIsSound == Spec => []StampSound
BY Invariance, PTL DEF IInv

(* A token that get_token answers without waiting is alive when it answers, *)
(* by the margin DirectTokenAlive states.                                  *)
THEOREM DirectAnswersAlive == Spec => []DirectTokenAlive
BY Invariance, PTL DEF IInv

(* A caller that waited for a successful refresh answers with a token that  *)
(* refresh obtained.                                                       *)
THEOREM WaitersShare == Spec => []WaiterSharesRefresh
BY Invariance, PTL DEF IInv
=============================================================================
