--------------------------- MODULE VerifierProofs ----------------------------
(***************************************************************************)
(* Proofs about Verifier and the key source below it.  What is promised of *)
(* the keys held must hold of every answer on its way as well: downloads   *)
(* overlap, and any of them may be the next that is stored.                *)
(***************************************************************************)
EXTENDS Verifier, TLAPS

(* The keys are the ones the publisher had at instant t. *)
IsPicture(keys, t) ==
    \A k \in Keys :
        /\ k \in keys => /\ pubAt[k] # Never
                         /\ pubAt[k] <= t
                         /\ (retAt[k] = Never \/ t <= retAt[k])
        /\ k \notin keys => \/ pubAt[k] = Never
                            \/ pubAt[k] >= t
                            \/ (retAt[k] # Never /\ retAt[k] <= t)

(* What was published or withdrawn, was so in the past. *)
ServerPast ==
    \A k \in Keys : /\ pubAt[k] # Never => pubAt[k] <= now
                    /\ retAt[k] # Never => retAt[k] <= now

(* A download has not outlasted the timeout; an answer is a picture taken   *)
(* while it was under way.                                                 *)
RequestOK(r) ==
    r.st # "none" =>
        /\ r.sent <= now /\ now <= r.sent + MaxLatency
        /\ r.st = "answered" => /\ r.sent <= r.at /\ r.at <= now
                                /\ IsPicture(r.keys, r.at)

(* The keys held are a picture of the past, and the next download is not    *)
(* put off for longer than an interval and a download after it.            *)
SourceOK ==
    /\ snap <= now
    /\ IsPicture(current_keys, snap)
    /\ allow_refresh_at <= snap + RetryInterval + MaxLatency

KeyIInv == /\ KeySourceTypeOK /\ ServerPast /\ SourceOK
           /\ \A c \in Callers : RequestOK(req[c])

VerifierIInv == TypeOK /\ KeyIInv /\ AcceptedIsValid /\ NewKeysAreNoticed

Request == [st: {"none", "asked", "answered"}, sent: Nat, at: Nat, keys: SUBSET Keys]

-----------------------------------------------------------------------------
LEMMA PictureIsSnapshot ==
    HeldKeysAreASnapshot <=> IsPicture(current_keys, snap)
BY DEF HeldKeysAreASnapshot, IsPicture

(* The publisher's next acts do not change what it had earlier. *)
LEMMA PublishKeepsPictures ==
    ASSUME KeySourceTypeOK, NEW k \in Keys, Publish(k) \/ Withdraw(k),
           NEW keys \in SUBSET Keys, NEW t \in Nat, t <= now, IsPicture(keys, t)
    PROVE  IsPicture(keys, t)'
<1> USE KeySourceAssumption
<1> SUFFICES ASSUME NEW q \in Keys
             PROVE  /\ q \in keys => /\ pubAt'[q] # Never
                                     /\ pubAt'[q] <= t
                                     /\ (retAt'[q] = Never \/ t <= retAt'[q])
                    /\ q \notin keys => \/ pubAt'[q] = Never
                                        \/ pubAt'[q] >= t
                                        \/ (retAt'[q] # Never /\ retAt'[q] <= t)
  BY DEF IsPicture
<1>1. /\ q \in keys => /\ pubAt[q] # Never
                       /\ pubAt[q] <= t
                       /\ (retAt[q] = Never \/ t <= retAt[q])
      /\ q \notin keys => \/ pubAt[q] = Never
                          \/ pubAt[q] >= t
                          \/ (retAt[q] # Never /\ retAt[q] <= t)
  BY DEF IsPicture
<1>2. CASE Publish(k)
  <2>1. /\ pubAt[k] = Never /\ retAt' = retAt
        /\ pubAt'[q] = IF q = k THEN now ELSE pubAt[q]
    BY <1>2 DEF Publish, KeySourceTypeOK
  <2> QED
    BY <2>1, <1>1 DEF KeySourceTypeOK
<1>3. CASE Withdraw(k)
  <2>1. /\ retAt[k] = Never /\ pubAt' = pubAt
        /\ retAt'[q] = IF q = k THEN now ELSE retAt[q]
    BY <1>3 DEF Withdraw, Published, KeySourceTypeOK
  <2> QED
    BY <2>1, <1>1 DEF KeySourceTypeOK
<1> QED
  BY <1>2, <1>3

(* The answer is a picture of the instant at which it is given. *)
LEMMA PublishedIsPicture ==
    ASSUME KeySourceTypeOK, ServerPast
    PROVE  IsPicture(Published, now)
BY KeySourceAssumption DEF KeySourceTypeOK, Instant, ServerPast, IsPicture, Published

-----------------------------------------------------------------------------
(* The steps of the key source. *)

LEMMA KeySourceUnchanged ==
    ASSUME KeyIInv, UNCHANGED ksvars
    PROVE  KeyIInv'
BY DEF KeyIInv, ksvars, server, source, KeySourceTypeOK, ServerPast, SourceOK, IsPicture,
   RequestOK

LEMMA PublisherKeeps ==
    ASSUME KeyIInv, NEW k \in Keys, Publish(k) \/ Withdraw(k)
    PROVE  KeyIInv'
<1> USE KeySourceAssumption DEF KeyIInv
<1>1. UNCHANGED <<now, current_keys, allow_refresh_at, req, snap>>
  BY DEF Publish, Withdraw, source
<1>2. /\ pubAt' = pubAt \/ pubAt' = [pubAt EXCEPT ![k] = now]
      /\ retAt' = retAt \/ retAt' = [retAt EXCEPT ![k] = now]
  BY DEF Publish, Withdraw
<1>3. KeySourceTypeOK'
  BY <1>1, <1>2 DEF KeySourceTypeOK, Instant
<1>4. ServerPast'
  BY <1>1, <1>2 DEF ServerPast, KeySourceTypeOK
<1>5. SourceOK'
  <2>1. IsPicture(current_keys, snap)'
    BY <1>1, PublishKeepsPictures DEF SourceOK, KeySourceTypeOK
  <2> QED
    BY <1>1, <2>1 DEF SourceOK
<1>6. ASSUME NEW c \in Callers PROVE RequestOK(req[c])'
  <2>1. req[c] \in Request /\ RequestOK(req[c])
    BY DEF KeySourceTypeOK, Request
  <2>2. req[c].st = "answered" => IsPicture(req[c].keys, req[c].at)'
    BY <2>1, <1>1, PublishKeepsPictures DEF RequestOK, Request
  <2> QED
    BY <1>1, <2>1, <2>2 DEF RequestOK
<1> QED
  BY <1>3, <1>4, <1>5, <1>6

LEMMA ServerAnswersKeeps ==
    ASSUME KeyIInv, NEW c \in Callers, ServerAnswers(c)
    PROVE  KeyIInv'
<1> USE KeySourceAssumption DEF KeyIInv
<1> DEFINE r == [req[c] EXCEPT !.st = "answered", !.at = now, !.keys = Published]
<1>1. /\ req[c].st = "asked" /\ req' = [req EXCEPT ![c] = r]
      /\ UNCHANGED <<now, pubAt, retAt, current_keys, allow_refresh_at, snap>>
  BY DEF ServerAnswers, server, source
<1>2. req[c] \in Request /\ now \in Nat /\ Published \in SUBSET Keys
  BY DEF KeySourceTypeOK, Request, Published
<1>3. /\ r \in Request /\ r.st = "answered" /\ r.sent = req[c].sent
      /\ r.at = now /\ r.keys = Published
  BY <1>2 DEF Request
<1> HIDE DEF r
<1>4. KeySourceTypeOK'
  BY <1>1, <1>3 DEF KeySourceTypeOK, Request
<1>5. ServerPast' /\ SourceOK'
  BY <1>1 DEF ServerPast, SourceOK, IsPicture
<1>6. ASSUME NEW d \in Callers PROVE RequestOK(req[d])'
  <2>1. CASE d # c
    BY <2>1, <1>1 DEF RequestOK, IsPicture, KeySourceTypeOK
  <2>2. CASE d = c
    <3>1. req'[d] = r
      BY <2>2, <1>1 DEF KeySourceTypeOK
    <3>2. IsPicture(Published, now)
      BY PublishedIsPicture
    <3>3. req'[d].keys = Published /\ req'[d].at = now' /\ IsPicture(req[d].keys, req[d].at)'
      BY <1>1, <1>3, <3>1, <3>2 DEF IsPicture
    <3>4. r.sent <= now /\ now <= r.sent + MaxLatency
      BY <1>1, <1>3 DEF RequestOK
    <3> QED
      BY <1>1, <1>2, <1>3, <3>1, <3>3, <3>4 DEF RequestOK
  <2> QED
    BY <2>1, <2>2
<1> QED
  BY <1>4, <1>5, <1>6

(* Time passes only as far as the timeout of each download allows. *)
LEMMA KeySourceTickKeeps ==
    ASSUME KeyIInv, KeySourceTick
    PROVE  KeyIInv'
<1> USE KeySourceAssumption DEF KeyIInv
<1>1. /\ now' = now + 1
      /\ \A c \in Callers : req[c].st # "none" => now < req[c].sent + MaxLatency
      /\ UNCHANGED <<pubAt, retAt, current_keys, allow_refresh_at, req, snap>>
  BY DEF KeySourceTick, server, source
<1>2. KeySourceTypeOK'
  BY <1>1 DEF KeySourceTypeOK
<1>3. ServerPast'
  BY <1>1 DEF ServerPast, KeySourceTypeOK, Instant
<1>4. SourceOK'
  BY <1>1 DEF SourceOK, IsPicture, KeySourceTypeOK
<1>5. ASSUME NEW c \in Callers PROVE RequestOK(req[c])'
  <2>1. req[c] \in Request /\ RequestOK(req[c]) /\ now \in Nat
    BY DEF KeySourceTypeOK, Request
  <2> QED
    BY <2>1, <1>1 DEF RequestOK, IsPicture, Request
<1> QED
  BY <1>2, <1>3, <1>4, <1>5

(* One request starts or ends; what the others have on their way stays. *)
LEMMA RequestReplaced ==
    ASSUME KeyIInv, NEW c \in Callers, NEW r \in Request, req' = [req EXCEPT ![c] = r],
           UNCHANGED <<now, pubAt, retAt>>,
           r = NoRequest \/ (r.st = "asked" /\ r.sent = now)
    PROVE  /\ req' \in [Callers -> Request]
           /\ ServerPast'
           /\ \A d \in Callers : RequestOK(req[d])'
<1> USE KeySourceAssumption DEF KeyIInv
<1>1. now \in Nat /\ req \in [Callers -> Request]
  BY DEF KeySourceTypeOK, Request
<1>2. ServerPast'
  BY DEF ServerPast
<1>3. ASSUME NEW d \in Callers PROVE RequestOK(req[d])'
  <2>1. CASE d # c
    BY <2>1, <1>1 DEF RequestOK, IsPicture
  <2>2. CASE d = c
    <3>1. req'[d] = r
      BY <2>2, <1>1
    <3>2. CASE r = NoRequest
      BY <3>1, <3>2 DEF RequestOK, NoRequest
    <3>3. CASE r.st = "asked" /\ r.sent = now
      BY <3>1, <3>3, <1>1 DEF RequestOK
    <3> QED
      BY <3>2, <3>3
  <2> QED
    BY <2>1, <2>2
<1> QED
  BY <1>1, <1>2, <1>3

LEMMA RefreshStartKeeps ==
    ASSUME KeyIInv, NEW c \in Callers, RefreshStart(c)
    PROVE  KeyIInv'
<1> DEFINE r == [NoRequest EXCEPT !.st = "asked", !.sent = now]
<1>1. /\ req' = [req EXCEPT ![c] = r]
      /\ UNCHANGED <<now, pubAt, retAt, current_keys, allow_refresh_at, snap>>
  BY DEF RefreshStart, server, source
<1>2. r \in Request /\ r.st = "asked" /\ r.sent = now
  BY DEF NoRequest, Request, KeyIInv, KeySourceTypeOK
<1>3. /\ req' \in [Callers -> Request] /\ ServerPast' /\ \A d \in Callers : RequestOK(req[d])'
  <2> HIDE DEF r
  <2> QED
    BY <1>1, <1>2, RequestReplaced
<1>4. KeySourceTypeOK' /\ SourceOK'
  BY <1>1, <1>3 DEF KeyIInv, KeySourceTypeOK, Request, SourceOK, IsPicture
<1> QED
  BY <1>3, <1>4 DEF KeyIInv

LEMMA NoRequestIsOne == NoRequest \in Request
BY DEF NoRequest, Request

(* Whichever answer is stored, it is a picture no older than its request. *)
LEMMA RefreshStoresKeeps ==
    ASSUME KeyIInv, NEW c \in Callers, RefreshStores(c)
    PROVE  KeyIInv'
<1> USE KeySourceAssumption
<1>1. /\ req[c].st = "answered" /\ req' = [req EXCEPT ![c] = NoRequest]
      /\ current_keys' = req[c].keys /\ snap' = req[c].at
      /\ allow_refresh_at' = now + RetryInterval
      /\ UNCHANGED <<now, pubAt, retAt>>
  BY DEF RefreshStores, server
<1>2. /\ req[c] \in Request /\ now \in Nat
      /\ req[c].sent <= req[c].at /\ req[c].at <= now
      /\ now <= req[c].sent + MaxLatency
      /\ IsPicture(req[c].keys, req[c].at)
  BY <1>1 DEF KeyIInv, KeySourceTypeOK, Request, RequestOK
<1>3. /\ req' \in [Callers -> Request] /\ ServerPast' /\ \A d \in Callers : RequestOK(req[d])'
  BY <1>1, NoRequestIsOne, RequestReplaced
<1>4. KeySourceTypeOK'
  BY <1>1, <1>2, <1>3 DEF KeyIInv, KeySourceTypeOK, Request
<1>5. SourceOK'
  <2>1. IsPicture(current_keys, snap)'
    BY <1>1, <1>2 DEF IsPicture
  <2>2. /\ snap' <= now'
        /\ allow_refresh_at' <= snap' + RetryInterval + MaxLatency
    BY <1>1, <1>2 DEF Request
  <2> QED
    BY <2>1, <2>2 DEF SourceOK
<1> QED
  BY <1>3, <1>4, <1>5 DEF KeyIInv

LEMMA RefreshDiesKeeps ==
    ASSUME KeyIInv, NEW c \in Callers, RefreshDies(c)
    PROVE  KeyIInv'
<1>1. /\ req' = [req EXCEPT ![c] = NoRequest]
      /\ UNCHANGED <<now, pubAt, retAt, current_keys, allow_refresh_at, snap>>
  BY DEF RefreshDies, server, source
<1>2. /\ req' \in [Callers -> Request] /\ ServerPast' /\ \A d \in Callers : RequestOK(req[d])'
  BY <1>1, NoRequestIsOne, RequestReplaced
<1>3. KeySourceTypeOK' /\ SourceOK'
  BY <1>1, <1>2 DEF KeyIInv, KeySourceTypeOK, Request, SourceOK, IsPicture
<1> QED
  BY <1>2, <1>3 DEF KeyIInv

(* Every step of the verifier is a step of the key source or leaves it. *)
LEMMA KeyIInvInductive ==
    ASSUME KeyIInv, [Next]_vars
    PROVE  KeyIInv'
<1>1. CASE Environment
  BY <1>1, PublisherKeeps, ServerAnswersKeeps, KeySourceTickKeeps DEF Environment
<1>2. CASE \E c \in Callers : RefreshStart(c) \/ RefreshStores(c) \/ RefreshDies(c)
  BY <1>2, RefreshStartKeeps, RefreshStoresKeeps, RefreshDiesKeeps
<1>3. CASE UNCHANGED ksvars
  BY <1>3, KeySourceUnchanged
<1> QED
  BY <1>1, <1>2, <1>3 DEF Next, Verify, VerifyMalformed, VerifyAtOnce, VerifyDownloads,
     VerifyRefreshed, VerifyDies, vars

LEMMA KeyIInvInitially == KeySourceInit => KeyIInv
<1> SUFFICES ASSUME KeySourceInit PROVE KeyIInv
  OBVIOUS
<1> USE KeySourceAssumption
<1>1. req \in [Callers -> Request] /\ \A c \in Callers : req[c].st = "none"
  BY NoRequestIsOne DEF KeySourceInit, NoRequest
<1>2. KeySourceTypeOK
  BY <1>1 DEF KeySourceInit, KeySourceTypeOK, Request, Instant
<1>3. ServerPast /\ SourceOK
  BY DEF KeySourceInit, ServerPast, SourceOK, IsPicture
<1> QED
  BY <1>1, <1>2, <1>3 DEF KeyIInv, RequestOK

-----------------------------------------------------------------------------
(* The checks of the claims. *)

LEMMA FirstOfSix ==
    ASSUME NEW S \in SUBSET (1 .. 6), S # {}
    PROVE  Min(S) \in 1 .. 6
<1>1. \E x \in S : \A y \in S : x <= y
  <2>1. CASE 1 \in S
    BY <2>1
  <2>2. CASE 1 \notin S /\ 2 \in S
    BY <2>2
  <2>3. CASE 1 \notin S /\ 2 \notin S /\ 3 \in S
    BY <2>3
  <2>4. CASE 1 \notin S /\ 2 \notin S /\ 3 \notin S
    <3>1. CASE 4 \in S
      BY <2>4, <3>1
    <3>2. CASE 4 \notin S /\ 5 \in S
      BY <2>4, <3>2
    <3>3. CASE 4 \notin S /\ 5 \notin S
      <4>1. \A y \in S : y = 6
        BY <2>4, <3>3
      <4>2. \E x \in S : x = 6
        BY <4>1, Zenon
      <4> QED
        BY <4>1, <4>2
    <3> QED
      BY <3>1, <3>2, <3>3
  <2> QED
    BY <2>1, <2>2, <2>3, <2>4
<1> QED
  BY <1>1 DEF Min

(* Only a token that fails none of the checks is accepted, and none of them *)
(* speaks of the signature or the key source.                              *)
LEMMA ChecksDecide ==
    ASSUME NEW request
    PROVE  /\ CheckClaims(request) \in Verdicts \ {"none", "SignatureError", "KeySourceError"}
           /\ CheckClaims(request) = "accepted" =>
                 /\ ~(request.exp # Never /\ request.exp + ClockSkew < now)
                 /\ ~(request.nbf # Never /\ request.nbf > now + ClockSkew)
                 /\ ~(request.iat # Never /\ request.iat > now + ClockSkew)
<1> DEFINE checks == Checks(request)
           failing == {i \in DOMAIN checks : checks[i].fails}
<1>1. DOMAIN checks = 1 .. 6
  BY DEF Checks
<1>2. \A i \in 1 .. 6 : checks[i].error \in Verdicts \ {"none", "accepted", "SignatureError",
                                                       "KeySourceError"}
  <2>1. /\ checks[1].error = "ExpiredTokenError"
        /\ checks[2].error = "VerificationError"
        /\ checks[3].error = "VerificationError"
        /\ checks[4].error = "AudienceMismatchError"
        /\ checks[5].error = "AuthorizedPartyMismatchError"
        /\ checks[6].error = "IssuerMismatchError"
    BY DEF Checks
  <2> HIDE DEF checks
  <2>2. \A i \in 1 .. 6 : i = 1 \/ i = 2 \/ i = 3 \/ i = 4 \/ i = 5 \/ i = 6
    OBVIOUS
  <2> QED
    BY <2>1, <2>2 DEF Verdicts
<1>3. /\ checks[1].fails = (request.exp # Never /\ request.exp + ClockSkew < now)
      /\ checks[2].fails = (request.nbf # Never /\ request.nbf > now + ClockSkew)
      /\ checks[3].fails = (request.iat # Never /\ request.iat > now + ClockSkew)
  BY DEF Checks
<1>4. CheckClaims(request) = IF failing = {} THEN "accepted" ELSE checks[Min(failing)].error
  BY DEF CheckClaims
<1> HIDE DEF checks
<1>5. CASE failing = {}
  <2>1. ~checks[1].fails /\ ~checks[2].fails /\ ~checks[3].fails
    BY <1>1, <1>5
  <2> QED
    BY <1>3, <1>4, <1>5, <2>1 DEF Verdicts
<1>6. CASE failing # {}
  <2>1. Min(failing) \in 1 .. 6
    <3>1. failing \in SUBSET (1 .. 6)
      BY <1>1
    <3> HIDE DEF failing
    <3> QED
      BY <1>6, <3>1, FirstOfSix
  <2> QED
    BY <1>2, <1>4, <1>6, <2>1
<1> QED
  BY <1>5, <1>6

(* A verdict on the keys given, at the instant it is given. *)
LEMMA VerdictIsRight ==
    ASSUME NEW request \in Requests, now \in Nat, NEW keys \in SUBSET Keys,
           NEW t \in Nat, pubAt \in [Keys -> Instant], IsPicture(keys, t),
           Verifies(request, keys) \/ now < t + RetryInterval + MaxLatency
    PROVE  /\ Verdict(request, keys) \in Verdicts
           /\ Verdict(request, keys) = "accepted" =>
                 /\ request.signedBy \in Keys
                 /\ pubAt[request.signedBy] # Never
                 /\ request.exp # Never => now <= request.exp + ClockSkew
                 /\ request.nbf # Never => request.nbf <= now + ClockSkew
                 /\ request.iat # Never => request.iat <= now + ClockSkew
           /\ Verdict(request, keys) = "SignatureError"
                 /\ request.signedBy \in Published =>
                    now < pubAt[request.signedBy] + RetryInterval + MaxLatency
<1> USE KeySourceAssumption, VerifierAssumption
<1>1. CASE Verifies(request, keys)
  <2>1. Verdict(request, keys) = CheckClaims(request)
    BY <1>1 DEF Verdict
  <2>2. request.signedBy \in Keys /\ pubAt[request.signedBy] # Never
    BY <1>1 DEF Verifies, IsPicture
  <2>3. ASSUME CheckClaims(request) = "accepted"
        PROVE  /\ request.exp # Never => now <= request.exp + ClockSkew
               /\ request.nbf # Never => request.nbf <= now + ClockSkew
               /\ request.iat # Never => request.iat <= now + ClockSkew
    BY <2>3, ChecksDecide DEF Instant
  <2>4. CheckClaims(request) \in Verdicts /\ CheckClaims(request) # "SignatureError"
    BY ChecksDecide
  <2> QED
    BY <2>1, <2>2, <2>3, <2>4
<1>2. CASE ~Verifies(request, keys)
  <2>1. Verdict(request, keys) = "SignatureError"
    BY <1>2 DEF Verdict
  <2>2. ASSUME request.signedBy \in Published
        PROVE  now < pubAt[request.signedBy] + RetryInterval + MaxLatency
    <3> DEFINE k == request.signedBy
    <3>1. k \in Keys /\ pubAt[k] \in Nat /\ retAt[k] = Never /\ k \notin keys
      BY <1>2, <2>2 DEF Published, Instant, Verifies
    <3>2. pubAt[k] >= t
      BY <3>1 DEF IsPicture
    <3> QED
      BY <1>2, <3>1, <3>2
  <2> QED
    BY <2>1, <2>2 DEF Verdicts
<1> QED
  BY <1>1, <1>2

-----------------------------------------------------------------------------
(* What the state says about a verdict on request, now. *)
LEMMA AnswerIsRight ==
    ASSUME TypeOK, KeySourceTypeOK', NEW c \in Callers, NEW request \in Requests,
           NEW is \in Verdicts, Answer(c, request, is),
           UNCHANGED <<now, pubAt, retAt>>,
           is = "accepted" =>
              /\ request.signedBy \in Keys
              /\ pubAt[request.signedBy] # Never
              /\ request.exp # Never => now <= request.exp + ClockSkew
              /\ request.nbf # Never => request.nbf <= now + ClockSkew
              /\ request.iat # Never => request.iat <= now + ClockSkew,
           is = "SignatureError" /\ request.signedBy \in Published =>
              now < pubAt[request.signedBy] + RetryInterval + MaxLatency
    PROVE  TypeOK' /\ AcceptedIsValid' /\ NewKeysAreNoticed'
<1>1. verdict' = [is |-> is, request |-> request] /\ asking' = [asking EXCEPT ![c] = Never]
  BY DEF Answer
<1>2. verdict'.is = is /\ verdict'.request = request
  BY <1>1
<1>3. TypeOK'
  BY <1>1 DEF TypeOK
<1>4. AcceptedIsValid'
  BY <1>2 DEF AcceptedIsValid
<1>5. NewKeysAreNoticed'
  <2>1. Published' = Published
    BY DEF Published
  <2> QED
    BY <1>2, <2>1 DEF NewKeysAreNoticed
<1> QED
  BY <1>3, <1>4, <1>5

LEMMA NoVerdictIsRight ==
    ASSUME verdict' = NoVerdict
    PROVE  /\ AcceptedIsValid' /\ NewKeysAreNoticed'
           /\ verdict' \in [is: Verdicts, request: Requests \cup {Never}]
BY DEF NoVerdict, AcceptedIsValid, NewKeysAreNoticed, Verdicts

LEMMA VerifyAtOnceKeeps ==
    ASSUME VerifierIInv, NEW c \in Callers, NEW request \in Requests, VerifyAtOnce(c, request)
    PROVE  TypeOK' /\ AcceptedIsValid' /\ NewKeysAreNoticed'
<1> USE KeySourceAssumption
<1>1. /\ Verifies(request, current_keys) \/ RefreshRefused
      /\ Answer(c, request, Verdict(request, current_keys))
      /\ UNCHANGED ksvars
  BY DEF VerifyAtOnce
<1>2. KeySourceTypeOK /\ SourceOK /\ KeySourceTypeOK'
  BY <1>1, KeySourceUnchanged DEF VerifierIInv, KeyIInv
<1>3. Verifies(request, current_keys) \/ now < snap + RetryInterval + MaxLatency
  BY <1>1, <1>2 DEF RefreshRefused, SourceOK, KeySourceTypeOK
<1>4. UNCHANGED <<now, pubAt, retAt>>
  BY <1>1 DEF ksvars, server
<1> HIDE DEF Answer
<1> QED
  BY <1>1, <1>2, <1>3, <1>4, VerdictIsRight, AnswerIsRight
     DEF VerifierIInv, SourceOK, KeySourceTypeOK

(* The download cannot have taken longer than the timeout, so a key that is *)
(* not in its answer is younger than that.                                 *)
LEMMA VerifyRefreshedKeeps ==
    ASSUME VerifierIInv, NEW c \in Callers, VerifyRefreshed(c)
    PROVE  TypeOK' /\ AcceptedIsValid' /\ NewKeysAreNoticed'
<1> USE KeySourceAssumption
<1>1. /\ asking[c] # Never /\ RefreshStores(c)
      /\ Answer(c, asking[c], Verdict(asking[c], req[c].keys))
      /\ req[c].st = "answered"
      /\ UNCHANGED <<now, pubAt, retAt>>
  BY DEF VerifyRefreshed, RefreshStores, server
<1>2. asking[c] \in Requests /\ KeySourceTypeOK
  BY <1>1 DEF VerifierIInv, TypeOK
<1>3. KeySourceTypeOK'
  BY <1>1, RefreshStoresKeeps DEF VerifierIInv, KeyIInv
<1>4. req[c] \in Request /\ RequestOK(req[c]) /\ now \in Nat
  BY <1>2 DEF VerifierIInv, KeyIInv, KeySourceTypeOK, Request
<1>5. /\ req[c].keys \in SUBSET Keys /\ req[c].at \in Nat
      /\ IsPicture(req[c].keys, req[c].at)
      /\ now < req[c].at + RetryInterval + MaxLatency
  BY <1>1, <1>4 DEF RequestOK, Request
<1> QED
  BY <1>1, <1>2, <1>3, <1>5, VerdictIsRight, AnswerIsRight
     DEF VerifierIInv, KeySourceTypeOK

LEMMA VerifyFailsKeeps ==
    ASSUME VerifierIInv, NEW c \in Callers,
           VerifyDies(c) \/ \E request \in Requests : VerifyMalformed(c, request)
    PROVE  TypeOK' /\ AcceptedIsValid' /\ NewKeysAreNoticed'
<1>1. PICK request \in Requests, is \in {"KeySourceError", "VerificationError"} :
         Answer(c, request, is) /\ UNCHANGED <<now, pubAt, retAt>>
  BY DEF VerifierIInv, TypeOK, VerifyDies, VerifyMalformed, RefreshDies, ksvars, server
<1>2. KeySourceTypeOK'
  BY RefreshDiesKeeps, KeySourceUnchanged DEF VerifierIInv, KeyIInv, VerifyDies, VerifyMalformed
<1> QED
  BY <1>1, <1>2, AnswerIsRight DEF VerifierIInv, Verdicts

(* VerifierIInv is inductive, whatever coroutines verify, download and wait *)
(* at the same time.                                                       *)
THEOREM VerifierIInvInductive == VerifierIInv /\ [Next]_vars => VerifierIInv'
<1> SUFFICES ASSUME VerifierIInv, [Next]_vars PROVE VerifierIInv'
  OBVIOUS
<1>1. KeyIInv' /\ KeySourceTypeOK'
  BY KeyIInvInductive DEF VerifierIInv, KeyIInv
<1>2. TypeOK' /\ AcceptedIsValid' /\ NewKeysAreNoticed'
  <2>1. CASE Environment /\ UNCHANGED asking /\ verdict' = NoVerdict
    BY <2>1, <1>1, NoVerdictIsRight DEF VerifierIInv, TypeOK
  <2>2. ASSUME NEW c \in Callers, NEW request \in Requests, VerifyDownloads(c, request)
        PROVE  TypeOK' /\ AcceptedIsValid' /\ NewKeysAreNoticed'
    <3>1. verdict' = NoVerdict /\ asking' = [asking EXCEPT ![c] = request]
      BY <2>2 DEF VerifyDownloads
    <3> QED
      BY <3>1, <1>1, NoVerdictIsRight DEF VerifierIInv, TypeOK
  <2>3. ASSUME NEW c \in Callers, Verify(c)
        PROVE  TypeOK' /\ AcceptedIsValid' /\ NewKeysAreNoticed'
    BY <2>2, <2>3, VerifyAtOnceKeeps, VerifyRefreshedKeeps, VerifyFailsKeeps DEF Verify
  <2>4. CASE UNCHANGED vars
    BY <2>4, <1>1 DEF vars, ksvars, server, source, VerifierIInv, TypeOK, AcceptedIsValid,
       NewKeysAreNoticed, Published
  <2> QED
    BY <2>1, <2>3, <2>4 DEF Next
<1> QED
  BY <1>1, <1>2 DEF VerifierIInv

LEMMA VerifierIInvInitially == Init => VerifierIInv
<1> SUFFICES ASSUME Init PROVE VerifierIInv
  OBVIOUS
<1>1. KeyIInv
  BY KeyIInvInitially DEF Init
<1>2. verdict.is = "none" /\ verdict \in [is: Verdicts, request: Requests \cup {Never}]
  BY DEF Init, NoVerdict, Verdicts
<1>3. TypeOK
  BY <1>1, <1>2 DEF Init, TypeOK, KeyIInv
<1> QED
  BY <1>1, <1>2, <1>3 DEF VerifierIInv, AcceptedIsValid, NewKeysAreNoticed

LEMMA VerifierIInvAlways == Spec => []VerifierIInv
BY VerifierIInvInitially, VerifierIInvInductive, PTL DEF Spec

(* verify accepts only tokens signed with a published key and within their  *)
(* times when it answers, for any set of keys, callers and requests.       *)
THEOREM AcceptedTokensAreValid == Spec => []AcceptedIsValid
<1>1. VerifierIInv => AcceptedIsValid
  BY DEF VerifierIInv
<1> QED
  BY <1>1, VerifierIInvAlways, PTL

(* verify refuses a published key's signature only while the key is younger *)
(* than the retry interval and a download.                                 *)
THEOREM NewKeysAreSoonNoticed == Spec => []NewKeysAreNoticed
<1>1. VerifierIInv => NewKeysAreNoticed
  BY DEF VerifierIInv
<1> QED
  BY <1>1, VerifierIInvAlways, PTL

(* refresh_keys never mixes two answers, however downloads overlap. *)
THEOREM HeldKeysAreOneAnswer == Spec => []HeldKeysAreASnapshot
<1>1. VerifierIInv => HeldKeysAreASnapshot
  BY PictureIsSnapshot DEF VerifierIInv, KeyIInv, SourceOK
<1> QED
  BY <1>1, VerifierIInvAlways, PTL

(* While refresh_keys refuses to download, its keys are fresh. *)
THEOREM RefusalsAreJustified == Spec => []RefusedKeysAreFresh
<1>1. VerifierIInv => RefusedKeysAreFresh
  BY KeySourceAssumption DEF VerifierIInv, KeyIInv, SourceOK, KeySourceTypeOK,
     RefusedKeysAreFresh, RefreshRefused
<1> QED
  BY <1>1, VerifierIInvAlways, PTL
=============================================================================
