------------------------------ MODULE Verifier -------------------------------
(***************************************************************************)
(* Google::Auth::IDTokens::Verifier->verify on top of an HTTP key source.  *)
(* A token is checked against the keys held; only when none of them        *)
(* verifies it are the keys refreshed, once.  Then its times are compared  *)
(* with the clock, read after the refresh, and its parties with the ones   *)
(* expected.                                                               *)
(*                                                                         *)
(* A request is a token and the options verify is called with: the key     *)
(* that signed it (SignedBy, or Never for a signature no key verifies), the *)
(* claims exp, nbf and iat (Never when absent), the sets aud and azp, and  *)
(* iss; and expected parties (Never when not asked for).                   *)
(***************************************************************************)
EXTENDS KeySource, FiniteSetsExt

CONSTANTS
    Requests,    \* the tokens presented, with their options
    ClockSkew    \* option clock_skew (300 in the code)

ASSUME VerifierAssumption ==
    /\ ClockSkew \in Nat
    /\ \A request \in Requests : {request.exp, request.nbf, request.iat} \subseteq Instant

VARIABLES
    asking,      \* the request each caller is verifying, or Never
    verdict      \* history: the verdict just given, and on which request

vars == <<ksvars, asking, verdict>>

Verdicts == {"none", "accepted", "SignatureError", "KeySourceError",
             "ExpiredTokenError", "VerificationError", "AudienceMismatchError",
             "AuthorizedPartyMismatchError", "IssuerMismatchError"}

TypeOK ==
    /\ KeySourceTypeOK
    /\ asking \in [Callers -> Requests \cup {Never}]
    /\ verdict \in [is: Verdicts, request: Requests \cup {Never}]

NoVerdict == [is |-> "none", request |-> Never]

Init ==
    /\ KeySourceInit
    /\ asking = [c \in Callers |-> Never]
    /\ verdict = NoVerdict

-----------------------------------------------------------------------------
(* verify_with_keys: some key with the token's kid verifies its signature. *)
Verifies(request, keys) == request.signedBy \in keys

(* azp falls back on cid when the token has no azp. *)
AuthorizedParties(request) ==
    IF request.azp = {} THEN request.cid ELSE request.azp

(* Faulty variant: the skew is granted twice, and the parties are not      *)
(* looked at.                                                              *)
Faulty_Checks(request) == <<
    [fails |-> request.exp # Never /\ request.exp + ClockSkew < now,
     error |-> "ExpiredTokenError"],
    [fails |-> request.nbf # Never /\ request.nbf > now + 2 * ClockSkew,
     error |-> "VerificationError"],
    [fails |-> request.iat # Never /\ request.iat > now + ClockSkew,
     error |-> "VerificationError"] >>

(* The checks after the signature, in the order of the code: the first that *)
(* fails decides.                                                          *)
Checks(request) == <<
    [fails |-> request.exp # Never /\ request.exp + ClockSkew < now,
     error |-> "ExpiredTokenError"],
    [fails |-> request.nbf # Never /\ request.nbf > now + ClockSkew,
     error |-> "VerificationError"],
    [fails |-> request.iat # Never /\ request.iat > now + ClockSkew,
     error |-> "VerificationError"],
    [fails |-> request.wantAud # Never /\ request.aud \cap request.wantAud = {},
     error |-> "AudienceMismatchError"],
    [fails |-> request.wantAzp # Never
                 /\ AuthorizedParties(request) \cap request.wantAzp = {},
     error |-> "AuthorizedPartyMismatchError"],
    [fails |-> request.wantIss # Never /\ request.iss \notin request.wantIss,
     error |-> "IssuerMismatchError"] >>

CheckClaims(request) ==
    LET checks == Checks(request)
        failing == {i \in DOMAIN checks : checks[i].fails}
    IN  IF failing = {} THEN "accepted" ELSE checks[Min(failing)].error

Verdict(request, keys) ==
    IF Verifies(request, keys) THEN CheckClaims(request) ELSE "SignatureError"

Answer(c, request, is) ==
    /\ asking' = [asking EXCEPT ![c] = Never]
    /\ verdict' = [is |-> is, request |-> request]

-----------------------------------------------------------------------------
(* verify. *)

(* Not three parts, a part that does not decode, or no kid: verify dies     *)
(* before it looks at any key.                                             *)
VerifyMalformed(c, request) ==
    /\ asking[c] = Never
    /\ request.malformed
    /\ Answer(c, request, "VerificationError")
    /\ UNCHANGED ksvars

(* A key held verifies the token, or none does and refresh_keys returns the *)
(* same keys because it refuses to download.                               *)
VerifyAtOnce(c, request) ==
    /\ asking[c] = Never
    /\ ~request.malformed
    /\ Verifies(request, current_keys) \/ RefreshRefused
    /\ Answer(c, request, Verdict(request, current_keys))
    /\ UNCHANGED ksvars

VerifyDownloads(c, request) ==
    /\ asking[c] = Never
    /\ ~request.malformed
    /\ ~Verifies(request, current_keys)
    /\ RefreshStart(c)
    /\ asking' = [asking EXCEPT ![c] = request]
    /\ verdict' = NoVerdict

VerifyRefreshed(c) ==
    /\ asking[c] # Never
    /\ RefreshStores(c)
    /\ Answer(c, asking[c], Verdict(asking[c], req[c].keys))

VerifyDies(c) ==
    /\ asking[c] # Never
    /\ RefreshDies(c)
    /\ Answer(c, asking[c], "KeySourceError")

Verify(c) ==
    \/ \E request \in Requests : \/ VerifyMalformed(c, request)
                                \/ VerifyAtOnce(c, request)
                                \/ VerifyDownloads(c, request)
    \/ VerifyRefreshed(c)
    \/ VerifyDies(c)

Next ==
    \/ Environment /\ UNCHANGED asking /\ verdict' = NoVerdict
    \/ \E c \in Callers : Verify(c)

Spec == Init /\ [][Next]_vars

-----------------------------------------------------------------------------
(* Properties. *)

(* An accepted token was signed by a key the publisher had published, and   *)
(* is within its times at the instant of the verdict, however long the     *)
(* download took in between.                                               *)
AcceptedIsValid ==
    verdict.is = "accepted" =>
        LET r == verdict.request IN
        /\ r.signedBy \in Keys
        /\ pubAt[r.signedBy] # Never
        /\ r.exp # Never => now <= r.exp + ClockSkew
        /\ r.nbf # Never => r.nbf <= now + ClockSkew
        /\ r.iat # Never => r.iat <= now + ClockSkew

(* A token signed with a key that is still published is refused as badly    *)
(* signed only while that key is new: younger than the interval and one    *)
(* download together.  Overlapping downloads do not make it worse.         *)
NewKeysAreNoticed ==
    verdict.is = "SignatureError" /\ verdict.request.signedBy \in Published =>
        now < pubAt[verdict.request.signedBy] + RetryInterval + MaxLatency
=============================================================================
