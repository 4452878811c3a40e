------------------------------ MODULE MCVerifier -----------------------------
(***************************************************************************)
(* A small instance of Verifier.  Each request differs from a plain token  *)
(* in a few things: the key that signed it, its times, its parties, what   *)
(* the caller asks for; and one token does not parse.                      *)
(***************************************************************************)
EXTENDS Verifier, TLC

CONSTANTS k1, k2

CallerSymmetry == Permutations(Callers)

Plain(k) == [malformed |-> FALSE, signedBy |-> k, exp |-> Never, nbf |-> Never,
             iat |-> Never, aud |-> {}, azp |-> {}, cid |-> {}, iss |-> "google",
             wantAud |-> Never, wantAzp |-> Never, wantIss |-> Never]

MCRequests ==
    { Plain(k1),
      [Plain(k1) EXCEPT !.exp = 2, !.aud = {"app"}, !.wantAud = {"other"}],
      [Plain(k2) EXCEPT !.nbf = 3, !.iat = 2],
      [Plain(k1) EXCEPT !.cid = {"app"}, !.wantAzp = {"app"}, !.wantIss = {"iap"}],
      [Plain(k2) EXCEPT !.azp = {"app"}, !.cid = {"web"}, !.wantAzp = {"web"}],
      [Plain(Never) EXCEPT !.malformed = TRUE] }
=============================================================================
