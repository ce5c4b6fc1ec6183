-------------------------------- MODULE MCApi ---------------------------------
(***************************************************************************)
(* Api for TLC: two submissions with one idempotency key, the second of    *)
(* them maybe a retry, one that asks for too many attempts and one that    *)
(* asks for a negative number of them.                                     *)
(***************************************************************************)
EXTENDS Api, TLC

CONSTANTS q1, q2, q3, q4, k1

MCFiles == <<"0001", "0002">>
MCKeyOf == q1 :> k1 @@ q2 :> k1 @@ q3 :> NoKey @@ q4 :> NoKey
MCAsks == q1 :> 0 @@ q2 :> 1 @@ q3 :> MaxAttemptsCeiling + 1 @@ q4 :> -1

===============================================================================
