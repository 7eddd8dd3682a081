--------------------------- MODULE MCAnnotations ---------------------------
(* Annotations on small instances: one claim graded B by the report, to    *)
(* which a visa adds another that no experiment backs; a first challenge   *)
(* for any reason, a second one for a changed source.                      *)
EXTENDS Annotations

ClaimGrade == [c \in Claims |-> 2]
ProtectedClaims == [n \in 1..MaxRequests |-> <<"v1", "v2">>[n]]
ChallengeReasons == [n \in 1..MaxRequests |-> IF n = 1 THEN AllReasons ELSE {"source"}]
=============================================================================
