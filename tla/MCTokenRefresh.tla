---------------------------- MODULE MCTokenRefresh ----------------------------
(* Small instances of TokenRefresh: a request and a sweep on two workers.    *)
EXTENDS TokenRefresh, TLC

CONSTANTS w1, w2, r1, s1

MCHome == r1 :> w1 @@ s1 :> w2

(* Once a slot has lapsed under its owner, no property says anything of what *)
(* follows; once the whole map is being rewritten, only that renewals        *)
(* exclude each other, and one renewal beside the rewrite shows that.        *)
Explored ==
  /\ Without({"lapsed"})
  /\ "rewrite" \in happened => bulk # NoBulk /\ issued <= 2
=============================================================================
