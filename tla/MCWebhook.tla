------------------------------ MODULE MCWebhook ------------------------------
(* An instance of Webhook for TLC, with a scene for each part: three       *)
(* requests that guess from one address beside one from another, with room *)
(* for one record; a guess from the loopback; a repeated event beside      *)
(* another of its user; three events that push the first one out of the    *)
(* cache, without and with its repetition; and two events of one content.  *)
EXTENDS Webhook, TLC

CONSTANTS q1, q2, q3, q4, q5, q6, far, near, mid, k1, k2, k3, k4, bg, bc, bu, bv, bi, bj

SixRequests == {q1, q2, q3, q4, q5, q6}
SixIp == [r \in SixRequests |-> CASE r = q5 -> mid [] r = q6 -> near [] OTHER -> far]
SixKey == q1 :> k1 @@ q2 :> k2 @@ q3 :> k3 @@ q4 :> k1 @@ q5 :> k4 @@ q6 :> k4
SixBucket == [r \in SixRequests |->
  "global" :> bg @@ "channel" :> bc @@ "user" :> (IF r \in {q1, q2, q4} THEN bu ELSE bv)
  @@ "ip" :> (IF r \in {q5, q6} THEN bj ELSE bi)]
SixBuckets == {bg, bc, bu, bv, bi, bj}
OneOrTwo == [b \in SixBuckets |-> IF b \in {bg, bc, bi} THEN 2 ELSE 1]

SixScenes == {
  [sent |-> {q1, q2, q3, q5}, wrong |-> {q1, q2, q3, q5}, end |-> 4],
  [sent |-> {q6}, wrong |-> {q6}, end |-> 1],
  [sent |-> {q1, q2, q4}, wrong |-> {}, end |-> 3],
  [sent |-> {q1, q2, q3}, wrong |-> {}, end |-> 2],
  [sent |-> {q1, q2, q3, q4}, wrong |-> {}, end |-> 1],
  [sent |-> {q5, q6}, wrong |-> {}, end |-> 4]}
=============================================================================
