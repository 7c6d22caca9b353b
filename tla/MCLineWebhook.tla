----------------------------- MODULE MCLineWebhook -----------------------------
(***************************************************************************)
(* Values for the runs of LineWebhook: the batches two users give rise to. *)
(* u1 follows, blocks and follows again, so its events are in different    *)
(* batches and may be handled in any order; b1 also holds events that are  *)
(* left out and one of u2, which a handler reaches only after u1's.        *)
(***************************************************************************)
EXTENDS LineWebhook, TLC

CONSTANTS u1, u2, b1, b2, b3

MCUsers == {u1, u2}
MCBatches == {b1, b2, b3}

MCContent ==
    (b1 :> << [type |-> "follow",   user |-> u1,     at |-> 1],
              [type |-> "other",    user |-> u1,     at |-> 1],
              [type |-> "follow",   user |-> NoUser, at |-> 2],
              [type |-> "unfollow", user |-> u2,     at |-> 2] >>) @@
    (b2 :> << [type |-> "unfollow", user |-> u1,     at |-> 3],
              [type |-> "follow",   user |-> u2,     at |-> 1] >>) @@
    (b3 :> << [type |-> "follow",   user |-> u1,     at |-> 4] >>)
===============================================================================
