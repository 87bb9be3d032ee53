---------------------------- MODULE MCRedisQueue ----------------------------
(* Instances of RedisQueue for TLC. *)
EXTENDS RedisQueue

(* Everything but a death between BLPOP and ZADD. *)
OutsideClaim ==
  {"idle", "recovering", "rescuing", "claiming", "holding", "ackReply"}
=============================================================================
