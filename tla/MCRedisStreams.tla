---------------------------- MODULE MCRedisStreams ----------------------------
(* The Redis Streams transport: one consumer, its group's other members, two *)
(* streams and two entries, of which one may be somebody else's.             *)
EXTENDS RedisStreams
==============================================================================
