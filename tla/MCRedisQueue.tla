---------------------------- MODULE MCRedisQueue ----------------------------
(***************************************************************************)
(* Instance of RedisQueue: two inserts into the message queue of a device  *)
(* or into its outgoing payload queue, or three into its two chunk queues. *)
(***************************************************************************)
EXTENDS RedisQueue

UserQueue == [cache |-> "user", buffer |-> "", address |-> "d"]
PayloadQueue == [cache |-> "payload", buffer |-> "receiver", address |-> "d"]
ChunkQueue(b) == [cache |-> "chunk", buffer |-> b, address |-> "d"]

MCQueues == {UserQueue, PayloadQueue, ChunkQueue("sender"), ChunkQueue("receiver")}

MCWriters == 1..3

MCUses ==
    {[w \in MCWriters |-> UserQueue], [w \in MCWriters |-> PayloadQueue],
     [w \in MCWriters |-> ChunkQueue(IF w = 1 THEN "receiver" ELSE "sender")]}

MCMaxInserts == [user |-> 2, chunk |-> 3, payload |-> 2]
=============================================================================
