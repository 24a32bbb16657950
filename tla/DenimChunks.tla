---------------------------- MODULE DenimChunks ----------------------------
(***************************************************************************)
(* The chunk format that both directions of the deniable transport share   *)
(* (common/src/deniable/chunk.rs, common/src/web_api/mod.rs): a deniable   *)
(* payload is cut into DenimChunks that travel inside regular messages.    *)
(*                                                                         *)
(* The bytes of a chunk are abstracted to the slice of the payload they    *)
(* are: bytes lo..hi of the payload with number id.  A dummy carries no    *)
(* payload (id 0), only its size.                                          *)
(***************************************************************************)
EXTENDS Integers, Sequences

CONSTANT EmptyDenimChunkSize   \* serialized size of a chunk with an empty body

ASSUME HeaderAssumption == EmptyDenimChunkSize \in Nat \ {0}

(* ChunkType as the i32 of DenimChunk.flags: Data(order) is any value <= 0. *)
DummyFlag == 1
FinalFlag == 2
DataFlag(order) == order

Flags == {f \in Int : f <= 2}
Chunk == [id : Nat, lo : Nat, hi : Nat, flags : Flags]

DataChunk(id, lo, hi, order) ==
    [id |-> id, lo |-> lo, hi |-> hi, flags |-> DataFlag(order)]
FinalChunk(id, lo, hi) ==
    [id |-> id, lo |-> lo, hi |-> hi, flags |-> FinalFlag]
DummyChunk(size) ==
    [id |-> 0, lo |-> 1, hi |-> size, flags |-> DummyFlag]

IsDummy(c) == c.flags = DummyFlag
IsFinal(c) == c.flags = FinalFlag

(* Serialized size of a chunk. *)
SizeOf(c) == EmptyDenimChunkSize + (c.hi - c.lo + 1)

(* Serialized size of the chunks of a message. *)
SizeOfAll(s) ==
    LET upTo[i \in 0..Len(s)] == IF i = 0 THEN 0 ELSE upTo[i - 1] + SizeOf(s[i])
    IN  upTo[Len(s)]

(* Mutant: chunks are sorted in ascending order of their flags. *)
PrecedesAscending(s, i, j) ==
    \/ s[i].flags < s[j].flags
    \/ s[i].flags = s[j].flags /\ i < j

(***************************************************************************)
(* Reassembly.  When a Final chunk arrives the chunks that are pending are *)
(* sorted (Ord for DenimChunk: descending flags, and the sort is stable),  *)
(* their bytes are concatenated and the bytes of the Final chunk appended. *)
(*                                                                         *)
(* Precedes(s, i, j): chunk i of s comes before chunk j once s is sorted.  *)
(***************************************************************************)
Precedes(s, i, j) ==
    \/ s[i].flags > s[j].flags
    \/ s[i].flags = s[j].flags /\ i < j

(* Chunk i comes right before chunk j once s is sorted. *)
JustBefore(s, i, j) ==
    /\ Precedes(s, i, j)
    /\ \A k \in DOMAIN s : ~(Precedes(s, i, k) /\ Precedes(s, k, j))

(***************************************************************************)
(* The bytes that reassembly hands to bincode::deserialize are exactly the *)
(* bytes 1..len of the payload of the Final chunk fin.  Anything else is   *)
(* a byte string no client ever serialized.                                *)
(***************************************************************************)
IsWholePayload(s, fin, len) ==
    /\ \A i \in DOMAIN s : s[i].id = fin.id
    /\ s = <<>> => fin.lo = 1
    /\ \A j \in DOMAIN s :
         /\ (\A i \in DOMAIN s : ~Precedes(s, i, j)) => s[j].lo = 1
         /\ (\A i \in DOMAIN s : ~Precedes(s, j, i)) => fin.lo = s[j].hi + 1
         /\ \A i \in DOMAIN s : JustBefore(s, i, j) => s[j].lo = s[i].hi + 1
    /\ fin.hi = len
=============================================================================
