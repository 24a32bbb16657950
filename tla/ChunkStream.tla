---------------------------- MODULE ChunkStream ----------------------------
(***************************************************************************)
(* The payloads of one sender, one after the other, are a stream of bytes  *)
(* that create_chunks cuts into chunks.  A cursor is a place in it: off    *)
(* bytes of payload id are behind it, and cnt is the order that the next   *)
(* Data chunk gets.  The argument pays of the operators is the sequence of *)
(* payloads, of which only the field len matters here.                     *)
(***************************************************************************)
EXTENDS DenimChunks

Start(id) == [id |-> id, off |-> 0, cnt |-> 0]

(* The cursor behind chunk c. *)
After(c) ==
    IF IsFinal(c) THEN Start(c.id + 1)
                  ELSE [id |-> c.id, off |-> c.hi, cnt |-> c.flags - 1]

(* Chunk c is cut off the stream at cursor p. *)
CutAt(pays, p, c) ==
    /\ ~IsDummy(c) /\ c.id \in 1..Len(pays)
    /\ c.id = p.id /\ c.lo = p.off + 1
    /\ IF IsFinal(c) THEN c.hi = pays[c.id].len ELSE c.flags = p.cnt

(* s is an unbroken run of chunks from cursor p on, and ends at End(p, s). *)
Linked(pays, p, s) ==
    \A i \in 1..Len(s) : CutAt(pays, IF i = 1 THEN p ELSE After(s[i - 1]), s[i])

End(p, s) == IF s = <<>> THEN p ELSE After(s[Len(s)])

(* The same for a run with dummies in it, from cursor p to cursor q. *)
NoReal(s, i, j) == \A k \in i..j : IsDummy(s[k])

Chain(pays, p, s, q) ==
    /\ NoReal(s, 1, Len(s)) => p = q
    /\ \A j \in 1..Len(s) : ~IsDummy(s[j]) =>
         /\ NoReal(s, 1, j - 1) => CutAt(pays, p, s[j])
         /\ NoReal(s, j + 1, Len(s)) => q = After(s[j])
         /\ \A i \in 1..(j - 1) :
              ~IsDummy(s[i]) /\ NoReal(s, i + 1, j - 1)
                  => CutAt(pays, After(s[i]), s[j])
=============================================================================
