-------------------------- MODULE DownlinkProofs --------------------------
(***************************************************************************)
(* Proofs about Downlink: for all lengths of payloads, free spaces, numbers *)
(* of payloads and messages, and whatever fails, the client holds chunks   *)
(* in the order in which they were cut off, a payload of which no chunk is *)
(* lost is put together right, and the downlink is a DeniableChannel.      *)
(*                                                                         *)
(* The argument: every chunk between the outgoing payload buffer and the   *)
(* client was cut off at a place of the stream of payloads, and the places *)
(* the chunks lie in (stored, pending, incoming, the messages of net, part *)
(* and the buffer) are themselves in the order of the stream (Ordered).    *)
(* Until something fails the chunks also leave no gap (Unbroken).          *)
(***************************************************************************)
EXTENDS MCDownlink, FiniteSetTheorems, SequenceTheorems, TLAPS

(***************************************************************************)
(* Sizes.                                                                  *)
(***************************************************************************)
(* Induction on the natural numbers, for a set. *)
LEMMA SetInduction ==
    ASSUME NEW S, 0 \in S, \A n \in Nat : n \in S => n + 1 \in S
    PROVE  Nat \subseteq S
<1> SUFFICES ASSUME NEW m \in Nat, m \notin S PROVE FALSE
    OBVIOUS
<1> DEFINE T == {k \in 0..m : k \in S}
           From(k) == {x \in T : k <= x}
           tops == {From(k) : k \in T}
           R == StrictSubsetOrdering(T)
<1>1. IsFiniteSet(T)
    <2>1. IsFiniteSet(0..m)
        BY FS_Interval
    <2> QED BY <2>1, FS_Subset
<1>2. IsWellFoundedOn(R, FiniteSubsetsOf(T))
    BY FS_StrictSubsetOrderingWellFounded
<1>3. tops \subseteq FiniteSubsetsOf(T)
    BY <1>1, FS_FiniteSubsetsOfFinite
<1>4. 0 \in T
    OBVIOUS
<1>5. PICK top \in tops : \A Q \in tops : <<Q, top>> \notin R
    <2>1. tops # {}
        BY <1>4
    <2> HIDE DEF tops, R
    <2> QED BY <1>2, <1>3, <2>1, WFMin
<1>6. PICK k \in T : top = From(k)
    BY <1>5
<1>7. k \in Nat /\ k # m /\ k + 1 \in T
    OBVIOUS
<1>8. From(k + 1) \subseteq From(k) /\ From(k + 1) # From(k)
    <2>1. k \in From(k) /\ k \notin From(k + 1)
        BY <1>7
    <2>2. ASSUME NEW x \in T, k + 1 <= x PROVE k <= x
        BY <1>7, <2>2
    <2> QED BY <2>1, <2>2
<1>9. <<From(k + 1), From(k)>> \in R
    BY <1>8 DEF StrictSubsetOrdering
<1> QED BY <1>5, <1>6, <1>7, <1>9

(* The sum over the chunks of a message exists, and grows by its last one. *)
SizeRule(s, f) ==
    f = [i \in 0..Len(s) |-> IF i = 0 THEN 0 ELSE f[i - 1] + SizeOf(s[i])]

LEMMA SizeSum ==
    ASSUME NEW s \in Seq(Chunk)
    PROVE  \E f : SizeRule(s, f) /\ SizeOfAll(s) = f[Len(s)]
  <1> DEFINE L == Len(s)
             Upto(f, n) == f = [i \in 0..n |-> IF i = 0 THEN 0 ELSE f[i - 1] + SizeOf(s[i])]
             S == {n \in Nat : \E f : Upto(f, n)}
  <1>0. L \in Nat
    BY LenProperties
  <1>1. 0 \in S
    <2>1. Upto([i \in 0..0 |-> 0], 0)
      OBVIOUS
    <2> QED BY <2>1
  <1>2. ASSUME NEW n \in Nat, n \in S PROVE n + 1 \in S
    <2>1. PICK f : Upto(f, n)
      BY <1>2
    <2> DEFINE g == [i \in 0..(n + 1) |-> IF i <= n THEN f[i] ELSE f[i - 1] + SizeOf(s[i])]
    <2>2. ASSUME NEW i \in 0..(n + 1)
          PROVE  g[i] = IF i = 0 THEN 0 ELSE g[i - 1] + SizeOf(s[i])
      <3>1. CASE i = 0
        BY <2>1, <3>1
      <3>2. CASE i # 0
        <4>1. i - 1 \in 0..n /\ g[i - 1] = f[i - 1]
          BY <3>2
        <4>2. CASE i <= n
          <5>1. i \in 0..n
            BY <4>2
          <5>2. f[i] = f[i - 1] + SizeOf(s[i])
            BY <2>1, <3>2, <5>1
          <5> QED BY <3>2, <4>1, <4>2, <5>2
        <4>3. CASE ~(i <= n)
          BY <3>2, <4>1, <4>3
        <4> QED BY <4>2, <4>3
      <3> QED BY <3>1, <3>2
    <2>3. Upto(g, n + 1)
      BY <2>2
    <2> HIDE DEF Upto, g
    <2> QED BY <2>3
  <1>3. \E f : Upto(f, L)
    <2> HIDE DEF Upto, L
    <2> QED BY <1>0, <1>1, <1>2, SetInduction
  <1> DEFINE h == CHOOSE f : Upto(f, L)
  <1>4. Upto(h, L)
    <2> HIDE DEF Upto
    <2> QED BY <1>3
  <1>5. SizeOfAll(s) = h[L]
    BY DEF SizeOfAll
  <1> HIDE DEF h
  <1> QED BY <1>4, <1>5 DEF SizeRule

(* Two such sums over messages that begin alike agree where both are. *)
LEMMA SizeAgrees ==
    ASSUME NEW s, NEW t, NEW f, NEW g, SizeRule(s, f), SizeRule(t, g),
           Len(s) \in Nat, Len(t) \in Nat, Len(s) <= Len(t),
           \A i \in 1..Len(s) : t[i] = s[i]
    PROVE  \A n \in 0..Len(s) : g[n] = f[n]
  <1> DEFINE G == {n \in Nat : n <= Len(s) => g[n] = f[n]}
  <1>1. ASSUME NEW n \in 0..Len(s)
        PROVE  f[n] = IF n = 0 THEN 0 ELSE f[n - 1] + SizeOf(s[n])
    BY DEF SizeRule
  <1>2. ASSUME NEW n \in 0..Len(s)
        PROVE  g[n] = IF n = 0 THEN 0 ELSE g[n - 1] + SizeOf(t[n])
    <2>1. n \in 0..Len(t)
      OBVIOUS
    <2> QED BY <2>1 DEF SizeRule
  <1>3. 0 \in G
    BY <1>1, <1>2
  <1>4. ASSUME NEW n \in Nat, n \in G PROVE n + 1 \in G
    <2>1. SUFFICES ASSUME n + 1 <= Len(s) PROVE g[n + 1] = f[n + 1]
      OBVIOUS
    <2>2. n + 1 \in 0..Len(s) /\ n + 1 # 0 /\ (n + 1) - 1 = n /\ n + 1 \in 1..Len(s)
      BY <2>1
    <2>3. f[n + 1] = f[n] + SizeOf(s[n + 1]) /\ g[n + 1] = g[n] + SizeOf(t[n + 1])
      BY <1>1, <1>2, <2>2
    <2>4. g[n] = f[n]
      BY <1>4, <2>1
    <2> QED BY <2>2, <2>3, <2>4
  <1>5. Nat \subseteq G
    <2> HIDE DEF G
    <2> QED BY <1>3, <1>4, SetInduction
  <1> QED BY <1>5

LEMMA SizeAppend ==
    ASSUME NEW s \in Seq(Chunk), NEW c \in Chunk
    PROVE  SizeOfAll(Append(s, c)) = SizeOfAll(s) + SizeOf(c)
  <1>0. PICK t : t = Append(s, c)
    OBVIOUS
  <1>1. /\ t \in Seq(Chunk) /\ Len(s) \in Nat /\ Len(t) = Len(s) + 1
        /\ \A i \in 1..Len(s) : t[i] = s[i]
        /\ t[Len(s) + 1] = c
    BY <1>0, LenProperties, AppendProperties
  <1>2. PICK f : SizeRule(s, f) /\ SizeOfAll(s) = f[Len(s)]
    BY SizeSum
  <1>3. PICK g : SizeRule(t, g) /\ SizeOfAll(t) = g[Len(t)]
    BY <1>1, SizeSum
  <1>4. Len(s) <= Len(t) /\ Len(t) \in Nat
    BY <1>1
  <1>5. \A n \in 0..Len(s) : g[n] = f[n]
    BY <1>1, <1>2, <1>3, <1>4, SizeAgrees
  <1>6. g[Len(s)] = f[Len(s)]
    BY <1>1, <1>5
  <1>7. g[Len(t)] = g[Len(s)] + SizeOf(c)
    <2>1. Len(t) \in 0..Len(t) /\ Len(t) # 0 /\ Len(t) - 1 = Len(s)
      BY <1>1
    <2> QED BY <1>1, <1>3, <2>1 DEF SizeRule
  <1> QED BY <1>0, <1>2, <1>3, <1>6, <1>7

LEMMA SizeType ==
    ASSUME NEW s \in Seq(Chunk)
    PROVE  SizeOfAll(s) \in Int
  <1>1. PICK f : SizeRule(s, f) /\ SizeOfAll(s) = f[Len(s)]
    BY SizeSum
  <1>2. Len(s) \in Nat
    BY LenProperties
  <1>3. ASSUME NEW i \in 1..Len(s) PROVE SizeOf(s[i]) \in Int
    <2>1. s[i] \in Chunk
      BY <1>3, ElementOfSeq
    <2> QED BY <2>1, HeaderAssumption DEF SizeOf, Chunk
  <1> DEFINE G == {n \in Nat : n <= Len(s) => f[n] \in Int}
  <1>4. 0 \in G
    BY <1>1, <1>2 DEF SizeRule
  <1>5. ASSUME NEW n \in Nat, n \in G PROVE n + 1 \in G
    <2>1. SUFFICES ASSUME n + 1 <= Len(s) PROVE f[n + 1] \in Int
      OBVIOUS
    <2>2. n + 1 \in 0..Len(s) /\ n + 1 # 0 /\ (n + 1) - 1 = n /\ n + 1 \in 1..Len(s)
      BY <1>2, <2>1
    <2>3. f[n + 1] = f[n] + SizeOf(s[n + 1])
      BY <1>1, <2>2 DEF SizeRule
    <2>4. f[n] \in Int
      BY <1>2, <1>5, <2>1
    <2> QED BY <1>3, <2>2, <2>3, <2>4
  <1>6. Nat \subseteq G
    <2> HIDE DEF G
    <2> QED BY <1>4, <1>5, SetInduction
  <1> QED BY <1>1, <1>2, <1>6

LEMMA SizeEmpty == SizeOfAll(<<>>) = 0
  <1>1. <<>> \in Seq(Chunk) /\ Len(<<>>) = 0
    BY EmptySeq
  <1>2. PICK f : SizeRule(<<>>, f) /\ SizeOfAll(<<>>) = f[Len(<<>>)]
    BY <1>1, SizeSum
  <1> QED BY <1>1, <1>2 DEF SizeRule

(* The entries of the outgoing payload buffer. *)
Entry == [id : Nat \ {0}, off : Nat, order : Int]

(* The chunks of s that are no dummies. *)
Reals(s) == {c \in {s[i] : i \in DOMAIN s} : IsReal(c)}

(* All chunks on their way, and what the client has of them. *)
InHands == Reals(stored) \cup Reals(pending) \cup Reals(incoming)
InNet == UNION {Reals(net[n]) : n \in DOMAIN net}
Carried == InHands \cup InNet \cup Reals(part)

(* c was cut off before d, from an earlier payload or from the same one,   *)
(* and got a higher order then.                                            *)
Before(c, d) ==
    \/ c.id < d.id
    \/ /\ c.id = d.id /\ c.flags <= 0 /\ c.hi < d.lo
       /\ d.flags <= 0 => d.flags < c.flags

AllBefore(A, B) == \A c \in A, d \in B : Before(c, d)

InOrder(s) ==
    \A i, j \in DOMAIN s : i < j /\ IsReal(s[i]) /\ IsReal(s[j]) => Before(s[i], s[j])

(* c was cut off before what entry h of the buffer still holds. *)
Passed(c, h) ==
    \/ c.id < h.id
    \/ c.id = h.id /\ c.flags <= 0 /\ c.hi <= h.off /\ h.order < c.flags

(* c is a slice of its payload, and the last one if it is Final. *)
Slice(c) ==
    /\ c \in Chunk
    /\ c.id \in 1..Len(sent) /\ 1 <= c.lo /\ c.lo <= c.hi
    /\ IF IsFinal(c) THEN c.hi = sent[c.id] ELSE c.hi < sent[c.id]

Slices == \A c \in Carried : Slice(c)

(* The entries of the buffer are payloads in the order of their arrival,   *)
(* none of them empty, and only the first has been cut.                    *)
BufferOK ==
    /\ \A k \in DOMAIN outbuf :
         /\ outbuf[k].id \in 1..Len(sent) /\ outbuf[k].off < sent[outbuf[k].id]
         /\ outbuf[k].order <= 0
         /\ k > 1 => outbuf[k].off = 0
    /\ \A k, l \in DOMAIN outbuf : k < l => outbuf[k].id < outbuf[l].id
    /\ spc = "idle" => part = <<>>

(* What the client holds at the points of receive_message. *)
ClientOK ==
    /\ Reals(incoming) = {incoming[i] : i \in DOMAIN incoming}
    /\ \A c \in Reals(stored) \cup Reals(pending) : c.flags <= 0
    /\ \A i \in DOMAIN stored : IsReal(stored[i])
    /\ \A i \in DOMAIN pending : IsReal(pending[i])
    /\ cpc = "idle" => done = <<>>
    /\ cpc # "scan" => pending = <<>> /\ incoming = <<>>
    /\ cpc = "scan" /\ HasFinal(incoming) => stored = <<>>

(* The places are in the order of the stream, and so is each of them. *)
Ordered ==
    /\ InOrder(stored) /\ InOrder(pending) /\ InOrder(incoming) /\ InOrder(part)
    /\ \A n \in DOMAIN net : InOrder(net[n])
    /\ AllBefore(Reals(stored), Reals(pending))
    /\ AllBefore(Reals(stored), Reals(incoming))
    /\ AllBefore(Reals(pending), Reals(incoming))
    /\ AllBefore(InHands, InNet \cup Reals(part))
    /\ AllBefore(InNet, Reals(part))
    /\ \A m, n \in DOMAIN net : m < n => AllBefore(Reals(net[m]), Reals(net[n]))

(* The buffer comes after all of them. *)
BufferLast == \A c \in Carried, k \in DOMAIN outbuf : Passed(c, outbuf[k])

(* Payload id has been put together and everything that comes is later. *)
Past(id) ==
    /\ id \in 1..Len(sent)
    /\ \A k \in DOMAIN outbuf : id < outbuf[k].id
    /\ \A c \in Carried : id < c.id

(* What was put together is past, and each later than those before it. *)
OutcomeOK ==
    /\ \A i \in DOMAIN got : got[i] # 0 /\ Past(got[i])
    /\ \A i \in DOMAIN done : done[i] # 0 => Past(done[i])
    /\ \A i, j \in DOMAIN got : i < j => got[i] < got[j]
    /\ \A i, j \in DOMAIN done : i < j /\ done[j] # 0 => done[i] < done[j]
    /\ \A i \in DOMAIN got, j \in DOMAIN done : done[j] # 0 => got[i] < done[j]

Finished == Len(got) + Len(done)

(* Until something fails: the payloads put together are the first ones,    *)
(* each of the others has its Final chunk on its way or is in the buffer,  *)
(* and every slice on its way follows another one or is a first one.       *)
Unbroken ==
    ~faulty =>
        /\ \A i \in DOMAIN got : got[i] = i
        /\ \A i \in DOMAIN done : done[i] = Len(got) + i
        /\ \A c \in Carried : c.lo # 1 => \E d \in Carried : d.id = c.id /\ d.hi + 1 = c.lo
        /\ \A k \in DOMAIN outbuf : outbuf[k].off # 0 =>
              \E d \in Carried : d.id = outbuf[k].id /\ d.hi = outbuf[k].off
        /\ \A id \in 1..Len(sent) :
              \/ id <= Finished
              \/ \E d \in Carried : d.id = id /\ IsFinal(d)
              \/ \E k \in DOMAIN outbuf : outbuf[k].id = id

(* The induction invariant. *)
DownlinkInd ==
    /\ TypeOK /\ BufferOK /\ ClientOK /\ Slices /\ Ordered /\ BufferLast
    /\ OutcomeOK /\ Unbroken

-----------------------------------------------------------------------------
(* Sequences and their elements. *)
LEMMA AppendIs ==
    ASSUME NEW S, NEW s \in Seq(S), NEW x \in S
    PROVE  /\ Append(s, x) \in Seq(S) /\ Len(Append(s, x)) = Len(s) + 1
           /\ DOMAIN Append(s, x) = 1..(Len(s) + 1) /\ DOMAIN s = 1..Len(s)
           /\ \A i \in DOMAIN s : Append(s, x)[i] = s[i]
           /\ Append(s, x)[Len(s) + 1] = x
OBVIOUS

LEMMA TailIs ==
    ASSUME NEW S, NEW s \in Seq(S), s # <<>>
    PROVE  /\ Tail(s) \in Seq(S) /\ Head(s) = s[1] /\ 1 \in DOMAIN s
           /\ Len(Tail(s)) = Len(s) - 1 /\ Len(s) \in Nat \ {0} /\ s[1] \in S
           /\ DOMAIN Tail(s) = 1..(Len(s) - 1) /\ DOMAIN s = 1..Len(s)
           /\ \A i \in DOMAIN Tail(s) : i + 1 \in DOMAIN s /\ Tail(s)[i] = s[i + 1]
OBVIOUS

LEMMA EmptyIs ==
    /\ \A S : <<>> \in Seq(S)
    /\ Reals(<<>>) = {} /\ InOrder(<<>>) /\ Len(<<>>) = 0 /\ DOMAIN <<>> = {}
BY DEF Reals, InOrder

LEMMA RealsAppend ==
    ASSUME NEW s \in Seq(Chunk), NEW c \in Chunk
    PROVE  Reals(Append(s, c)) = Reals(s) \cup (IF IsReal(c) THEN {c} ELSE {})
<1>1. {Append(s, c)[i] : i \in DOMAIN Append(s, c)} = {s[i] : i \in DOMAIN s} \cup {c}
    BY AppendIs
<1> QED BY <1>1 DEF Reals

LEMMA RealsTail ==
    ASSUME NEW s \in Seq(Chunk), s # <<>>
    PROVE  Reals(s) = Reals(Tail(s)) \cup (IF IsReal(Head(s)) THEN {Head(s)} ELSE {})
<1>1. {s[i] : i \in DOMAIN s} = {Tail(s)[i] : i \in DOMAIN Tail(s)} \cup {Head(s)}
    <2>1. ASSUME NEW i \in DOMAIN s PROVE s[i] \in {Tail(s)[j] : j \in DOMAIN Tail(s)} \cup {Head(s)}
        <3>1. CASE i = 1
            BY <3>1, TailIs
        <3>2. CASE i # 1
            <4>1. i - 1 \in DOMAIN Tail(s) /\ Tail(s)[i - 1] = s[i]
                BY <3>2, TailIs
            <4> QED BY <4>1
        <3> QED BY <3>1, <3>2
    <2>2. ASSUME NEW i \in DOMAIN Tail(s) PROVE Tail(s)[i] \in {s[j] : j \in DOMAIN s}
        BY TailIs
    <2>3. Head(s) \in {s[j] : j \in DOMAIN s}
        BY TailIs
    <2> QED BY <2>1, <2>2, <2>3
<1> QED BY <1>1 DEF Reals

LEMMA RealsConcat ==
    ASSUME NEW s \in Seq(Chunk), NEW t \in Seq(Chunk)
    PROVE  Reals(s \o t) = Reals(s) \cup Reals(t)
<1>1. {(s \o t)[i] : i \in DOMAIN (s \o t)} = {s[i] : i \in DOMAIN s} \cup {t[i] : i \in DOMAIN t}
    <2>1. ASSUME NEW i \in DOMAIN t PROVE t[i] \in {(s \o t)[j] : j \in DOMAIN (s \o t)}
        <3>1. Len(s) + i \in DOMAIN (s \o t) /\ (s \o t)[Len(s) + i] = t[i]
            OBVIOUS
        <3> QED BY <3>1
    <2>2. ASSUME NEW i \in DOMAIN s PROVE s[i] \in {(s \o t)[j] : j \in DOMAIN (s \o t)}
        OBVIOUS
    <2>3. ASSUME NEW i \in DOMAIN (s \o t)
          PROVE  (s \o t)[i] \in {s[j] : j \in DOMAIN s} \cup {t[j] : j \in DOMAIN t}
        OBVIOUS
    <2> QED BY <2>1, <2>2, <2>3
<1> QED BY <1>1 DEF Reals

LEMMA OrderAppend ==
    ASSUME NEW s \in Seq(Chunk), NEW c \in Chunk, InOrder(s),
           IsReal(c) => \A d \in Reals(s) : Before(d, c)
    PROVE  InOrder(Append(s, c))
<1> SUFFICES ASSUME NEW i \in 1..(Len(s) + 1), NEW j \in 1..(Len(s) + 1), i < j,
                    IsReal(Append(s, c)[i]), IsReal(Append(s, c)[j])
             PROVE  Before(Append(s, c)[i], Append(s, c)[j])
    BY AppendIs DEF InOrder
<1>1. CASE j = Len(s) + 1
    BY <1>1, AppendIs DEF Reals
<1>2. CASE j # Len(s) + 1
    BY <1>2, AppendIs DEF InOrder
<1> QED BY <1>1, <1>2

LEMMA OrderTail ==
    ASSUME NEW s \in Seq(Chunk), s # <<>>, InOrder(s)
    PROVE  /\ InOrder(Tail(s))
           /\ IsReal(Head(s)) => \A d \in Reals(Tail(s)) : Before(Head(s), d)
<1>1. InOrder(Tail(s))
    BY TailIs DEF InOrder
<1>2. ASSUME IsReal(Head(s)), NEW i \in DOMAIN Tail(s), IsReal(Tail(s)[i])
      PROVE  Before(Head(s), Tail(s)[i])
    BY <1>2, TailIs DEF InOrder
<1> QED BY <1>1, <1>2 DEF Reals

LEMMA OrderConcat ==
    ASSUME NEW s \in Seq(Chunk), NEW t \in Seq(Chunk), InOrder(s), InOrder(t),
           AllBefore(Reals(s), Reals(t))
    PROVE  InOrder(s \o t)
<1> SUFFICES ASSUME NEW i \in 1..(Len(s) + Len(t)), NEW j \in 1..(Len(s) + Len(t)), i < j,
                    IsReal((s \o t)[i]), IsReal((s \o t)[j])
             PROVE  Before((s \o t)[i], (s \o t)[j])
    BY DEF InOrder
<1>1. CASE j <= Len(s)
    BY <1>1 DEF InOrder
<1>2. CASE i > Len(s)
    BY <1>2 DEF InOrder
<1>3. CASE i <= Len(s) /\ j > Len(s)
    <2>1. (s \o t)[i] = s[i] /\ i \in DOMAIN s
        BY <1>3
    <2>2. (s \o t)[j] = t[j - Len(s)] /\ j - Len(s) \in DOMAIN t
        BY <1>3
    <2> QED BY <2>1, <2>2 DEF AllBefore, Reals
<1> QED BY <1>1, <1>2, <1>3

(* Dropping the dummies keeps the other chunks, in their order. *)
LEMMA RealChunksIs ==
    ASSUME NEW s \in Seq(Chunk)
    PROVE  /\ RealChunks(s) \in Seq(Chunk)
           /\ \A i \in DOMAIN RealChunks(s) : IsReal(RealChunks(s)[i])
           /\ Reals(RealChunks(s)) = Reals(s)
           /\ InOrder(s) => InOrder(RealChunks(s))
<1> DEFINE Rule(f, n) ==
             f = [i \in 0..n |-> IF i = 0 THEN <<>>
                                 ELSE IF IsReal(s[i]) THEN Append(f[i - 1], s[i]) ELSE f[i - 1]]
           L == Len(s)
<1>0. L \in Nat /\ DOMAIN s = 1..L /\ \A i \in 1..L : s[i] \in Chunk
    OBVIOUS
<1>1. \E f : Rule(f, L)
    <2> DEFINE S == {n \in Nat : \E f : Rule(f, n)}
    <2>1. 0 \in S
        <3>1. Rule([i \in 0..0 |-> <<>>], 0)
            OBVIOUS
        <3> QED BY <3>1
    <2>2. ASSUME NEW n \in Nat, n \in S PROVE n + 1 \in S
        <3>1. PICK f : Rule(f, n)
            BY <2>2
        <3> DEFINE g == [i \in 0..(n + 1) |->
                           IF i <= n THEN f[i]
                           ELSE IF IsReal(s[i]) THEN Append(f[i - 1], s[i]) ELSE f[i - 1]]
        <3>2. ASSUME NEW i \in 0..(n + 1)
              PROVE  g[i] = IF i = 0 THEN <<>>
                            ELSE IF IsReal(s[i]) THEN Append(g[i - 1], s[i]) ELSE g[i - 1]
            <4>1. CASE i = 0
                BY <3>1, <4>1
            <4>2. CASE i # 0
                <5>1. i - 1 \in 0..n /\ g[i - 1] = f[i - 1]
                    BY <4>2
                <5>2. CASE i <= n
                    <6>1. i \in 0..n
                        BY <5>2
                    <6>2. f[i] = IF IsReal(s[i]) THEN Append(f[i - 1], s[i]) ELSE f[i - 1]
                        BY <3>1, <4>2, <6>1
                    <6> QED BY <4>2, <5>1, <5>2, <6>2
                <5>3. CASE ~(i <= n)
                    BY <4>2, <5>1, <5>3
                <5> QED BY <5>2, <5>3
            <4> QED BY <4>1, <4>2
        <3>3. Rule(g, n + 1)
            BY <3>2
        <3> HIDE DEF Rule, g
        <3> QED BY <3>3
    <2> HIDE DEF Rule
    <2> QED BY <1>0, <2>1, <2>2, SetInduction
<1> DEFINE f == CHOOSE f : Rule(f, L)
<1>2. Rule(f, L)
    <2> HIDE DEF Rule
    <2> QED BY <1>1
<1>3. RealChunks(s) = f[L]
    BY DEF RealChunks
<1> HIDE DEF f
<1> DEFINE Good(n) ==
             /\ f[n] \in Seq(Chunk)
             /\ \A i \in DOMAIN f[n] : IsReal(f[n][i])
             /\ Reals(f[n]) = {c \in {s[i] : i \in 1..n} : IsReal(c)}
             /\ InOrder(s) => InOrder(f[n])
           G == {n \in Nat : n <= L => Good(n)}
<1>4. 0 \in G
    <2>1. f[0] = <<>>
        BY <1>0, <1>2
    <2>2. {s[i] : i \in 1..0} = {}
        OBVIOUS
    <2> QED BY <2>1, <2>2, EmptyIs
<1>5. ASSUME NEW n \in Nat, n \in G PROVE n + 1 \in G
    <2> SUFFICES ASSUME n + 1 <= L PROVE Good(n + 1)
        OBVIOUS
    <2>1. Good(n) /\ s[n + 1] \in Chunk
        BY <1>0, <1>5
    <2>2. f[n + 1] = IF IsReal(s[n + 1]) THEN Append(f[n], s[n + 1]) ELSE f[n]
        <3>1. n + 1 \in 0..L /\ n + 1 # 0 /\ (n + 1) - 1 = n
            BY <1>0
        <3> QED BY <1>2, <3>1
    <2>3. {s[i] : i \in 1..(n + 1)} = {s[i] : i \in 1..n} \cup {s[n + 1]}
        OBVIOUS
    <2> HIDE DEF Rule
    <2>4. CASE ~IsReal(s[n + 1])
        BY <2>1, <2>2, <2>3, <2>4
    <2>5. CASE IsReal(s[n + 1])
        <3>1. f[n + 1] = Append(f[n], s[n + 1])
            BY <2>2, <2>5
        <3>2. f[n + 1] \in Seq(Chunk)
            BY <2>1, <3>1
        <3>3. \A i \in DOMAIN f[n + 1] : IsReal(f[n + 1][i])
            BY <2>1, <2>5, <3>1, AppendIs
        <3>4. Reals(f[n + 1]) = {c \in {s[i] : i \in 1..(n + 1)} : IsReal(c)}
            BY <2>1, <2>3, <2>5, <3>1, RealsAppend
        <3>5. ASSUME InOrder(s) PROVE InOrder(f[n + 1])
            <4>1. ASSUME NEW d \in Reals(f[n]) PROVE Before(d, s[n + 1])
                <5>1. PICK i \in 1..n : d = s[i] /\ IsReal(s[i])
                    BY <2>1
                <5> QED BY <1>0, <2>5, <3>5, <5>1 DEF InOrder
            <4> QED BY <2>1, <3>1, <3>5, <4>1, OrderAppend
        <3> QED BY <3>2, <3>3, <3>4, <3>5
    <2> QED BY <2>4, <2>5
<1>6. Good(L)
    <2> HIDE DEF Good
    <2>1. Nat \subseteq G
        <3> HIDE DEF G
        <3> QED BY <1>4, <1>5, SetInduction
    <2> QED BY <1>0, <2>1
<1> QED BY <1>0, <1>3, <1>6 DEF Reals

-----------------------------------------------------------------------------
(* What a chunk is. *)
LEMMA ChunkIs ==
    ASSUME NEW c \in Chunk
    PROVE  /\ c.id \in Nat /\ c.lo \in Nat /\ c.hi \in Nat /\ c.flags \in Int
           /\ IsReal(c) <=> c.flags <= 0 \/ c.flags = 2
           /\ IsFinal(c) <=> c.flags = 2
BY DEF Chunk, Flags, IsReal, IsDummy, IsFinal, DummyFlag, FinalFlag

LEMMA RealsType ==
    ASSUME NEW s \in Seq(Chunk) PROVE Reals(s) \subseteq Chunk
BY DEF Reals

LEMMA CarriedType == TypeOK => Carried \subseteq Chunk
<1> SUFFICES ASSUME TypeOK PROVE Carried \subseteq Chunk
    OBVIOUS
<1>1. \A n \in DOMAIN net : Reals(net[n]) \subseteq Chunk
    BY RealsType DEF TypeOK
<1>2. Reals(stored) \subseteq Chunk /\ Reals(pending) \subseteq Chunk
      /\ Reals(incoming) \subseteq Chunk /\ Reals(part) \subseteq Chunk
    BY RealsType DEF TypeOK
<1> QED BY <1>1, <1>2 DEF Carried, InHands, InNet

(* The places that a step leaves alone. *)
LEMMA SameNet == net' = net => InNet' = InNet
BY DEF InNet

LEMMA SameCarried ==
    ASSUME DownlinkInd, Carried' = Carried, UNCHANGED <<sent, outbuf, got, done, faulty>>
    PROVE  Slices' /\ BufferLast' /\ OutcomeOK' /\ Unbroken'
<1>1. Slices'
    BY DEF DownlinkInd, Slices, Slice
<1>2. BufferLast'
    BY DEF DownlinkInd, BufferLast
<1>3. OutcomeOK'
    BY DEF DownlinkInd, OutcomeOK, Past
<1>4. Unbroken'
    BY DEF DownlinkInd, Unbroken, Finished
<1> QED BY <1>1, <1>2, <1>3, <1>4

(* After a fault less is on its way. *)
LEMMA LessCarried ==
    ASSUME DownlinkInd, Carried' \subseteq Carried, UNCHANGED <<sent, got>>,
           outbuf' \in {outbuf, IF outbuf = <<>> THEN outbuf ELSE Tail(outbuf)},
           done' \in {done, <<>>}, faulty'
    PROVE  Slices' /\ BufferLast' /\ OutcomeOK' /\ Unbroken'
<1>1. Slices'
    BY DEF DownlinkInd, Slices, Slice
<1>2. ASSUME NEW k \in DOMAIN outbuf'
      PROVE  \E l \in DOMAIN outbuf : outbuf'[k] = outbuf[l]
    <2>1. CASE outbuf' = outbuf
        BY <2>1
    <2>2. CASE outbuf # <<>> /\ outbuf' = Tail(outbuf)
        BY <2>2, TailIs DEF DownlinkInd, TypeOK
    <2> QED BY <2>1, <2>2
<1>3. BufferLast'
    BY <1>2 DEF DownlinkInd, BufferLast
<1>4. OutcomeOK'
    <2>1. \A id : Past(id) => Past(id)'
        BY <1>2 DEF Past
    <2>2. CASE done' = done
        BY <2>1, <2>2 DEF DownlinkInd, OutcomeOK
    <2>3. CASE done' = <<>>
        BY <2>1, <2>3 DEF DownlinkInd, OutcomeOK
    <2> QED BY <2>2, <2>3
<1>5. Unbroken'
    BY DEF Unbroken
<1> QED BY <1>1, <1>3, <1>4, <1>5

-----------------------------------------------------------------------------
(* The server.                                                             *)

LEMMA EnqueueStep ==
    ASSUME DownlinkInd, NEW len \in Lengths, Enqueue(len), UNCHANGED faulty
    PROVE  DownlinkInd'
<1> USE DEF DownlinkInd
<1> DEFINE e == [id |-> Len(sent) + 1, off |-> 0, order |-> 0]
<1>1. /\ sent \in Seq(Lengths) /\ outbuf \in Seq(Entry) /\ e \in Entry
      /\ sent' = Append(sent, len) /\ outbuf' = Append(outbuf, e)
      /\ len \in Nat \ {0}
    BY DownlinkAssumption DEF TypeOK, Enqueue, Entry
<1> HIDE DEF e
<1>2. /\ Len(sent') = Len(sent) + 1 /\ Len(sent) \in Nat
      /\ \A i \in 1..Len(sent) : sent'[i] = sent[i]
      /\ sent'[Len(sent) + 1] = len
    BY <1>1
<1>3. /\ DOMAIN outbuf = 1..Len(outbuf) /\ DOMAIN outbuf' = 1..(Len(outbuf) + 1)
      /\ \A k \in DOMAIN outbuf : outbuf'[k] = outbuf[k]
      /\ outbuf'[Len(outbuf) + 1] = e /\ Len(outbuf) \in Nat
    BY <1>1, AppendIs
<1>4. e.id = Len(sent) + 1 /\ e.off = 0 /\ e.order = 0
    BY DEF e
<1>5. Carried' = Carried /\ UNCHANGED clientVars /\ UNCHANGED <<net, part, spc>>
    BY DEF Enqueue, clientVars, Carried, InHands, InNet
<1>6. TypeOK'
    BY <1>1, SMTT(30) DEF Enqueue, clientVars, TypeOK, Entry
<1>7. BufferOK'
    <2>1. ASSUME NEW k \in DOMAIN outbuf'
          PROVE  /\ outbuf'[k].id \in 1..Len(sent') /\ outbuf'[k].off < sent'[outbuf'[k].id]
                 /\ outbuf'[k].order <= 0
                 /\ k > 1 => outbuf'[k].off = 0
        <3>1. CASE k \in DOMAIN outbuf
            BY <1>2, <1>3, <3>1 DEF BufferOK
        <3>2. CASE k = Len(outbuf) + 1
            BY <1>1, <1>2, <1>3, <1>4, <3>2
        <3> QED BY <1>3, <3>1, <3>2
    <2>2. ASSUME NEW k \in DOMAIN outbuf', NEW l \in DOMAIN outbuf', k < l
          PROVE  outbuf'[k].id < outbuf'[l].id
        <3>1. k \in DOMAIN outbuf
            BY <1>3, <2>2
        <3>2. CASE l \in DOMAIN outbuf
            BY <1>3, <2>2, <3>1, <3>2 DEF BufferOK
        <3>3. CASE l = Len(outbuf) + 1
            BY <1>2, <1>3, <1>4, <3>1, <3>3 DEF BufferOK
        <3> QED BY <1>3, <3>2, <3>3
    <2> QED BY <1>5, <2>1, <2>2 DEF BufferOK
<1>8. ClientOK'
    BY <1>5 DEF clientVars, ClientOK, HasFinal
<1>9. Slices'
    BY <1>2, <1>5 DEF Slices, Slice
<1>10. Ordered'
    BY <1>5 DEF clientVars, Ordered, InHands, InNet
<1>11. BufferLast'
    <2> SUFFICES ASSUME NEW c \in Carried, NEW k \in DOMAIN outbuf' PROVE Passed(c, outbuf'[k])
        BY <1>5 DEF BufferLast
    <2>1. CASE k \in DOMAIN outbuf
        BY <1>3, <2>1 DEF BufferLast
    <2>2. CASE k = Len(outbuf) + 1
        BY <1>2, <1>3, <1>4, <2>2 DEF Slices, Slice, Passed
    <2> QED BY <1>3, <2>1, <2>2
<1>12. OutcomeOK'
    <2>1. ASSUME NEW id, Past(id) PROVE Past(id)'
        <3>1. ASSUME NEW k \in DOMAIN outbuf' PROVE id < outbuf'[k].id
            BY <1>2, <1>3, <1>4, <2>1 DEF Past
        <3> QED BY <1>2, <1>5, <2>1, <3>1 DEF Past
    <2> QED BY <1>5, <2>1 DEF OutcomeOK, clientVars
<1>13. Unbroken'
    <2> SUFFICES ASSUME ~faulty PROVE Unbroken'
        BY DEF Unbroken
    <2>1. \A k \in DOMAIN outbuf' : outbuf'[k].off # 0 =>
              \E d \in Carried' : d.id = outbuf'[k].id /\ d.hi = outbuf'[k].off
        BY <1>3, <1>4, <1>5 DEF Unbroken
    <2>2. ASSUME NEW id \in 1..Len(sent')
          PROVE  \/ id <= Finished'
                 \/ \E d \in Carried' : d.id = id /\ IsFinal(d)
                 \/ \E k \in DOMAIN outbuf' : outbuf'[k].id = id
        <3>1. CASE id \in 1..Len(sent)
            BY <1>3, <1>5, <3>1 DEF Unbroken, Finished, clientVars
        <3>2. CASE id = Len(sent) + 1
            <4>1. Len(outbuf) + 1 \in DOMAIN outbuf'
                BY <1>3
            <4> QED BY <1>3, <1>4, <3>2, <4>1
        <3> QED BY <1>2, <3>1, <3>2
    <2> QED BY <1>5, <2>1, <2>2 DEF Unbroken, clientVars
<1> QED BY <1>6, <1>7, <1>8, <1>9, <1>10, <1>11, <1>12, <1>13

LEMMA StartMessageStep ==
    ASSUME DownlinkInd, NEW b \in Budgets, StartMessage(b), UNCHANGED faulty
    PROVE  DownlinkInd'
<1> USE DEF DownlinkInd
<1>1. UNCHANGED <<part, sent, outbuf, net, clientVars>>
    BY DEF StartMessage, BufferOK
<1>2. TypeOK'
    BY <1>1, DownlinkAssumption DEF StartMessage, clientVars, TypeOK
<1>3. BufferOK' /\ ClientOK'
    BY <1>1 DEF StartMessage, clientVars, BufferOK, ClientOK, HasFinal
<1>4. Ordered' /\ Carried' = Carried
    BY <1>1 DEF clientVars, Ordered, Carried, InHands, InNet
<1>5. Slices' /\ BufferLast' /\ OutcomeOK' /\ Unbroken'
    BY <1>1, <1>4, SameCarried DEF clientVars
<1> QED BY <1>2, <1>3, <1>4, <1>5

(* The first entry of the buffer. *)
LEMMA FirstEntry ==
    ASSUME TypeOK, BufferOK, outbuf # <<>>
    PROVE  LET h == Head(outbuf)
           IN  /\ 1 \in DOMAIN outbuf /\ h = outbuf[1]
               /\ h \in Entry
               /\ h.id \in Nat \ {0} /\ h.off \in Nat /\ h.order \in Int
               /\ h.id \in 1..Len(sent) /\ h.off < sent[h.id] /\ h.order <= 0
               /\ sent[h.id] \in Nat /\ Len(sent) \in Nat
<1>0. outbuf \in Seq(Entry)
    BY DEF TypeOK, Entry
<1>1. 1 \in DOMAIN outbuf /\ Head(outbuf) = outbuf[1] /\ Head(outbuf) \in Entry
    BY <1>0, TailIs
<1>2. Head(outbuf).id \in 1..Len(sent)
    BY <1>1 DEF BufferOK
<1>3. sent[Head(outbuf).id] \in Nat /\ Len(sent) \in Nat
    <2>1. sent[Head(outbuf).id] \in Lengths /\ Len(sent) \in Nat
        BY <1>2, SMTT(30) DEF TypeOK
    <2> QED BY <2>1, DownlinkAssumption
<1> QED BY <1>1, <1>2, <1>3 DEF BufferOK, Entry

(* A chunk is added to the message being filled. *)
LEMMA PutStep ==
    ASSUME DownlinkInd, NEW c \in Chunk, NEW left \in Nat, Put(c, left),
           IsReal(c) => \A d \in Carried : Before(d, c)
    PROVE  /\ Ordered' /\ ClientOK' /\ UNCHANGED <<sent, spc, net, clientVars>>
           /\ part' \in Seq(Chunk) /\ take' \in Nat /\ budget' = budget
           /\ Carried' = Carried \cup (IF IsReal(c) THEN {c} ELSE {})
<1> USE DEF DownlinkInd
<1>1. /\ part \in Seq(Chunk) /\ part' = Append(part, c) /\ take' = left
      /\ UNCHANGED <<sent, spc, budget, net, clientVars>>
    BY DEF Put, TypeOK
<1>2. Reals(part') = Reals(part) \cup (IF IsReal(c) THEN {c} ELSE {})
    BY <1>1, RealsAppend
<1>3. InHands' = InHands /\ InNet' = InNet
    BY <1>1 DEF clientVars, InHands, InNet
<1>4. InOrder(part')
    BY <1>1, OrderAppend DEF Ordered, Carried
<1>5. AllBefore(InHands, InNet \cup Reals(part')) /\ AllBefore(InNet, Reals(part'))
    BY <1>2 DEF Ordered, Carried, AllBefore
<1>6. Ordered'
    BY <1>1, <1>3, <1>4, <1>5 DEF Ordered, clientVars
<1>7. ClientOK'
    BY <1>1 DEF clientVars, ClientOK, HasFinal
<1> QED BY <1>1, <1>2, <1>3, <1>6, <1>7 DEF Carried

(* A chunk cut off the first entry comes after everything that was cut.    *)
LEMMA CutComesLast ==
    ASSUME DownlinkInd, outbuf # <<>>, NEW c \in Chunk,
           c.id = Head(outbuf).id, c.lo = Head(outbuf).off + 1,
           c.flags = Head(outbuf).order \/ c.flags = 2
    PROVE  \A d \in Carried : Before(d, c)
<1> USE DEF DownlinkInd
<1> SUFFICES ASSUME NEW d \in Carried PROVE Before(d, c)
    OBVIOUS
<1>1. d \in Chunk
    BY CarriedType
<1>2. Passed(d, Head(outbuf))
    BY FirstEntry DEF BufferLast
<1> QED BY <1>1, <1>2, FirstEntry, ChunkIs DEF Passed, Before

LEMMA TakeFinalStep ==
    ASSUME DownlinkInd, TakeFinal, UNCHANGED faulty
    PROVE  DownlinkInd'
<1> USE DEF DownlinkInd
<1> DEFINE h == Head(outbuf)
<1>0. PICK c : c = FinalChunk(h.id, h.off + 1, sent[h.id])
    OBVIOUS
<1>1. /\ 1 \in DOMAIN outbuf /\ h = outbuf[1]
      /\ h.id \in Nat \ {0} /\ h.off \in Nat /\ h.order \in Int
      /\ h.id \in 1..Len(sent) /\ h.off < sent[h.id]
      /\ sent[h.id] \in Nat /\ Len(sent) \in Nat
    BY FirstEntry DEF TakeFinal
<1>2. /\ c.id = h.id /\ c.lo = h.off + 1 /\ c.hi = sent[h.id] /\ c.flags = 2
      /\ c \in Chunk /\ IsReal(c) /\ IsFinal(c)
    BY <1>0, <1>1 DEF FinalChunk, Chunk, Flags, FinalFlag, IsReal, IsDummy, IsFinal, DummyFlag
<1>3. Put(c, Room - Remaining) /\ outbuf' = Tail(outbuf) /\ outbuf # <<>>
    BY <1>0 DEF TakeFinal
<1>4. Room - Remaining \in Nat
    <2>1. take \in Nat /\ EmptyDenimChunkSize \in Nat /\ take >= EmptyDenimChunkSize
        BY HeaderAssumption DEF TakeFinal, Filling, TypeOK
    <2>2. Room \in Nat
        BY <2>1 DEF Room
    <2>3. Remaining \in Nat
        BY <1>1 DEF Remaining
    <2> QED BY <2>2, <2>3 DEF TakeFinal
<1>5. /\ Ordered' /\ ClientOK' /\ UNCHANGED <<sent, spc, net, clientVars>>
      /\ part' \in Seq(Chunk) /\ take' \in Nat /\ budget' = budget
      /\ Carried' = Carried \cup {c}
    BY <1>2, <1>3, <1>4, CutComesLast, PutStep
<1>6. /\ outbuf' \in Seq(Entry) /\ \A k \in DOMAIN outbuf : k \in Nat /\ outbuf[k].id \in Nat
      /\ \A k \in DOMAIN outbuf' : k \in Nat \ {0} /\ k + 1 \in DOMAIN outbuf /\ outbuf'[k] = outbuf[k + 1]
      /\ \A k \in DOMAIN outbuf : k # 1 => k - 1 \in DOMAIN outbuf' /\ outbuf'[k - 1] = outbuf[k]
    <2>1. outbuf \in Seq(Entry)
        BY DEF TypeOK, Entry
    <2>2. ASSUME NEW k \in DOMAIN outbuf PROVE outbuf[k].id \in Nat
        <3>1. outbuf[k] \in Entry
            BY <2>1
        <3> QED BY <3>1 DEF Entry
    <2> QED BY <1>3, <2>1, <2>2, TailIs
<1>7. TypeOK'
    BY <1>5, <1>6 DEF TypeOK, clientVars, Entry
<1>8. BufferOK'
    <2>1. spc' = "filling"
        BY <1>5 DEF TakeFinal, Filling
    <2>2. ASSUME NEW k \in DOMAIN outbuf'
          PROVE  /\ outbuf'[k].id \in 1..Len(sent') /\ outbuf'[k].off < sent'[outbuf'[k].id]
                 /\ outbuf'[k].order <= 0
                 /\ k > 1 => outbuf'[k].off = 0
        <3>1. k + 1 \in DOMAIN outbuf /\ outbuf'[k] = outbuf[k + 1] /\ k \in Nat \ {0} /\ k + 1 > 1
            BY <1>6
        <3> QED BY <1>5, <3>1 DEF BufferOK
    <2>3. ASSUME NEW k \in DOMAIN outbuf', NEW l \in DOMAIN outbuf', k < l
          PROVE  outbuf'[k].id < outbuf'[l].id
        <3>1. k + 1 \in DOMAIN outbuf /\ l + 1 \in DOMAIN outbuf /\ k + 1 < l + 1
            BY <1>6, <2>3
        <3> QED BY <1>6, <3>1 DEF BufferOK
    <2> QED BY <2>1, <2>2, <2>3 DEF BufferOK
<1>9. Slices'
    <2>1. \A d : Slice(d) => Slice(d)'
        BY <1>5 DEF Slice
    <2>2. Slice(c)'
        BY <1>1, <1>2, <1>5 DEF Slice
    <2> QED BY <1>5, <2>1, <2>2 DEF Slices
<1>10. \A k \in DOMAIN outbuf' : h.id < outbuf'[k].id
    BY <1>1, <1>6 DEF BufferOK
<1>11. BufferLast'
    BY <1>2, <1>5, <1>6, <1>10 DEF BufferLast, Passed
<1>12. OutcomeOK'
    <2>1. ASSUME NEW id, Past(id) PROVE Past(id)'
        BY <1>1, <1>2, <1>5, <1>6, <2>1 DEF Past
    <2> QED BY <1>5, <2>1 DEF OutcomeOK, clientVars
<1>13. Unbroken'
    <2> SUFFICES ASSUME ~faulty PROVE Unbroken'
        BY DEF Unbroken
    <2>1. ASSUME NEW d \in Carried', d.lo # 1
          PROVE  \E g \in Carried' : g.id = d.id /\ g.hi + 1 = d.lo
        <3>1. CASE d = c
            <4>1. h.off # 0
                BY <1>1, <1>2, <2>1, <3>1
            <4>2. PICK g \in Carried : g.id = h.id /\ g.hi = h.off
                BY <1>1, <4>1 DEF Unbroken
            <4> QED BY <1>2, <1>5, <3>1, <4>2
        <3>2. CASE d \in Carried
            BY <1>5, <2>1, <3>2 DEF Unbroken
        <3> QED BY <1>5, <3>1, <3>2
    <2>2. ASSUME NEW k \in DOMAIN outbuf', outbuf'[k].off # 0
          PROVE  \E g \in Carried' : g.id = outbuf'[k].id /\ g.hi = outbuf'[k].off
        <3>1. k + 1 \in DOMAIN outbuf /\ outbuf[k + 1].off # 0 /\ outbuf'[k] = outbuf[k + 1]
            BY <1>6, <2>2
        <3> QED BY <1>5, <3>1 DEF Unbroken
    <2>3. ASSUME NEW id \in 1..Len(sent')
          PROVE  \/ id <= Finished'
                 \/ \E g \in Carried' : g.id = id /\ IsFinal(g)
                 \/ \E k \in DOMAIN outbuf' : outbuf'[k].id = id
        <3>1. CASE id = h.id
            BY <1>2, <1>5, <3>1
        <3>2. CASE id # h.id
            <4>1. \/ id <= Finished
                  \/ \E g \in Carried : g.id = id /\ IsFinal(g)
                  \/ \E k \in DOMAIN outbuf : outbuf[k].id = id
                BY <1>5 DEF Unbroken
            <4>2. ASSUME NEW k \in DOMAIN outbuf, outbuf[k].id = id
                  PROVE  \E l \in DOMAIN outbuf' : outbuf'[l].id = id
                <5>1. k # 1
                    BY <1>1, <3>2, <4>2
                <5> QED BY <1>6, <4>2, <5>1
            <4>3. Finished' = Finished
                BY <1>5 DEF Finished, clientVars
            <4> QED BY <1>5, <4>1, <4>2, <4>3
        <3> QED BY <3>1, <3>2
    <2> QED BY <1>5, <2>1, <2>2, <2>3 DEF Unbroken, clientVars
<1> QED BY <1>5, <1>7, <1>8, <1>9, <1>11, <1>12, <1>13

(* The first entry is replaced by one of the same payload that starts at   *)
(* the same place or later, and its order does not grow.                   *)
LEMMA FirstReplaced ==
    ASSUME DownlinkInd, outbuf # <<>>, NEW e \in Entry, outbuf' = [outbuf EXCEPT ![1] = e],
           e.id = Head(outbuf).id, Head(outbuf).off <= e.off, e.off < sent[e.id],
           e.order <= Head(outbuf).order, UNCHANGED <<sent, spc>>, spc = "filling"
    PROVE  /\ outbuf' \in Seq(Entry) /\ DOMAIN outbuf' = DOMAIN outbuf
           /\ outbuf'[1] = e /\ \A k \in DOMAIN outbuf : k # 1 => outbuf'[k] = outbuf[k]
           /\ \A k \in DOMAIN outbuf : outbuf'[k].id = outbuf[k].id
           /\ BufferOK'
           /\ \A c \in Carried, k \in DOMAIN outbuf : Passed(c, outbuf'[k])
<1> USE DEF DownlinkInd
<1> DEFINE h == Head(outbuf)
<1>1. /\ 1 \in DOMAIN outbuf /\ h = outbuf[1]
      /\ h.id \in Nat \ {0} /\ h.off \in Nat /\ h.order \in Int /\ h.order <= 0
      /\ h.id \in 1..Len(sent) /\ sent[h.id] \in Nat /\ Len(sent) \in Nat
    BY FirstEntry
<1>2. outbuf \in Seq(Entry)
    BY DEF TypeOK, Entry
<1>3. outbuf' \in Seq(Entry) /\ DOMAIN outbuf' = DOMAIN outbuf
    BY <1>2
<1>4. outbuf'[1] = e /\ \A k \in DOMAIN outbuf : k # 1 => outbuf'[k] = outbuf[k]
    BY <1>1, <1>2
<1>5. \A k \in DOMAIN outbuf : outbuf'[k].id = outbuf[k].id
    BY <1>1, <1>4
<1>6. e.off \in Nat /\ e.order \in Int
    BY DEF Entry
<1>7. BufferOK'
    <2>1. ASSUME NEW k \in DOMAIN outbuf
          PROVE  /\ outbuf'[k].id \in 1..Len(sent) /\ outbuf'[k].off < sent[outbuf'[k].id]
                 /\ outbuf'[k].order <= 0
                 /\ k > 1 => outbuf'[k].off = 0
        <3>1. CASE k = 1
            BY <1>1, <1>4, <1>6, <3>1
        <3>2. CASE k # 1
            BY <1>4, <3>2 DEF BufferOK
        <3> QED BY <3>1, <3>2
    <2> QED BY <1>3, <1>5, <2>1 DEF BufferOK
<1>8. ASSUME NEW c \in Carried, NEW k \in DOMAIN outbuf PROVE Passed(c, outbuf'[k])
    <2>1. Passed(c, outbuf[k]) /\ c \in Chunk
        BY CarriedType DEF BufferLast
    <2>2. CASE k = 1
        BY <1>1, <1>4, <1>6, <2>1, <2>2, ChunkIs DEF Passed
    <2>3. CASE k # 1
        BY <1>4, <2>1, <2>3
    <2> QED BY <2>2, <2>3
<1> QED BY <1>3, <1>4, <1>5, <1>7, <1>8

LEMMA TakeDataStep ==
    ASSUME DownlinkInd, TakeData, UNCHANGED faulty
    PROVE  DownlinkInd'
<1> USE DEF DownlinkInd
<1> DEFINE h == Head(outbuf)
<1>0. PICK c, e :
        /\ c = DataChunk(h.id, h.off + 1, h.off + Room, h.order)
        /\ e = [id |-> h.id, off |-> h.off + Room, order |-> h.order - 1]
    OBVIOUS
<1>1. /\ 1 \in DOMAIN outbuf /\ h = outbuf[1]
      /\ h.id \in Nat \ {0} /\ h.off \in Nat /\ h.order \in Int /\ h.order <= 0
      /\ h.id \in 1..Len(sent) /\ h.off < sent[h.id]
      /\ sent[h.id] \in Nat /\ Len(sent) \in Nat
    BY FirstEntry DEF TakeData
<1>2. Room \in Nat \ {0} /\ Room < sent[h.id] - h.off
    <2>1. take \in Nat /\ EmptyDenimChunkSize \in Nat /\ take >= EmptyDenimChunkSize
        BY HeaderAssumption DEF TakeData, Filling, TypeOK
    <2> QED BY <2>1 DEF TakeData, Room, Remaining
<1> HIDE DEF h
<1>3. /\ c.id = h.id /\ c.lo = h.off + 1 /\ c.hi = h.off + Room /\ c.flags = h.order
      /\ c.lo \in Nat /\ c.hi \in Nat /\ c.hi < sent[h.id] /\ c.lo <= c.hi
      /\ c \in Chunk /\ IsReal(c) /\ ~IsFinal(c)
    <2>1. c = [id |-> h.id, lo |-> h.off + 1, hi |-> h.off + Room, flags |-> h.order]
        BY <1>0 DEF DataChunk, DataFlag, h
    <2>2. c.id = h.id /\ c.lo = h.off + 1 /\ c.hi = h.off + Room /\ c.flags = h.order
        BY <2>1
    <2>3. c.lo \in Nat /\ c.hi \in Nat /\ c.hi < sent[h.id] /\ c.lo <= c.hi
        BY <1>1, <1>2, <2>2, SMTT(30)
    <2>4. h.order \in Flags
        BY <1>1 DEF Flags
    <2>5. c \in Chunk
        BY <1>1, <2>1, <2>2, <2>3, <2>4 DEF Chunk
    <2> QED BY <1>1, <2>2, <2>3, <2>5, ChunkIs
<1>4. e \in Entry /\ e.id = h.id /\ e.off = c.hi /\ e.order = h.order - 1 /\ e.off # 0
    BY <1>0, <1>1, <1>2, SMTT(30) DEF DataChunk, Entry
<1>5. Put(c, 0) /\ outbuf' = [outbuf EXCEPT ![1] = e] /\ outbuf # <<>> /\ spc = "filling"
    BY <1>0 DEF TakeData, h, Filling
<1>6. /\ Ordered' /\ ClientOK' /\ UNCHANGED <<sent, spc, net, clientVars>>
      /\ part' \in Seq(Chunk) /\ take' \in Nat /\ budget' = budget
      /\ Carried' = Carried \cup {c}
    BY <1>3, <1>5, CutComesLast, PutStep DEF h
<1>7. /\ outbuf' \in Seq(Entry) /\ DOMAIN outbuf' = DOMAIN outbuf
      /\ outbuf'[1] = e /\ \A k \in DOMAIN outbuf : k # 1 => outbuf'[k] = outbuf[k]
      /\ \A k \in DOMAIN outbuf : outbuf'[k].id = outbuf[k].id
      /\ BufferOK'
      /\ \A d \in Carried, k \in DOMAIN outbuf : Passed(d, outbuf'[k])
    <2>1. h.off <= e.off /\ e.off < sent[e.id] /\ e.order <= h.order
        BY <1>1, <1>2, <1>3, <1>4
    <2> QED BY <1>4, <1>5, <1>6, <2>1, FirstReplaced DEF h
<1>8. TypeOK'
    BY <1>6, <1>7 DEF TypeOK, clientVars, Entry
<1>9. Slices'
    <2>1. \A d : Slice(d) => Slice(d)'
        BY <1>6 DEF Slice
    <2>2. Slice(c)'
        BY <1>1, <1>3, <1>6 DEF Slice
    <2> QED BY <1>6, <2>1, <2>2 DEF Slices
<1>10. BufferLast'
    <2>1. ASSUME NEW k \in DOMAIN outbuf PROVE Passed(c, outbuf'[k])
        <3>1. CASE k = 1
            BY <1>1, <1>3, <1>4, <1>7, <3>1 DEF Passed
        <3>2. CASE k # 1
            <4>1. outbuf[1].id < outbuf[k].id
                <5>0. outbuf \in Seq(Entry)
                    BY DEF TypeOK, Entry
                <5>1. k \in Nat \ {0} /\ 1 < k
                    <6> HIDE DEF DownlinkInd
                    <6> QED BY <3>2, <5>0
                <5> QED BY <1>1, <5>1 DEF BufferOK
            <4> QED BY <1>1, <1>3, <1>7, <3>2, <4>1 DEF Passed
        <3> QED BY <3>1, <3>2
    <2> QED BY <1>6, <1>7, <2>1 DEF BufferLast
<1>11. OutcomeOK'
    <2>1. ASSUME NEW id, Past(id) PROVE Past(id)'
        BY <1>1, <1>3, <1>6, <1>7, <2>1 DEF Past
    <2> QED BY <1>6, <2>1 DEF OutcomeOK, clientVars
<1>12. Unbroken'
    <2> SUFFICES ASSUME ~faulty PROVE Unbroken'
        BY DEF Unbroken
    <2>1. ASSUME NEW d \in Carried', d.lo # 1
          PROVE  \E g \in Carried' : g.id = d.id /\ g.hi + 1 = d.lo
        <3>1. CASE d = c
            <4>1. h.off # 0
                BY <1>1, <1>3, <2>1, <3>1
            <4>2. PICK g \in Carried : g.id = h.id /\ g.hi = h.off
                BY <1>1, <4>1 DEF Unbroken
            <4> QED BY <1>3, <1>6, <3>1, <4>2
        <3>2. CASE d \in Carried
            BY <1>6, <2>1, <3>2 DEF Unbroken
        <3> QED BY <1>6, <3>1, <3>2
    <2>2. ASSUME NEW k \in DOMAIN outbuf', outbuf'[k].off # 0
          PROVE  \E g \in Carried' : g.id = outbuf'[k].id /\ g.hi = outbuf'[k].off
        <3>1. CASE k = 1
            BY <1>3, <1>4, <1>6, <1>7, <3>1
        <3>2. CASE k # 1
            BY <1>6, <1>7, <2>2, <3>2 DEF Unbroken
        <3> QED BY <3>1, <3>2
    <2>3. ASSUME NEW id \in 1..Len(sent')
          PROVE  \/ id <= Finished'
                 \/ \E g \in Carried' : g.id = id /\ IsFinal(g)
                 \/ \E k \in DOMAIN outbuf' : outbuf'[k].id = id
        <3>1. \/ id <= Finished
              \/ \E g \in Carried : g.id = id /\ IsFinal(g)
              \/ \E k \in DOMAIN outbuf : outbuf[k].id = id
            BY <1>6 DEF Unbroken
        <3>2. Finished' = Finished
            BY <1>6 DEF Finished, clientVars
        <3> QED BY <1>6, <1>7, <3>1, <3>2
    <2> QED BY <1>6, <2>1, <2>2, <2>3 DEF Unbroken, clientVars
<1> QED BY <1>6, <1>7, <1>8, <1>9, <1>10, <1>11, <1>12

LEMMA TakeNothingStep ==
    ASSUME DownlinkInd, TakeNothing, UNCHANGED faulty
    PROVE  DownlinkInd'
<1> USE DEF DownlinkInd
<1> DEFINE h == Head(outbuf)
<1>0. PICK c, e :
        /\ c = DummyChunk(0)
        /\ e = [h EXCEPT !.order = IF @ > -MaxSkip THEN @ - 1 ELSE @]
    OBVIOUS
<1>1. /\ 1 \in DOMAIN outbuf /\ h = outbuf[1] /\ h \in Entry
      /\ h.id \in Nat \ {0} /\ h.off \in Nat /\ h.order \in Int /\ h.order <= 0
      /\ h.id \in 1..Len(sent) /\ h.off < sent[h.id]
      /\ sent[h.id] \in Nat /\ Len(sent) \in Nat
    BY FirstEntry DEF TakeNothing
<1>2. c \in Chunk /\ ~IsReal(c)
    BY <1>0 DEF DummyChunk, DummyFlag, IsReal, IsDummy, Chunk, Flags
<1>3. e \in Entry /\ e.id = h.id /\ e.off = h.off /\ e.order \in Int /\ e.order <= h.order
    BY <1>0, <1>1, DownlinkAssumption DEF Entry
<1>4. Put(c, 0) /\ outbuf' = [outbuf EXCEPT ![1] = e] /\ outbuf # <<>> /\ spc = "filling"
    BY <1>0, <1>1 DEF TakeNothing, Filling
<1> HIDE DEF h
<1>5. /\ Ordered' /\ ClientOK' /\ UNCHANGED <<sent, spc, net, clientVars>>
      /\ part' \in Seq(Chunk) /\ take' \in Nat /\ budget' = budget
      /\ Carried' = Carried
    BY <1>2, <1>4, PutStep
<1>6. /\ outbuf' \in Seq(Entry) /\ DOMAIN outbuf' = DOMAIN outbuf
      /\ outbuf'[1] = e /\ \A k \in DOMAIN outbuf : k # 1 => outbuf'[k] = outbuf[k]
      /\ \A k \in DOMAIN outbuf : outbuf'[k].id = outbuf[k].id
      /\ BufferOK'
      /\ \A d \in Carried, k \in DOMAIN outbuf : Passed(d, outbuf'[k])
    <2>1. h.off <= e.off /\ e.off < sent[e.id]
        BY <1>1, <1>3
    <2> QED BY <1>3, <1>4, <1>5, <2>1, FirstReplaced DEF h
<1>7. TypeOK'
    BY <1>5, <1>6 DEF TypeOK, clientVars, Entry
<1>8. Slices' /\ BufferLast'
    BY <1>5, <1>6 DEF Slices, Slice, BufferLast
<1>9. OutcomeOK'
    <2>1. ASSUME NEW id, Past(id) PROVE Past(id)'
        BY <1>5, <1>6, <2>1 DEF Past
    <2> QED BY <1>5, <2>1 DEF OutcomeOK, clientVars
<1>10. Unbroken'
    <2>1. Finished' = Finished
        BY <1>5 DEF Finished, clientVars
    <2>2. \A k \in DOMAIN outbuf : outbuf'[k].off = outbuf[k].off
        BY <1>1, <1>3, <1>6
    <2> QED BY <1>5, <1>6, <2>1, <2>2 DEF Unbroken, clientVars
<1> QED BY <1>5, <1>6, <1>7, <1>8, <1>9, <1>10

LEMMA TakeDummyStep ==
    ASSUME DownlinkInd, TakeDummy, UNCHANGED faulty
    PROVE  DownlinkInd'
<1> USE DEF DownlinkInd
<1>1. PICK c : c = DummyChunk(Room)
    OBVIOUS
<1>2. Room \in Nat
    <2>1. take \in Nat /\ EmptyDenimChunkSize \in Nat /\ take >= EmptyDenimChunkSize
        BY HeaderAssumption DEF TakeDummy, Filling, TypeOK
    <2> QED BY <2>1 DEF Room
<1>3. c \in Chunk /\ ~IsReal(c)
    BY <1>1, <1>2 DEF DummyChunk, DummyFlag, IsReal, IsDummy, Chunk, Flags
<1>4. Put(c, 0) /\ outbuf' = outbuf /\ spc = "filling"
    BY <1>1 DEF TakeDummy, Filling
<1>5. /\ Ordered' /\ ClientOK' /\ UNCHANGED <<sent, spc, net, clientVars>>
      /\ part' \in Seq(Chunk) /\ take' \in Nat /\ budget' = budget
      /\ Carried' = Carried
    BY <1>3, <1>4, PutStep
<1>6. TypeOK' /\ BufferOK'
    BY <1>4, <1>5 DEF TypeOK, BufferOK, clientVars
<1>7. Slices' /\ BufferLast' /\ OutcomeOK' /\ Unbroken'
    BY <1>4, <1>5, SameCarried DEF clientVars
<1> QED BY <1>5, <1>6, <1>7

LEMMA SendMessageStep ==
    ASSUME DownlinkInd, SendMessage, UNCHANGED faulty
    PROVE  DownlinkInd'
<1> USE DEF DownlinkInd
<1>1. /\ net \in Seq(Seq(Chunk)) /\ part \in Seq(Chunk) /\ net' = Append(net, part)
      /\ part' = <<>> /\ UNCHANGED <<sent, outbuf, clientVars>>
    BY DEF SendMessage, EndMessage, TypeOK
<1>2. /\ DOMAIN net = 1..Len(net) /\ DOMAIN net' = 1..(Len(net) + 1) /\ Len(net) \in Nat
      /\ \A n \in DOMAIN net : net'[n] = net[n]
      /\ net'[Len(net) + 1] = part
    BY <1>1, AppendIs
<1>3. InNet' = InNet \cup Reals(part) /\ Reals(part') = {} /\ InHands' = InHands
    <2>1. {Reals(net'[n]) : n \in DOMAIN net'} = {Reals(net[n]) : n \in DOMAIN net} \cup {Reals(part)}
        BY <1>2
    <2> QED BY <1>1, <2>1, EmptyIs DEF InNet, InHands, clientVars
<1>4. Carried' = Carried
    BY <1>3 DEF Carried
<1>5. TypeOK' /\ BufferOK' /\ ClientOK'
    <2>1. net' \in Seq(Seq(Chunk)) /\ part' \in Seq(Chunk)
        BY <1>1, AppendIs, EmptyIs
    <2>2. TypeOK'
        BY <1>1, <2>1 DEF SendMessage, EndMessage, TypeOK, clientVars
    <2> QED BY <1>1, <2>2 DEF SendMessage, EndMessage, BufferOK, ClientOK, HasFinal, clientVars
<1>6. Ordered'
    <2>1. \A n \in DOMAIN net' : InOrder(net'[n])
        BY <1>2 DEF Ordered
    <2>2. AllBefore(InHands', InNet' \cup Reals(part')) /\ AllBefore(InNet', Reals(part'))
        BY <1>3 DEF Ordered, AllBefore
    <2>3. ASSUME NEW m \in DOMAIN net', NEW n \in DOMAIN net', m < n
          PROVE  AllBefore(Reals(net'[m]), Reals(net'[n]))
        <3>1. m \in DOMAIN net /\ Reals(net[m]) \subseteq InNet
            BY <1>2, <2>3 DEF InNet
        <3>2. CASE n \in DOMAIN net
            BY <1>2, <2>3, <3>1, <3>2 DEF Ordered
        <3>3. CASE n = Len(net) + 1
            BY <1>2, <3>1, <3>3 DEF Ordered, AllBefore
        <3> QED BY <1>2, <3>2, <3>3
    <2> QED BY <1>1, <2>1, <2>2, <2>3, EmptyIs DEF Ordered, clientVars
<1>7. Slices' /\ BufferLast' /\ OutcomeOK' /\ Unbroken'
    BY <1>1, <1>4, SameCarried DEF clientVars
<1> QED BY <1>5, <1>6, <1>7

-----------------------------------------------------------------------------
(* The client.                                                             *)

LEMMA ReceiveStep ==
    ASSUME DownlinkInd, Receive, UNCHANGED faulty
    PROVE  DownlinkInd'
<1> USE DEF DownlinkInd
<1>1. PICK m, r : m = Head(net) /\ r = RealChunks(Head(net))
    OBVIOUS
<1>2. /\ net \in Seq(Seq(Chunk)) /\ net # <<>> /\ net' = Tail(net) /\ m = net[1]
      /\ m \in Seq(Chunk) /\ 1 \in DOMAIN net
      /\ Tail(net) \in Seq(Seq(Chunk))
      /\ \A n \in DOMAIN net' : n \in Nat \ {0} /\ n + 1 \in DOMAIN net /\ net'[n] = net[n + 1]
      /\ \A n \in DOMAIN net : n # 1 => n - 1 \in DOMAIN net' /\ net'[n - 1] = net[n]
    <2>1. net \in Seq(Seq(Chunk)) /\ net # <<>> /\ net' = Tail(net)
        BY DEF Receive, TypeOK
    <2> QED BY <1>1, <2>1, TailIs
<1>3. /\ r \in Seq(Chunk) /\ Reals(r) = Reals(m) /\ InOrder(r)
      /\ \A i \in DOMAIN r : IsReal(r[i])
    BY <1>1, <1>2, RealChunksIs DEF Ordered
<1>4. /\ incoming' = r /\ cpc' = (IF r = <<>> THEN "idle" ELSE "scan")
      /\ cpc = "idle" /\ pending = <<>> /\ incoming = <<>> /\ done = <<>>
      /\ IF HasFinal(r) THEN pending' = stored /\ stored' = <<>>
                        ELSE pending' = <<>> /\ stored' = stored
      /\ UNCHANGED <<serverVars, done, got>>
    BY <1>1 DEF Receive, ClientOK, GetAndRemoveIncoming
<1>5. InNet = InNet' \cup Reals(m)
    <2>1. {Reals(net[n]) : n \in DOMAIN net} = {Reals(net'[n]) : n \in DOMAIN net'} \cup {Reals(m)}
        <3>1. ASSUME NEW n \in DOMAIN net
              PROVE  Reals(net[n]) \in {Reals(net'[k]) : k \in DOMAIN net'} \cup {Reals(m)}
            <4>1. CASE n = 1
                BY <1>2, <4>1
            <4>2. CASE n # 1
                BY <1>2, <4>2
            <4> QED BY <4>1, <4>2
        <3>2. ASSUME NEW n \in DOMAIN net' PROVE Reals(net'[n]) \in {Reals(net[k]) : k \in DOMAIN net}
            BY <1>2
        <3>3. Reals(m) \in {Reals(net[k]) : k \in DOMAIN net}
            BY <1>2
        <3> QED BY <3>1, <3>2, <3>3
    <2> QED BY <2>1 DEF InNet
<1>6. InHands = Reals(stored)
    BY <1>4, EmptyIs DEF InHands
<1>7. InHands' = Reals(stored) \cup Reals(m)
    BY <1>3, <1>4, EmptyIs DEF InHands
<1>8. Carried' = Carried
    BY <1>4, <1>5, <1>6, <1>7 DEF Carried, serverVars
<1>9. TypeOK'
    <2>1. stored' \in Seq(Chunk) /\ pending' \in Seq(Chunk)
        BY <1>4, EmptyIs DEF TypeOK
    <2> QED BY <1>2, <1>3, <1>4, <2>1 DEF TypeOK, serverVars
<1>10. BufferOK'
    BY <1>4 DEF BufferOK, serverVars
<1>11. ClientOK'
    <2>1. Reals(r) = {r[i] : i \in DOMAIN r}
        BY <1>3 DEF Reals
    <2>2. r = <<>> => ~HasFinal(r)
        BY DEF HasFinal
    <2>3. \A c \in Reals(stored') \cup Reals(pending') : c.flags <= 0
        BY <1>4, EmptyIs DEF ClientOK
    <2>4. /\ \A i \in DOMAIN stored' : IsReal(stored'[i])
          /\ \A i \in DOMAIN pending' : IsReal(pending'[i])
        BY <1>4 DEF ClientOK
    <2>5. cpc' # "scan" => pending' = <<>> /\ incoming' = <<>>
        BY <1>4, <2>2
    <2>6. cpc' = "scan" /\ HasFinal(incoming') => stored' = <<>>
        BY <1>4
    <2> QED BY <1>4, <2>1, <2>3, <2>4, <2>5, <2>6 DEF ClientOK, HasFinal
<1>12. Ordered'
    <2>1. AllBefore(Reals(stored), Reals(m))
        BY <1>5, <1>6 DEF Ordered, AllBefore
    <2>2. AllBefore(Reals(m), Reals(part))
        BY <1>5 DEF Ordered, AllBefore
    <2>3. AllBefore(Reals(m), InNet')
        <3> SUFFICES ASSUME NEW c \in Reals(m), NEW n \in DOMAIN net', NEW d \in Reals(net'[n])
                     PROVE  Before(c, d)
            BY DEF AllBefore, InNet
        <3>1. n + 1 \in DOMAIN net /\ 1 < n + 1 /\ net'[n] = net[n + 1]
            BY <1>2
        <3> QED BY <1>2, <3>1 DEF Ordered, AllBefore
    <2>4. AllBefore(InHands', InNet' \cup Reals(part')) /\ AllBefore(InNet', Reals(part'))
        BY <1>4, <1>5, <1>6, <1>7, <2>2, <2>3 DEF Ordered, AllBefore, serverVars
    <2>5. \A n \in DOMAIN net' : InOrder(net'[n])
        BY <1>2 DEF Ordered
    <2>6. ASSUME NEW k \in DOMAIN net', NEW n \in DOMAIN net', k < n
          PROVE  AllBefore(Reals(net'[k]), Reals(net'[n]))
        <3>1. k + 1 \in DOMAIN net /\ n + 1 \in DOMAIN net /\ k + 1 < n + 1
            BY <1>2, <2>6
        <3> QED BY <1>2, <3>1 DEF Ordered
    <2>7. InOrder(stored') /\ InOrder(pending')
        BY <1>4, EmptyIs DEF Ordered
    <2>8. /\ AllBefore(Reals(stored'), Reals(pending'))
          /\ AllBefore(Reals(stored'), Reals(incoming'))
          /\ AllBefore(Reals(pending'), Reals(incoming'))
        BY <1>3, <1>4, <2>1, EmptyIs DEF AllBefore
    <2> QED BY <1>3, <1>4, <2>4, <2>5, <2>6, <2>7, <2>8 DEF Ordered, serverVars
<1>13. Slices' /\ BufferLast' /\ OutcomeOK' /\ Unbroken'
    BY <1>4, <1>8, SameCarried DEF serverVars
<1> QED BY <1>9, <1>10, <1>11, <1>12, <1>13

(* The first chunk of incoming. *)
LEMMA FirstIncoming ==
    ASSUME DownlinkInd, Scanning
    PROVE  /\ Head(incoming) \in Chunk /\ IsReal(Head(incoming))
           /\ incoming \in Seq(Chunk) /\ incoming # <<>> /\ cpc = "scan"
           /\ Tail(incoming) \in Seq(Chunk) /\ InOrder(Tail(incoming))
           /\ Reals(incoming) = Reals(Tail(incoming)) \cup {Head(incoming)}
           /\ \A i \in DOMAIN Tail(incoming) : IsReal(Tail(incoming)[i])
           /\ Reals(Tail(incoming)) = {Tail(incoming)[i] : i \in DOMAIN Tail(incoming)}
           /\ \A d \in Reals(Tail(incoming)) : Before(Head(incoming), d)
           /\ HasFinal(Tail(incoming)) => HasFinal(incoming)
           /\ IsFinal(Head(incoming)) => HasFinal(incoming)
           /\ Head(incoming) \in Carried
<1> USE DEF DownlinkInd
<1>1. incoming \in Seq(Chunk) /\ incoming # <<>> /\ cpc = "scan"
    BY DEF Scanning, TypeOK
<1>2. \A i \in DOMAIN incoming : IsReal(incoming[i])
    BY DEF ClientOK, Reals
<1>3. /\ Tail(incoming) \in Seq(Chunk) /\ Head(incoming) = incoming[1] /\ 1 \in DOMAIN incoming
      /\ Head(incoming) \in Chunk
      /\ \A i \in DOMAIN Tail(incoming) : i + 1 \in DOMAIN incoming /\ Tail(incoming)[i] = incoming[i + 1]
    BY <1>1, TailIs
<1>4. IsReal(Head(incoming)) /\ \A i \in DOMAIN Tail(incoming) : IsReal(Tail(incoming)[i])
    BY <1>2, <1>3
<1>5. Reals(incoming) = Reals(Tail(incoming)) \cup {Head(incoming)}
    BY <1>1, <1>4, RealsTail
<1>6. InOrder(Tail(incoming)) /\ \A d \in Reals(Tail(incoming)) : Before(Head(incoming), d)
    BY <1>1, <1>4, OrderTail DEF Ordered
<1>7. Reals(Tail(incoming)) = {Tail(incoming)[i] : i \in DOMAIN Tail(incoming)}
    BY <1>4 DEF Reals
<1>8. /\ HasFinal(Tail(incoming)) => HasFinal(incoming)
      /\ IsFinal(Head(incoming)) => HasFinal(incoming)
    BY <1>3 DEF HasFinal
<1> QED BY <1>1, <1>3, <1>4, <1>5, <1>6, <1>7, <1>8 DEF Carried, InHands

LEMMA HoldDataStep ==
    ASSUME DownlinkInd, HoldData, UNCHANGED faulty
    PROVE  DownlinkInd'
<1> USE DEF DownlinkInd
<1>1. PICK c : c = Head(incoming)
    OBVIOUS
<1>2. Scanning /\ ~IsFinal(c) /\ pending' = Append(pending, c) /\ incoming' = Tail(incoming)
      /\ UNCHANGED <<serverVars, net, cpc, stored, done, got>> /\ pending \in Seq(Chunk)
    BY <1>1 DEF HoldData, TypeOK
<1>3. /\ c \in Chunk /\ IsReal(c) /\ cpc = "scan" /\ c.flags <= 0
      /\ incoming' \in Seq(Chunk) /\ InOrder(incoming')
      /\ Reals(incoming) = Reals(incoming') \cup {c}
      /\ Reals(incoming') = {incoming'[i] : i \in DOMAIN incoming'}
      /\ \A d \in Reals(incoming') : Before(c, d)
      /\ HasFinal(incoming') => HasFinal(incoming)
    BY <1>1, <1>2, FirstIncoming, ChunkIs
<1>4. /\ pending' \in Seq(Chunk) /\ Reals(pending') = Reals(pending) \cup {c}
      /\ \A i \in DOMAIN pending' : pending'[i] = c \/ (i \in DOMAIN pending /\ pending'[i] = pending[i])
    <2>1. pending' \in Seq(Chunk) /\ Reals(pending') = Reals(pending) \cup {c}
        BY <1>2, <1>3, RealsAppend
    <2>2. /\ DOMAIN pending' = 1..(Len(pending) + 1) /\ DOMAIN pending = 1..Len(pending)
          /\ \A i \in DOMAIN pending : pending'[i] = pending[i]
          /\ pending'[Len(pending) + 1] = c /\ Len(pending) \in Nat
        BY <1>2, <1>3, AppendIs
    <2>3. ASSUME NEW i \in DOMAIN pending'
          PROVE  pending'[i] = c \/ (i \in DOMAIN pending /\ pending'[i] = pending[i])
        <3>1. i \in 1..Len(pending) \/ i = Len(pending) + 1
            BY <2>2
        <3> QED BY <2>2, <3>1
    <2> QED BY <2>1, <2>3
<1>5. InHands' = InHands /\ InNet' = InNet
    BY <1>2, <1>3, <1>4 DEF InHands, InNet
<1>6. Carried' = Carried
    BY <1>2, <1>5 DEF Carried, serverVars
<1>7. TypeOK' /\ BufferOK'
    BY <1>2, <1>3, <1>4 DEF TypeOK, BufferOK, serverVars
<1>8. ClientOK'
    <2>1. /\ \A d \in Reals(stored') \cup Reals(pending') : d.flags <= 0
          /\ \A i \in DOMAIN stored' : IsReal(stored'[i])
          /\ \A i \in DOMAIN pending' : IsReal(pending'[i])
        BY <1>2, <1>3, <1>4 DEF ClientOK
    <2>2. HasFinal(incoming') => stored' = <<>>
        BY <1>2, <1>3 DEF ClientOK
    <2> QED BY <1>2, <1>3, <2>1, <2>2 DEF ClientOK, HasFinal
<1>9. Ordered'
    <2>1. InOrder(pending')
        BY <1>2, <1>3, OrderAppend DEF Ordered, AllBefore
    <2>2. /\ AllBefore(Reals(stored), Reals(pending'))
          /\ AllBefore(Reals(stored), Reals(incoming'))
          /\ AllBefore(Reals(pending'), Reals(incoming'))
        BY <1>3, <1>4 DEF Ordered, AllBefore
    <2> QED BY <1>2, <1>3, <1>5, <2>1, <2>2 DEF Ordered, serverVars
<1>10. Slices' /\ BufferLast' /\ OutcomeOK' /\ Unbroken'
    BY <1>2, <1>6, SameCarried DEF serverVars
<1> QED BY <1>7, <1>8, <1>9, <1>10

LEMMA StoreRestStep ==
    ASSUME DownlinkInd, StoreRest, UNCHANGED faulty
    PROVE  DownlinkInd'
<1> USE DEF DownlinkInd
<1>1. /\ incoming = <<>> /\ stored' = stored \o pending /\ pending' = <<>> /\ cpc' = "process"
      /\ UNCHANGED <<serverVars, net, incoming, done, got>>
      /\ stored \in Seq(Chunk) /\ pending \in Seq(Chunk)
    BY DEF StoreRest, StoreIncoming, TypeOK
<1>2. Reals(stored') = Reals(stored) \cup Reals(pending) /\ Reals(pending') = {}
    BY <1>1, RealsConcat, EmptyIs
<1>3. InHands' = InHands /\ InNet' = InNet
    BY <1>1, <1>2 DEF InHands, InNet
<1>4. Carried' = Carried
    BY <1>1, <1>3 DEF Carried, serverVars
<1>5. TypeOK' /\ BufferOK'
    <2>1. stored' \in Seq(Chunk) /\ pending' \in Seq(Chunk)
        BY <1>1, EmptyIs
    <2> QED BY <1>1, <2>1 DEF TypeOK, BufferOK, serverVars
<1>6. ClientOK'
    <2>1. \A i \in DOMAIN stored' : IsReal(stored'[i])
        BY <1>1 DEF ClientOK
    <2>2. \A c \in Reals(stored') \cup Reals(pending') : c.flags <= 0
        BY <1>2 DEF ClientOK
    <2> QED BY <1>1, <2>1, <2>2 DEF ClientOK
<1>7. Ordered'
    <2>1. InOrder(stored') /\ InOrder(pending')
        BY <1>1, OrderConcat, EmptyIs DEF Ordered
    <2>2. /\ AllBefore(Reals(stored'), Reals(pending'))
          /\ AllBefore(Reals(stored'), Reals(incoming'))
          /\ AllBefore(Reals(pending'), Reals(incoming'))
        BY <1>1, <1>2, EmptyIs DEF AllBefore
    <2> QED BY <1>1, <1>3, <2>1, <2>2 DEF Ordered, serverVars
<1>8. Slices' /\ BufferLast' /\ OutcomeOK' /\ Unbroken'
    BY <1>1, <1>4, SameCarried DEF serverVars
<1> QED BY <1>5, <1>6, <1>7, <1>8

LEMMA ReceiveDoneStep ==
    ASSUME DownlinkInd, ReceiveDone, UNCHANGED faulty
    PROVE  DownlinkInd'
<1> USE DEF DownlinkInd
<1>1. UNCHANGED <<serverVars, net, incoming, stored, pending, done, got>>
      /\ cpc = "process" /\ cpc' = "idle" /\ done = <<>>
    BY DEF ReceiveDone
<1>2. TypeOK' /\ BufferOK' /\ ClientOK'
    BY <1>1 DEF TypeOK, BufferOK, ClientOK, serverVars
<1>3. Ordered' /\ Carried' = Carried
    BY <1>1 DEF Ordered, Carried, InHands, InNet, serverVars
<1>4. Slices' /\ BufferLast' /\ OutcomeOK' /\ Unbroken'
    BY <1>1, <1>3, SameCarried DEF serverVars
<1> QED BY <1>2, <1>3, <1>4

LEMMA ProcessStep ==
    ASSUME DownlinkInd, Process, UNCHANGED faulty
    PROVE  DownlinkInd'
<1> USE DEF DownlinkInd
<1>1. PICK id : id = Head(done)
    OBVIOUS
<1>2. /\ done \in Seq(Nat) /\ got \in Seq(Nat) /\ done # <<>> /\ cpc = "process"
      /\ got' = (IF id = 0 THEN got ELSE Append(got, id)) /\ done' = Tail(done)
      /\ UNCHANGED <<serverVars, net, cpc, incoming, stored, pending>>
    BY <1>1 DEF Process, TypeOK
<1>3. /\ done' \in Seq(Nat) /\ id = done[1] /\ 1 \in DOMAIN done /\ id \in Nat
      /\ Len(done') = Len(done) - 1 /\ Len(done) \in Nat \ {0}
      /\ \A i \in DOMAIN done' : i \in Nat \ {0} /\ i + 1 \in DOMAIN done /\ done'[i] = done[i + 1]
                                 /\ done'[i] \in Nat
    <2>1. done' \in Seq(Nat) /\ id = done[1] /\ 1 \in DOMAIN done /\ id \in Nat
          /\ Len(done') = Len(done) - 1 /\ Len(done) \in Nat \ {0}
          /\ \A i \in DOMAIN done' : i \in Nat \ {0} /\ i + 1 \in DOMAIN done /\ done'[i] = done[i + 1]
        BY <1>1, <1>2, TailIs
    <2> QED BY <2>1
<1>4. Carried' = Carried /\ Ordered' /\ BufferOK' /\ ClientOK'
    BY <1>2, ZenonT(40) DEF Carried, InHands, InNet, Ordered, BufferOK, ClientOK, serverVars
<1>5. got' \in Seq(Nat)
    BY <1>2, <1>3
<1>6. TypeOK'
    BY <1>2, <1>3, <1>5 DEF TypeOK, serverVars
<1>7. Slices' /\ BufferLast'
    BY <1>2, <1>4 DEF Slices, Slice, BufferLast, serverVars
<1>8. sent' = sent /\ outbuf' = outbuf /\ Carried' = Carried
    BY <1>2, <1>4 DEF serverVars
<1>9. CASE id = 0
    <2>1. got' = got
        BY <1>2, <1>9
    <2>2. OutcomeOK'
        BY <1>3, <1>8, <2>1, SMTT(30) DEF OutcomeOK, Past
    <2>3. ASSUME ~faulty PROVE FALSE
        <3>1. done[1] = Len(got) + 1 /\ done[1] = 0
            BY <1>3, <1>9, <2>3 DEF Unbroken
        <3>2. Len(got) \in Nat
            BY <1>2
        <3> QED BY <3>1, <3>2
    <2>4. Unbroken'
        BY <2>3 DEF Unbroken
    <2> QED BY <1>4, <1>6, <1>7, <2>2, <2>4
<1>10. CASE id # 0
    <2>1. /\ got' = Append(got, id) /\ Len(got') = Len(got) + 1 /\ Len(got) \in Nat
          /\ DOMAIN got = 1..Len(got) /\ DOMAIN got' = 1..(Len(got) + 1)
          /\ \A i \in DOMAIN got : got'[i] = got[i] /\ got[i] \in Nat
          /\ got'[Len(got) + 1] = id
        <3>1. got' = Append(got, id)
            BY <1>2, <1>10
        <3> QED BY <1>2, <1>3, <3>1, AppendIs
    <2>2. OutcomeOK'
        <3>1. (\A i \in DOMAIN got : got[i] # 0 /\ Past(got[i]))'
            BY <1>3, <1>8, <1>10, <2>1 DEF OutcomeOK, Past
        <3>2. (\A i \in DOMAIN done : done[i] # 0 => Past(done[i]))'
            BY <1>3, <1>8 DEF OutcomeOK, Past
        <3>3. ASSUME NEW i \in DOMAIN got', NEW j \in DOMAIN got', i < j PROVE got'[i] < got'[j]
            <4>1. i \in DOMAIN got
                BY <2>1, <3>3
            <4>2. CASE j \in DOMAIN got
                BY <2>1, <3>3, <4>1, <4>2 DEF OutcomeOK
            <4>3. CASE j = Len(got) + 1
                BY <1>3, <1>10, <2>1, <4>1, <4>3 DEF OutcomeOK
            <4> QED BY <2>1, <4>2, <4>3
        <3>4. \A i, j \in DOMAIN done' : i < j /\ done'[j] # 0 => done'[i] < done'[j]
            BY <1>3, SMTT(30) DEF OutcomeOK
        <3>5. ASSUME NEW i \in DOMAIN got', NEW j \in DOMAIN done', done'[j] # 0
              PROVE  got'[i] < done'[j]
            <4>1. j + 1 \in DOMAIN done /\ done'[j] = done[j + 1] /\ 1 < j + 1
                BY <1>3
            <4>2. CASE i \in DOMAIN got
                BY <2>1, <3>5, <4>1, <4>2 DEF OutcomeOK
            <4>3. CASE i = Len(got) + 1
                BY <1>3, <2>1, <3>5, <4>1, <4>3 DEF OutcomeOK
            <4> QED BY <2>1, <4>2, <4>3
        <3> QED BY <3>1, <3>2, <3>3, <3>4, <3>5 DEF OutcomeOK
    <2>3. Unbroken'
        <3> SUFFICES ASSUME ~faulty PROVE Unbroken'
            BY DEF Unbroken
        <3>1. id = Len(got) + 1
            BY <1>3, <2>1 DEF Unbroken
        <3>2. \A i \in DOMAIN got' : got'[i] = i
            BY <2>1, <3>1 DEF Unbroken
        <3>3. \A i \in DOMAIN done' : done'[i] = Len(got') + i
            BY <1>3, <2>1 DEF Unbroken
        <3>4. Finished' = Finished
            BY <1>3, <2>1 DEF Finished
        <3> QED BY <1>2, <1>4, <3>2, <3>3, <3>4 DEF Unbroken, serverVars
    <2> QED BY <1>4, <1>6, <1>7, <2>2, <2>3
<1> QED BY <1>9, <1>10

-----------------------------------------------------------------------------
(* Reassembly.                                                             *)

(* A Final chunk is at the head of incoming: only it and pending chunks of *)
(* its payload or of earlier ones come before the rest.                    *)
LEMMA FinalFirst ==
    ASSUME DownlinkInd, Scanning, IsFinal(Head(incoming))
    PROVE  LET fin == Head(incoming)
           IN  /\ fin \in Chunk /\ fin.flags = 2 /\ fin \in Carried /\ stored = <<>>
               /\ fin.id \in 1..Len(sent) /\ fin.hi = sent[fin.id] /\ fin.lo <= fin.hi
               /\ \A k \in DOMAIN outbuf : fin.id < outbuf[k].id
               /\ \A c \in Reals(pending) : c.id <= fin.id /\ Before(c, fin)
               /\ \A c \in Reals(Tail(incoming)) \cup InNet \cup Reals(part) :
                     c \in Carried /\ fin.id < c.id
               /\ Carried = Reals(pending) \cup {fin} \cup Reals(Tail(incoming))
                               \cup InNet \cup Reals(part)
<1> USE DEF DownlinkInd
<1>1. PICK fin : fin = Head(incoming)
    OBVIOUS
<1>2. /\ fin \in Chunk /\ fin.flags = 2 /\ fin \in Carried /\ stored = <<>>
      /\ Reals(incoming) = Reals(Tail(incoming)) \cup {fin}
      /\ \A d \in Reals(Tail(incoming)) : Before(fin, d)
    BY <1>1, FirstIncoming, ChunkIs DEF ClientOK
<1>3. Carried = Reals(pending) \cup {fin} \cup Reals(Tail(incoming)) \cup InNet \cup Reals(part)
    BY <1>2, EmptyIs DEF Carried, InHands
<1>4. Carried \subseteq Chunk
    BY CarriedType
<1>5. /\ fin.id \in 1..Len(sent) /\ fin.hi = sent[fin.id] /\ fin.lo <= fin.hi
    BY <1>1, <1>2 DEF Slices, Slice
<1>6. \A k \in DOMAIN outbuf : fin.id < outbuf[k].id
    BY <1>2 DEF BufferLast, Passed
<1>7. fin \in InHands /\ fin \in Reals(incoming)
    BY <1>2 DEF InHands
<1>8. ASSUME NEW c \in Reals(pending) PROVE c.id <= fin.id /\ Before(c, fin)
    <2>1. Before(c, fin)
        BY <1>7 DEF Ordered, AllBefore
    <2>2. c.id \in Nat /\ fin.id \in Nat
        BY <1>2, <1>3, <1>4, ChunkIs
    <2> QED BY <2>1, <2>2 DEF Before
<1>9. ASSUME NEW c \in Reals(Tail(incoming)) \cup InNet \cup Reals(part)
      PROVE  c \in Carried /\ fin.id < c.id
    <2>1. Before(fin, c)
        BY <1>2, <1>7 DEF Ordered, AllBefore
    <2> QED BY <1>2, <1>3, <2>1 DEF Before
<1> QED BY <1>1, <1>2, <1>3, <1>5, <1>6, <1>8, <1>9

(* Among the pending chunks of one payload the sort by order changes       *)
(* nothing.                                                                *)
LEMMA SortedAlready ==
    ASSUME DownlinkInd, NEW id, \A i \in DOMAIN pending : pending[i].id = id
    PROVE  \A i, j \in DOMAIN pending : Precedes(pending, i, j) <=> i < j
<1> USE DEF DownlinkInd
<1>1. /\ pending \in Seq(Chunk) /\ DOMAIN pending = 1..Len(pending)
      /\ \A i \in DOMAIN pending : /\ pending[i] \in Chunk /\ IsReal(pending[i])
                                   /\ pending[i] \in Reals(pending)
    BY DEF TypeOK, ClientOK, Reals
<1>2. \A i \in DOMAIN pending : pending[i].flags \in Int /\ pending[i].flags <= 0
                                /\ pending[i].id \in Nat
    BY <1>1, ChunkIs DEF ClientOK
<1>3. ASSUME NEW i \in DOMAIN pending, NEW j \in DOMAIN pending, i < j
      PROVE  pending[j].flags < pending[i].flags
    <2>1. Before(pending[i], pending[j])
        BY <1>1, <1>3 DEF Ordered, InOrder
    <2> QED BY <1>2, <2>1 DEF Before
<1> SUFFICES ASSUME NEW i \in DOMAIN pending, NEW j \in DOMAIN pending
             PROVE  Precedes(pending, i, j) <=> i < j
    OBVIOUS
<1>4. i \in Int /\ j \in Int
    BY <1>1
<1>5. CASE i < j
    BY <1>3, <1>5 DEF Precedes
<1>6. CASE j < i
    BY <1>2, <1>3, <1>4, <1>6 DEF Precedes
<1>7. CASE i = j
    BY <1>2, <1>4, <1>7 DEF Precedes
<1> QED BY <1>4, <1>5, <1>6, <1>7

LEMMA IndWhole == DownlinkInd => WholeIfNoneLost
<1> SUFFICES ASSUME DownlinkInd, Scanning, IsFinal(Head(incoming)), CutsFit(pending, Head(incoming))
             PROVE  Complete
    BY DEF WholeIfNoneLost
<1> USE DEF DownlinkInd
<1>1. PICK fin : fin = Head(incoming)
    OBVIOUS
<1>2. CutsFit(pending, fin) /\ fin.hi = sent[fin.id]
    BY <1>1, FinalFirst
<1>3. \A i \in DOMAIN pending : pending[i].id = fin.id
    BY <1>2 DEF CutsFit
<1>4. \A i, j \in DOMAIN pending : Precedes(pending, i, j) <=> i < j
    BY <1>3, SortedAlready
<1>5. DOMAIN pending = 1..Len(pending) /\ Len(pending) \in Nat
    BY DEF TypeOK
<1>6. ASSUME NEW i \in 2..Len(pending) PROVE pending[i].lo = pending[i - 1].hi + 1
    BY <1>2, <1>5 DEF CutsFit
<1>7. Len(pending) # 0 => pending[1].lo = 1
    BY <1>2, <1>5 DEF CutsFit
<1>8. fin.lo = IF Len(pending) = 0 THEN 1 ELSE pending[Len(pending)].hi + 1
    <2>1. Len(pending) + 1 \in 1..(Len(pending) + 1) /\ ~(Len(pending) + 1 <= Len(pending))
          /\ (Len(pending) + 1) - 1 = Len(pending)
        BY <1>5
    <2>2. fin.lo = (IF Len(pending) + 1 = 1 THEN 0 ELSE pending[Len(pending)].hi) + 1
        BY <1>2, <2>1 DEF CutsFit
    <2> QED BY <1>5, <2>2
<1>9. pending = <<>> => fin.lo = 1
    BY <1>8
<1>10. ASSUME NEW j \in DOMAIN pending
       PROVE  /\ (\A i \in DOMAIN pending : ~Precedes(pending, i, j)) => pending[j].lo = 1
              /\ (\A i \in DOMAIN pending : ~Precedes(pending, j, i)) => fin.lo = pending[j].hi + 1
              /\ \A i \in DOMAIN pending : JustBefore(pending, i, j) => pending[j].lo = pending[i].hi + 1
    <2>1. ASSUME \A i \in DOMAIN pending : ~Precedes(pending, i, j) PROVE pending[j].lo = 1
        <3>1. j = 1
            <4>1. 1 \in DOMAIN pending /\ (1 < j \/ j = 1)
                BY <1>5
            <4> QED BY <1>4, <2>1, <4>1
        <3> QED BY <1>5, <1>7, <3>1
    <2>2. ASSUME \A i \in DOMAIN pending : ~Precedes(pending, j, i)
          PROVE  fin.lo = pending[j].hi + 1
        <3>1. j = Len(pending)
            <4>1. Len(pending) \in DOMAIN pending /\ (j < Len(pending) \/ j = Len(pending))
                BY <1>5
            <4> QED BY <1>4, <2>2, <4>1
        <3> QED BY <1>5, <1>8, <3>1
    <2>3. ASSUME NEW i \in DOMAIN pending, JustBefore(pending, i, j)
          PROVE  pending[j].lo = pending[i].hi + 1
        <3>1. i < j /\ \A k \in DOMAIN pending : ~(i < k /\ k < j)
            BY <1>4, <2>3 DEF JustBefore
        <3>2. j = i + 1
            <4>1. i \in Int /\ j \in Int /\ i + 1 \in DOMAIN pending
                BY <1>5, <3>1
            <4>2. ~(i < i + 1 /\ i + 1 < j)
                BY <3>1, <4>1
            <4> QED BY <3>1, <4>1, <4>2
        <3>3. j \in 2..Len(pending) /\ j - 1 = i
            BY <1>5, <3>2
        <3> QED BY <1>6, <3>3
    <2> QED BY <2>1, <2>2, <2>3
<1> QED BY <1>1, <1>2, <1>3, <1>9, <1>10 DEF Complete, IsWholePayload

(* Until something fails the chunks in hand are all of the next payload.   *)
LEMMA NextIsWhole ==
    ASSUME DownlinkInd, ~faulty, Scanning, IsFinal(Head(incoming))
    PROVE  Head(incoming).id = Finished + 1 /\ Complete
<1> USE DEF DownlinkInd
<1>1. PICK fin : fin = Head(incoming)
    OBVIOUS
<1>2. /\ fin \in Chunk /\ fin.flags = 2 /\ fin \in Carried /\ IsFinal(fin)
      /\ fin.id \in 1..Len(sent) /\ fin.hi = sent[fin.id] /\ fin.lo <= fin.hi
      /\ \A k \in DOMAIN outbuf : fin.id < outbuf[k].id
      /\ \A c \in Reals(pending) : c.id <= fin.id /\ Before(c, fin)
      /\ \A c \in Reals(Tail(incoming)) \cup InNet \cup Reals(part) : fin.id < c.id
      /\ Carried = Reals(pending) \cup {fin} \cup Reals(Tail(incoming)) \cup InNet \cup Reals(part)
    BY <1>1, FinalFirst
<1>3. /\ Len(sent) \in Nat /\ Finished \in Nat /\ fin.id \in Nat /\ fin.lo \in Nat
      /\ Len(got) \in Nat /\ Len(done) \in Nat
    BY <1>2, ChunkIs, SMTT(30) DEF Finished, TypeOK
<1>4. Carried \subseteq Chunk
    BY CarriedType
<1>5. /\ pending \in Seq(Chunk) /\ DOMAIN pending = 1..Len(pending) /\ Len(pending) \in Nat
      /\ \A i \in DOMAIN pending :
           /\ pending[i] \in Reals(pending) /\ pending[i] \in Carried /\ IsReal(pending[i])
           /\ pending[i].flags <= 0
      /\ \A c \in Reals(pending) : \E i \in DOMAIN pending : c = pending[i]
    <2>1. /\ pending \in Seq(Chunk)
          /\ \A i \in DOMAIN pending : IsReal(pending[i]) /\ pending[i] \in Reals(pending)
          /\ \A c \in Reals(pending) : \E i \in DOMAIN pending : c = pending[i]
        BY DEF TypeOK, ClientOK, Reals
    <2> QED BY <1>2, <2>1 DEF ClientOK
<1>6. \A c \in Carried : /\ c.id \in Nat /\ c.lo \in Nat /\ c.hi \in Nat
                         /\ c.id \in 1..Len(sent) /\ 1 <= c.lo /\ c.lo <= c.hi
    BY <1>4, ChunkIs DEF Slices, Slice
(* No payload before that of fin is unfinished. *)
<1>7. ASSUME NEW id \in 1..Len(sent), id < fin.id PROVE id <= Finished
    <2>1. ASSUME NEW d \in Carried, d.id = id, IsFinal(d) PROVE FALSE
        <3>1. d \in Reals(pending)
            BY <1>2, <1>3, <1>6, <1>7, <2>1
        <3>2. d.flags <= 0
            BY <3>1 DEF ClientOK
        <3> QED BY <1>4, <2>1, <3>2, ChunkIs
    <2>2. ASSUME NEW k \in DOMAIN outbuf, outbuf[k].id = id PROVE FALSE
        BY <1>2, <1>3, <1>7, <2>2
    <2> QED BY <2>1, <2>2 DEF Unbroken
<1>8. fin.id > Finished
    <2>1. CASE Finished = 0
        BY <1>2, <2>1
    <2>2. CASE Len(done) # 0
        <3>1. Len(done) \in DOMAIN done
            BY <1>3, <2>2 DEF TypeOK
        <3>2. done[Len(done)] = Finished
            BY <3>1 DEF Unbroken, Finished
        <3> QED BY <1>2, <1>3, <2>2, <3>1, <3>2 DEF OutcomeOK, Past, Finished
    <2>3. CASE Len(done) = 0 /\ Len(got) # 0
        <3>1. Len(got) \in DOMAIN got
            BY <1>3, <2>3 DEF TypeOK
        <3>2. got[Len(got)] = Finished
            BY <1>3, <2>3, <3>1 DEF Unbroken, Finished
        <3> QED BY <1>2, <3>1, <3>2 DEF OutcomeOK, Past
    <2> QED BY <1>3, <2>1, <2>2, <2>3 DEF Finished
<1>9. fin.id = Finished + 1
    <2>1. CASE fin.id > Finished + 1
        <3>1. Finished + 1 \in 1..Len(sent) /\ Finished + 1 < fin.id
            BY <1>2, <1>3, <2>1
        <3> QED BY <1>3, <1>7, <3>1
    <2> QED BY <1>3, <1>8, <2>1
<1>10. ASSUME NEW i \in DOMAIN pending PROVE pending[i].id = fin.id
    <2>1. ASSUME pending[i].id # fin.id PROVE FALSE
        <3>1. pending[i].id \in 1..Len(sent) /\ pending[i].id < fin.id /\ pending[i].id \in Nat
            BY <1>2, <1>3, <1>5, <1>6, <2>1
        <3>2. pending[i].id <= Finished
            BY <1>7, <3>1
        <3>3. CASE pending[i].id <= Len(got)
            <4>1. pending[i].id \in DOMAIN got /\ got[pending[i].id] = pending[i].id
                BY <1>3, <3>1, <3>3, SMTT(30) DEF Unbroken, TypeOK
            <4> QED BY <1>5, <3>1, <4>1 DEF OutcomeOK, Past
        <3>4. CASE pending[i].id > Len(got)
            <4>1. pending[i].id - Len(got) \in DOMAIN done
                BY <1>3, <3>1, <3>2, <3>4 DEF TypeOK, Finished
            <4>2. done[pending[i].id - Len(got)] = pending[i].id
                BY <1>3, <3>1, <4>1 DEF Unbroken
            <4> QED BY <1>5, <3>1, <4>1, <4>2 DEF OutcomeOK, Past
        <3> QED BY <1>3, <3>1, <3>3, <3>4
    <2> QED BY <2>1
(* What comes before a chunk of the payload is a pending chunk before it.  *)
<1>11. ASSUME NEW i \in DOMAIN pending, NEW j \in DOMAIN pending, i < j
       PROVE  pending[i].hi < pending[j].lo
    <2>1. Before(pending[i], pending[j])
        BY <1>5, <1>11 DEF Ordered, InOrder
    <2> QED BY <1>3, <1>10, <2>1 DEF Before
<1>12. ASSUME NEW c \in Reals(pending) \cup {fin}, c.lo # 1
       PROVE  \E i \in DOMAIN pending : pending[i].hi + 1 = c.lo
    <2>1. c \in Carried /\ c.id = fin.id
        BY <1>2, <1>5, <1>10
    <2>2. PICK d \in Carried : d.id = c.id /\ d.hi + 1 = c.lo
        BY <1>12, <2>1 DEF Unbroken
    <2>3. d \in Reals(pending) \cup {fin}
        BY <1>2, <1>3, <1>6, <2>1, <2>2
    <2>4. d # fin
        <3>1. ASSUME d = fin PROVE FALSE
            <4>1. CASE c = fin
                BY <1>6, <2>1, <2>2, <3>1, <4>1
            <4>2. CASE c \in Reals(pending)
                <5>1. c.hi < fin.lo
                    BY <1>2, <1>3, <2>1, <4>2 DEF Before
                <5> QED BY <1>2, <1>3, <1>6, <2>1, <2>2, <3>1, <5>1
            <4> QED BY <4>1, <4>2
        <3> QED BY <3>1
    <2> QED BY <1>5, <2>2, <2>3, <2>4
<1>13. ASSUME NEW i \in DOMAIN pending
       PROVE  pending[i].lo = (IF i = 1 THEN 0 ELSE pending[i - 1].hi) + 1
    <2>0. /\ pending[i].lo \in Nat /\ pending[i].hi \in Nat /\ pending[i].lo <= pending[i].hi
          /\ 1 <= pending[i].lo
        BY <1>5, <1>6
    <2>1. CASE i = 1
        <3>1. ASSUME pending[i].lo # 1 PROVE FALSE
            <4>1. PICK k \in DOMAIN pending : pending[k].hi + 1 = pending[i].lo
                BY <1>5, <1>12, <3>1
            <4>2. pending[k].hi \in Nat /\ pending[k].lo \in Nat /\ pending[k].lo <= pending[k].hi
                BY <1>5, <1>6
            <4>3. k # i => i < k
                BY <1>5, <2>1
            <4> QED BY <1>11, <2>0, <4>1, <4>2, <4>3
        <3> QED BY <2>1, <3>1
    <2>2. CASE i # 1
        <3>0. i - 1 \in DOMAIN pending /\ i - 1 < i
            BY <1>5, <2>2
        <3>1. /\ pending[i - 1].hi \in Nat /\ pending[i - 1].lo \in Nat /\ 1 <= pending[i - 1].lo
              /\ pending[i - 1].lo <= pending[i - 1].hi /\ pending[i - 1].hi < pending[i].lo
            BY <1>5, <1>6, <1>11, <3>0
        <3>2. PICK k \in DOMAIN pending : pending[k].hi + 1 = pending[i].lo
            <4>1. pending[i].lo # 1
                BY <2>0, <3>1
            <4> QED BY <1>5, <1>12, <4>1
        <3>3. pending[k].hi \in Nat /\ pending[k].lo \in Nat /\ pending[k].lo <= pending[k].hi
            BY <1>5, <1>6
        <3>4. CASE k = i - 1
            BY <2>2, <3>2, <3>4
        <3>5. CASE k < i - 1
            BY <1>11, <3>0, <3>1, <3>2, <3>3, <3>5
        <3>6. CASE k = i
            BY <2>0, <3>2, <3>6
        <3>7. CASE k > i
            BY <1>11, <2>0, <3>2, <3>3, <3>7
        <3> QED BY <1>5, <3>4, <3>5, <3>6, <3>7
    <2> QED BY <2>1, <2>2
<1>14. fin.lo = (IF Len(pending) = 0 THEN 0 ELSE pending[Len(pending)].hi) + 1
    <2>0. \A i \in DOMAIN pending : pending[i].hi < fin.lo /\ pending[i].hi \in Nat
                                    /\ pending[i].lo \in Nat /\ pending[i].lo <= pending[i].hi
        BY <1>2, <1>3, <1>5, <1>6, <1>10 DEF Before
    <2>1. CASE Len(pending) = 0
        <3>1. ASSUME fin.lo # 1 PROVE FALSE
            BY <1>5, <1>12, <2>1, <3>1
        <3> QED BY <2>1, <3>1
    <2>2. CASE Len(pending) # 0
        <3>1. Len(pending) \in DOMAIN pending
            BY <1>5, <2>2
        <3>2. PICK k \in DOMAIN pending : pending[k].hi + 1 = fin.lo
            <4>1. fin.lo # 1
                <5>1. 1 <= pending[Len(pending)].lo
                    BY <1>5, <1>6, <3>1
                <5> QED BY <1>3, <2>0, <3>1, <5>1
            <4> QED BY <1>12, <4>1
        <3>3. CASE k = Len(pending)
            BY <2>2, <3>2, <3>3
        <3>4. CASE k # Len(pending)
            <4>1. k < Len(pending)
                BY <1>5, <3>4
            <4> QED BY <1>3, <1>11, <2>0, <3>1, <3>2, <4>1, SMTT(30)
        <3> QED BY <3>3, <3>4
    <2> QED BY <2>1, <2>2
<1>15. CutsFit(pending, fin)
    <2>1. ASSUME NEW i \in 1..(Len(pending) + 1)
          PROVE  (IF i <= Len(pending) THEN pending[i] ELSE fin).lo
                     = (IF i = 1 THEN 0 ELSE pending[i - 1].hi) + 1
        <3>1. CASE i <= Len(pending)
            BY <1>5, <1>13, <3>1
        <3>2. CASE i = Len(pending) + 1
            <4>1. ~(i <= Len(pending)) /\ i - 1 = Len(pending) /\ (i = 1 <=> Len(pending) = 0)
                BY <1>5, <3>2
            <4> QED BY <1>14, <4>1
        <3> QED BY <1>5, <3>1, <3>2
    <2> QED BY <1>10, <2>1 DEF CutsFit
<1>16. Complete
    BY <1>1, <1>2, <1>15, IndWhole DEF WholeIfNoneLost
<1> QED BY <1>1, <1>9, <1>16

(* The pending chunks and the Final chunk leave. *)
LEMMA FinalConsumed ==
    ASSUME DownlinkInd, Scanning, IsFinal(Head(incoming)),
           pending' = <<>>, incoming' = Tail(incoming),
           UNCHANGED <<serverVars, net, cpc, stored>>
    PROVE  /\ ClientOK' /\ Ordered' /\ BufferOK'
           /\ pending' \in Seq(Chunk) /\ incoming' \in Seq(Chunk)
           /\ Carried' = {c \in Carried : Head(incoming).id < c.id}
<1> USE DEF DownlinkInd
<1>1. PICK fin : fin = Head(incoming)
    OBVIOUS
<1>2. /\ incoming' \in Seq(Chunk) /\ InOrder(incoming') /\ cpc = "scan"
      /\ Reals(incoming') = {incoming'[i] : i \in DOMAIN incoming'}
      /\ Reals(incoming) = Reals(incoming') \cup {fin}
    BY <1>1, FirstIncoming
<1>3. /\ stored = <<>> /\ fin \in Chunk /\ fin.id \in Nat
      /\ \A c \in Reals(pending) : c.id <= fin.id
      /\ \A c \in Reals(incoming') \cup InNet \cup Reals(part) : fin.id < c.id
      /\ Carried = Reals(pending) \cup {fin} \cup Reals(incoming') \cup InNet \cup Reals(part)
    BY <1>1, FinalFirst, ChunkIs
<1>4. /\ Reals(stored') = {} /\ Reals(pending') = {} /\ InNet' = InNet /\ part' = part
      /\ pending' \in Seq(Chunk) /\ InOrder(pending') /\ InOrder(stored')
    BY <1>3, EmptyIs DEF InNet, serverVars
<1>5. InHands' = Reals(incoming') /\ InHands' \subseteq InHands
    BY <1>2, <1>4 DEF InHands
<1>6. Carried' = {c \in Carried : fin.id < c.id}
    <2>1. Carried' = Reals(incoming') \cup InNet \cup Reals(part)
        BY <1>4, <1>5 DEF Carried
    <2>2. \A c \in Reals(pending) \cup {fin} : ~(fin.id < c.id)
        <3>1. \A c \in Reals(pending) : c.id \in Nat
            <4>1. Carried \subseteq Chunk
                BY CarriedType
            <4> QED BY <1>3, <4>1, ChunkIs
        <3> QED BY <1>3, <3>1
    <2> QED BY <1>3, <2>1, <2>2
<1>7. ClientOK'
    BY <1>2, <1>3, <1>4 DEF ClientOK, HasFinal
<1>8. Ordered'
    <2>1. AllBefore(InHands', InNet' \cup Reals(part')) /\ AllBefore(InNet', Reals(part'))
        BY <1>4, <1>5 DEF Ordered, AllBefore
    <2>2. /\ AllBefore(Reals(stored'), Reals(pending'))
          /\ AllBefore(Reals(stored'), Reals(incoming'))
          /\ AllBefore(Reals(pending'), Reals(incoming'))
        BY <1>4 DEF AllBefore
    <2> QED BY <1>2, <1>4, <2>1, <2>2 DEF Ordered
<1>9. BufferOK'
    BY DEF BufferOK, serverVars
<1> QED BY <1>1, <1>2, <1>4, <1>6, <1>7, <1>8, <1>9

LEMMA CompletePayloadStep ==
    ASSUME DownlinkInd, CompletePayload, UNCHANGED faulty
    PROVE  DownlinkInd'
<1> USE DEF DownlinkInd
<1>1. PICK fin : fin = Head(incoming)
    OBVIOUS
<1>2. /\ Scanning /\ IsFinal(Head(incoming)) /\ IsFinal(fin) /\ done' = Append(done, fin.id)
      /\ pending' = <<>> /\ incoming' = Tail(incoming)
      /\ UNCHANGED <<serverVars, net, cpc, stored, got>>
    BY <1>1 DEF CompletePayload
<1>3. /\ ClientOK' /\ Ordered' /\ BufferOK'
      /\ pending' \in Seq(Chunk) /\ incoming' \in Seq(Chunk)
      /\ Carried' = {c \in Carried : fin.id < c.id}
    BY <1>1, <1>2, FinalConsumed
<1>4. /\ fin \in Chunk /\ fin \in Carried /\ fin.id \in 1..Len(sent) /\ fin.id \in Nat \ {0}
      /\ \A k \in DOMAIN outbuf : fin.id < outbuf[k].id
    <2>1. fin \in Chunk /\ fin \in Carried /\ fin.id \in 1..Len(sent)
          /\ \A k \in DOMAIN outbuf : fin.id < outbuf[k].id
        BY <1>1, <1>2, FinalFirst
    <2> QED BY <2>1
<1>5. /\ done \in Seq(Nat) /\ got \in Seq(Nat) /\ done' \in Seq(Nat)
      /\ DOMAIN done = 1..Len(done) /\ DOMAIN done' = 1..(Len(done) + 1)
      /\ Len(done) \in Nat /\ Len(done') = Len(done) + 1
      /\ \A i \in DOMAIN done : done'[i] = done[i] /\ done[i] \in Nat
      /\ done'[Len(done) + 1] = fin.id
    <2>1. done \in Seq(Nat) /\ got \in Seq(Nat)
        BY DEF TypeOK
    <2> QED BY <1>2, <1>4, <2>1, AppendIs
<1>6. TypeOK'
    BY <1>2, <1>3, <1>5 DEF TypeOK, serverVars
<1>7. sent' = sent /\ outbuf' = outbuf /\ Carried' \subseteq Carried
    BY <1>2, <1>3 DEF serverVars
<1>8. Slices' /\ BufferLast'
    BY <1>7 DEF Slices, Slice, BufferLast
<1>9. OutcomeOK'
    <2>1. (\A i \in DOMAIN got : got[i] # 0 /\ Past(got[i]))'
        BY <1>2, <1>7 DEF OutcomeOK, Past
    <2>2. ASSUME NEW i \in DOMAIN done', done'[i] # 0 PROVE Past(done[i])'
        <3>1. CASE i \in DOMAIN done
            BY <1>5, <1>7, <2>2, <3>1 DEF OutcomeOK, Past
        <3>2. CASE i = Len(done) + 1
            BY <1>3, <1>4, <1>5, <1>7, <3>2 DEF Past
        <3> QED BY <1>5, <3>1, <3>2
    <2>3. \A i, j \in DOMAIN got' : i < j => got'[i] < got'[j]
        BY <1>2 DEF OutcomeOK
    <2>4. ASSUME NEW i \in DOMAIN done', NEW j \in DOMAIN done', i < j, done'[j] # 0
          PROVE  done'[i] < done'[j]
        <3>1. i \in DOMAIN done /\ done'[i] = done[i] /\ done[i] \in Nat
            BY <1>5, <2>4
        <3>2. CASE j \in DOMAIN done
            BY <1>5, <2>4, <3>1, <3>2 DEF OutcomeOK
        <3>3. CASE j = Len(done) + 1
            <4>1. done[i] # 0 => done[i] < fin.id
                BY <1>4, <3>1 DEF OutcomeOK, Past
            <4> QED BY <1>4, <1>5, <3>1, <3>3, <4>1
        <3> QED BY <1>5, <3>2, <3>3
    <2>5. ASSUME NEW i \in DOMAIN got', NEW j \in DOMAIN done', done'[j] # 0
          PROVE  got'[i] < done'[j]
        <3>1. CASE j \in DOMAIN done
            BY <1>2, <1>5, <2>5, <3>1 DEF OutcomeOK
        <3>2. CASE j = Len(done) + 1
            BY <1>2, <1>4, <1>5, <3>2 DEF OutcomeOK, Past
        <3> QED BY <1>5, <3>1, <3>2
    <2>6. (\A i \in DOMAIN done : done[i] # 0 => Past(done[i]))'
        BY <2>2
    <2> QED BY <2>1, <2>3, <2>4, <2>5, <2>6 DEF OutcomeOK
<1>10. Unbroken'
    <2> SUFFICES ASSUME ~faulty PROVE Unbroken'
        BY DEF Unbroken
    <2>1. fin.id = Finished + 1 /\ Len(got) \in Nat /\ Finished' = Finished + 1
          /\ fin.id = Len(got) + Len(done) + 1 /\ Finished \in Nat
        BY <1>1, <1>2, <1>5, NextIsWhole DEF Finished
    <2>2. \A i \in DOMAIN got' : got'[i] = i
        BY <1>2 DEF Unbroken
    <2>3. ASSUME NEW i \in DOMAIN done' PROVE done'[i] = Len(got') + i
        <3>1. CASE i \in DOMAIN done
            BY <1>2, <1>5, <3>1 DEF Unbroken
        <3>2. CASE i = Len(done) + 1
            BY <1>2, <1>5, <2>1, <3>2
        <3> QED BY <1>5, <3>1, <3>2
    <2>4. ASSUME NEW c \in Carried', c.lo # 1
          PROVE  \E d \in Carried' : d.id = c.id /\ d.hi + 1 = c.lo
        <3>1. c \in Carried /\ fin.id < c.id
            BY <1>3
        <3>2. PICK d \in Carried : d.id = c.id /\ d.hi + 1 = c.lo
            BY <2>4, <3>1 DEF Unbroken
        <3> QED BY <1>3, <3>1, <3>2
    <2>5. ASSUME NEW k \in DOMAIN outbuf', outbuf'[k].off # 0
          PROVE  \E d \in Carried' : d.id = outbuf'[k].id /\ d.hi = outbuf'[k].off
        <3>1. PICK d \in Carried : d.id = outbuf[k].id /\ d.hi = outbuf[k].off
            BY <1>7, <2>5 DEF Unbroken
        <3> QED BY <1>3, <1>4, <1>7, <3>1
    <2>6. ASSUME NEW id \in 1..Len(sent')
          PROVE  \/ id <= Finished'
                 \/ \E d \in Carried' : d.id = id /\ IsFinal(d)
                 \/ \E k \in DOMAIN outbuf' : outbuf'[k].id = id
        <3>1. CASE id <= Finished + 1
            BY <2>1, <3>1
        <3>2. CASE ~(id <= Finished + 1)
            <4>1. \/ id <= Finished
                  \/ \E d \in Carried : d.id = id /\ IsFinal(d)
                  \/ \E k \in DOMAIN outbuf : outbuf[k].id = id
                BY <1>7 DEF Unbroken
            <4>2. ~(id <= Finished) /\ fin.id < id
                BY <2>1, <3>2
            <4> QED BY <1>3, <1>7, <4>1, <4>2
        <3> QED BY <3>1, <3>2
    <2> QED BY <1>2, <2>2, <2>3, <2>4, <2>5, <2>6 DEF Unbroken
<1> QED BY <1>3, <1>6, <1>8, <1>9, <1>10

LEMMA DecodeGarbageStep ==
    ASSUME DownlinkInd, DecodeGarbage, UNCHANGED faulty
    PROVE  DownlinkInd'
<1> USE DEF DownlinkInd
<1>1. /\ Scanning /\ IsFinal(Head(incoming)) /\ ~Complete /\ done' = Append(done, 0)
      /\ pending' = <<>> /\ incoming' = Tail(incoming)
      /\ UNCHANGED <<serverVars, net, cpc, stored, got>>
    BY DEF DecodeGarbage
<1>2. faulty
    BY <1>1, NextIsWhole
<1>3. /\ ClientOK' /\ Ordered' /\ BufferOK'
      /\ pending' \in Seq(Chunk) /\ incoming' \in Seq(Chunk) /\ Carried' \subseteq Carried
    BY <1>1, FinalConsumed
<1>4. /\ done' \in Seq(Nat) /\ DOMAIN done = 1..Len(done) /\ DOMAIN done' = 1..(Len(done) + 1)
      /\ Len(done) \in Nat /\ \A i \in DOMAIN done : done'[i] = done[i]
      /\ done'[Len(done) + 1] = 0
    <2>1. done \in Seq(Nat)
        BY DEF TypeOK
    <2> QED BY <1>1, <2>1, AppendIs
<1>5. \A i \in DOMAIN done' : done'[i] # 0 => i \in DOMAIN done /\ done'[i] = done[i]
    BY <1>4
<1>6. TypeOK'
    BY <1>1, <1>3, <1>4 DEF TypeOK, serverVars
<1>7. sent' = sent /\ outbuf' = outbuf
    BY <1>1 DEF serverVars
<1>8. Slices' /\ BufferLast' /\ Unbroken'
    BY <1>2, <1>3, <1>7 DEF Slices, Slice, BufferLast, Unbroken
<1>9. OutcomeOK'
    <2>1. (\A i \in DOMAIN got : got[i] # 0 /\ Past(got[i]))'
        BY <1>1, <1>3, <1>7 DEF OutcomeOK, Past
    <2>2. (\A i \in DOMAIN done : done[i] # 0 => Past(done[i]))'
        BY <1>3, <1>5, <1>7 DEF OutcomeOK, Past
    <2>3. ASSUME NEW i \in DOMAIN done', NEW j \in DOMAIN done', i < j, done'[j] # 0
          PROVE  done'[i] < done'[j]
        <3>1. j \in DOMAIN done /\ i \in DOMAIN done
            BY <1>4, <1>5, <2>3
        <3> QED BY <1>4, <2>3, <3>1 DEF OutcomeOK
    <2>4. \A i \in DOMAIN got', j \in DOMAIN done' : done'[j] # 0 => got'[i] < done'[j]
        BY <1>1, <1>5 DEF OutcomeOK
    <2> QED BY <1>1, <2>1, <2>2, <2>3, <2>4 DEF OutcomeOK
<1> QED BY <1>3, <1>6, <1>8, <1>9

-----------------------------------------------------------------------------
(* Faults.                                                                 *)

LEMMA StopStep ==
    ASSUME DownlinkInd, Stop, faulty' = TRUE
    PROVE  DownlinkInd'
<1> USE DEF DownlinkInd
<1>1. /\ cpc' = "idle" /\ net' = <<>> /\ incoming' = <<>> /\ pending' = <<>> /\ done' = <<>>
      /\ UNCHANGED <<serverVars, stored, got>>
    BY DEF Stop
<1>2. /\ InNet' = {} /\ Reals(incoming') = {} /\ Reals(pending') = {}
      /\ InOrder(incoming') /\ InOrder(pending')
    BY <1>1, EmptyIs DEF InNet
<1>3. InHands' = Reals(stored) /\ Reals(stored) \subseteq InHands
    BY <1>1, <1>2 DEF InHands
<1>4. Carried' \subseteq Carried
    BY <1>1, <1>2, <1>3 DEF Carried, serverVars
<1>5. TypeOK'
    <2>1. /\ net' \in Seq(Seq(Chunk)) /\ incoming' \in Seq(Chunk)
          /\ pending' \in Seq(Chunk) /\ done' \in Seq(Nat)
        BY <1>1, EmptyIs
    <2> QED BY <1>1, <2>1 DEF TypeOK, serverVars
<1>6. BufferOK'
    BY <1>1 DEF BufferOK, serverVars
<1>7. ClientOK'
    <2>1. Reals(incoming') = {incoming'[i] : i \in DOMAIN incoming'}
        BY <1>1, <1>2
    <2> QED BY <1>1, <1>2, <2>1 DEF ClientOK
<1>8. Ordered'
    <2>1. AllBefore(InHands', InNet' \cup Reals(part')) /\ AllBefore(InNet', Reals(part'))
        BY <1>1, <1>2, <1>3 DEF Ordered, AllBefore, serverVars
    <2>2. /\ AllBefore(Reals(stored'), Reals(pending'))
          /\ AllBefore(Reals(stored'), Reals(incoming'))
          /\ AllBefore(Reals(pending'), Reals(incoming'))
        BY <1>2 DEF AllBefore
    <2>3. InOrder(stored') /\ InOrder(part') /\ DOMAIN net' = {}
        BY <1>1 DEF Ordered, serverVars
    <2> QED BY <1>2, <2>1, <2>2, <2>3 DEF Ordered
<1>9. Slices' /\ BufferLast' /\ OutcomeOK' /\ Unbroken'
    BY <1>1, <1>4, LessCarried DEF serverVars
<1> QED BY <1>5, <1>6, <1>7, <1>8, <1>9

LEMMA RefuseGarbageStep ==
    ASSUME DownlinkInd, RefuseGarbage, UNCHANGED faulty
    PROVE  DownlinkInd'
<1>1. Scanning /\ IsFinal(Head(incoming)) /\ ~Complete /\ Stop
    BY DEF RefuseGarbage
<1>2. faulty \in BOOLEAN
    BY DEF DownlinkInd, TypeOK
<1>3. faulty
    BY <1>1, NextIsWhole
<1> QED BY <1>1, <1>2, <1>3, StopStep

(* A message is given up: nothing of it stays. *)
LEMMA GiveUpStep ==
    ASSUME DownlinkInd, EndMessage, faulty' = TRUE, UNCHANGED <<sent, net, clientVars>>,
           outbuf' \in {outbuf, IF outbuf = <<>> THEN outbuf ELSE Tail(outbuf)}
    PROVE  DownlinkInd'
<1> USE DEF DownlinkInd
<1>1. part' = <<>> /\ spc' = "idle" /\ budget' = 0 /\ take' = 0
    BY DEF EndMessage
<1>2. /\ Reals(part') = {} /\ InOrder(part') /\ part' \in Seq(Chunk)
      /\ InHands' = InHands /\ InNet' = InNet
    BY <1>1, EmptyIs DEF InHands, InNet, clientVars
<1>3. Carried' \subseteq Carried
    BY <1>2 DEF Carried
<1>4. /\ outbuf' \in Seq(Entry)
      /\ \/ outbuf' = outbuf
         \/ \A k \in DOMAIN outbuf' : k \in Nat \ {0} /\ k + 1 \in DOMAIN outbuf /\ outbuf'[k] = outbuf[k + 1]
    <2>1. outbuf \in Seq(Entry)
        BY DEF TypeOK, Entry
    <2>2. CASE outbuf' = outbuf
        BY <2>1, <2>2
    <2>3. CASE outbuf # <<>> /\ outbuf' = Tail(outbuf)
        BY <2>1, <2>3, TailIs
    <2> QED BY <2>2, <2>3
<1>5. TypeOK'
    BY <1>1, <1>2, <1>4 DEF TypeOK, clientVars, Entry
<1>6. BufferOK'
    <2>1. CASE outbuf' = outbuf
        BY <1>1, <2>1 DEF BufferOK
    <2>2. CASE \A k \in DOMAIN outbuf' : k \in Nat \ {0} /\ k + 1 \in DOMAIN outbuf /\ outbuf'[k] = outbuf[k + 1]
        <3>1. ASSUME NEW k \in DOMAIN outbuf'
              PROVE  /\ outbuf'[k].id \in 1..Len(sent') /\ outbuf'[k].off < sent'[outbuf'[k].id]
                     /\ outbuf'[k].order <= 0
                     /\ k > 1 => outbuf'[k].off = 0
            <4>1. k + 1 \in DOMAIN outbuf /\ outbuf'[k] = outbuf[k + 1] /\ k + 1 > 1
                BY <2>2
            <4> QED BY <4>1 DEF BufferOK
        <3>2. ASSUME NEW k \in DOMAIN outbuf', NEW l \in DOMAIN outbuf', k < l
              PROVE  outbuf'[k].id < outbuf'[l].id
            <4>1. k + 1 \in DOMAIN outbuf /\ l + 1 \in DOMAIN outbuf /\ k + 1 < l + 1
                BY <2>2, <3>2
            <4> QED BY <2>2, <4>1 DEF BufferOK
        <3> QED BY <1>1, <3>1, <3>2 DEF BufferOK
    <2> QED BY <1>4, <2>1, <2>2
<1>7. ClientOK'
    BY DEF ClientOK, HasFinal, clientVars
<1>8. Ordered'
    <2>1. AllBefore(InHands', InNet' \cup Reals(part')) /\ AllBefore(InNet', Reals(part'))
        BY <1>2 DEF Ordered, AllBefore
    <2> QED BY <1>2, <2>1 DEF Ordered, clientVars
<1>9. Slices' /\ BufferLast' /\ OutcomeOK' /\ Unbroken'
    BY <1>3, LessCarried DEF clientVars
<1> QED BY <1>5, <1>6, <1>7, <1>8, <1>9

LEMMA LoseMessagesStep ==
    ASSUME DownlinkInd, LoseMessages, faulty' = TRUE
    PROVE  DownlinkInd'
<1> USE DEF DownlinkInd
<1>1. PICK k \in 0..(Len(net) - 1) : net' = SubSeq(net, 1, k)
    BY DEF LoseMessages
<1>2. UNCHANGED <<serverVars, clientVars>>
    BY DEF LoseMessages
<1>3. /\ net' \in Seq(Seq(Chunk))
      /\ \A n \in DOMAIN net' : n \in DOMAIN net /\ net'[n] = net[n]
    <2>1. net \in Seq(Seq(Chunk)) /\ 1 \in Nat /\ k \in Nat /\ k <= Len(net)
          /\ DOMAIN net = 1..Len(net)
        BY DEF TypeOK
    <2>2. /\ SubSeq(net, 1, k) \in Seq(Seq(Chunk)) /\ DOMAIN SubSeq(net, 1, k) = 1..k
          /\ \A n \in 1..k : SubSeq(net, 1, k)[n] = net[n]
        BY <2>1, SubSeqProperties
    <2> QED BY <1>1, <2>1, <2>2
<1>4. InNet' \subseteq InNet /\ InHands' = InHands
    BY <1>2, <1>3 DEF InNet, InHands, clientVars
<1>5. Carried' \subseteq Carried
    BY <1>2, <1>4 DEF Carried, serverVars
<1>6. TypeOK' /\ BufferOK' /\ ClientOK'
    BY <1>2, <1>3 DEF TypeOK, BufferOK, ClientOK, HasFinal, serverVars, clientVars
<1>7. Ordered'
    <2>1. AllBefore(InHands', InNet' \cup Reals(part')) /\ AllBefore(InNet', Reals(part'))
        BY <1>2, <1>4 DEF Ordered, AllBefore, serverVars
    <2>2. \A n \in DOMAIN net' : InOrder(net'[n])
        BY <1>3 DEF Ordered
    <2>3. \A m, n \in DOMAIN net' : m < n => AllBefore(Reals(net'[m]), Reals(net'[n]))
        BY <1>3 DEF Ordered
    <2> QED BY <1>2, <2>1, <2>2, <2>3 DEF Ordered, serverVars, clientVars
<1>8. Slices' /\ BufferLast' /\ OutcomeOK' /\ Unbroken'
    BY <1>2, <1>5, LessCarried DEF serverVars, clientVars
<1> QED BY <1>6, <1>7, <1>8

-----------------------------------------------------------------------------
LEMMA InitInd == Init => DownlinkInd
<1> SUFFICES ASSUME Init PROVE DownlinkInd
    OBVIOUS
<1>1. /\ sent = <<>> /\ outbuf = <<>> /\ spc = "idle" /\ part = <<>> /\ budget = 0 /\ take = 0
      /\ net = <<>> /\ cpc = "idle" /\ incoming = <<>> /\ stored = <<>> /\ pending = <<>>
      /\ done = <<>> /\ got = <<>> /\ faulty = FALSE
    BY DEF Init
<1>2. TypeOK
    BY <1>1, EmptyIs DEF TypeOK
<1>3. Carried = {} /\ InHands = {} /\ InNet = {}
    BY <1>1, EmptyIs DEF Carried, InHands, InNet
<1>4. BufferOK /\ ClientOK
    BY <1>1, EmptyIs DEF BufferOK, ClientOK
<1>5. Slices /\ BufferLast
    BY <1>3 DEF Slices, BufferLast
<1>6. Ordered
    BY <1>1, <1>3, EmptyIs DEF Ordered, AllBefore
<1>7. OutcomeOK
    BY <1>1 DEF OutcomeOK
<1>8. Unbroken
    BY <1>1, <1>3 DEF Unbroken
<1> QED BY <1>2, <1>4, <1>5, <1>6, <1>7, <1>8 DEF DownlinkInd

LEMMA StepInd == DownlinkInd /\ [Next]_vars => DownlinkInd'
<1> SUFFICES ASSUME DownlinkInd, [Next]_vars PROVE DownlinkInd'
    OBVIOUS
<1>1. CASE Server /\ UNCHANGED faulty
    BY <1>1, EnqueueStep, StartMessageStep, TakeFinalStep, TakeDataStep, TakeNothingStep,
       TakeDummyStep, SendMessageStep DEF Server
<1>2. CASE Client /\ UNCHANGED faulty
    BY <1>2, ReceiveStep, HoldDataStep, CompletePayloadStep, RefuseGarbageStep,
       DecodeGarbageStep, StoreRestStep, ProcessStep, ReceiveDoneStep DEF Client
<1>3. CASE Fault /\ faulty' = TRUE
    <2>1. CASE SendFails
        BY <1>3, <2>1, GiveUpStep DEF SendFails
    <2>2. CASE DequeueFails
        BY <1>3, <2>2, GiveUpStep DEF DequeueFails
    <2>3. CASE LoseMessages
        BY <1>3, <2>3, LoseMessagesStep
    <2>4. CASE ClientStops
        BY <1>3, <2>4, StopStep DEF ClientStops
    <2> QED BY <1>3, <2>1, <2>2, <2>3, <2>4 DEF Fault
<1>4. CASE UNCHANGED vars
    <2>1. UNCHANGED <<sent, outbuf, spc, part, budget, take, net, cpc, incoming, stored,
                      pending, done, got, faulty>>
        BY <1>4 DEF vars, serverVars, clientVars
    <2>2. TypeOK' /\ BufferOK' /\ ClientOK'
        BY <2>1 DEF DownlinkInd, TypeOK, BufferOK, ClientOK, HasFinal
    <2>3. Ordered' /\ Carried' = Carried
        BY <2>1 DEF DownlinkInd, Ordered, Carried, InHands, InNet
    <2>4. Slices' /\ BufferLast' /\ OutcomeOK' /\ Unbroken'
        BY <2>1, <2>3, SameCarried
    <2> QED BY <2>2, <2>3, <2>4 DEF DownlinkInd
<1> QED BY <1>1, <1>2, <1>3, <1>4 DEF Next

LEMMA AlwaysInd == Spec => []DownlinkInd
BY InitInd, StepInd, PTL DEF Spec

LEMMA IndHeld == DownlinkInd => DownlinkInv
<1> SUFFICES ASSUME DownlinkInd PROVE HeldInOrder
    BY DEF DownlinkInd, DownlinkInv
<1> USE DEF DownlinkInd
<1>1. stored \in Seq(Chunk) /\ pending \in Seq(Chunk) /\ incoming \in Seq(Chunk)
    BY DEF TypeOK
<1>2. stored \o pending \in Seq(Chunk) /\ InOrder(stored \o pending)
      /\ Reals(stored \o pending) = Reals(stored) \cup Reals(pending)
    BY <1>1, OrderConcat, RealsConcat DEF Ordered
<1>3. AllBefore(Reals(stored \o pending), Reals(incoming))
    BY <1>2 DEF Ordered, AllBefore
<1>4. Held \in Seq(Chunk) /\ InOrder(Held)
    <2>1. PICK held : held = stored \o pending
        OBVIOUS
    <2>2. held \in Seq(Chunk) /\ InOrder(held) /\ AllBefore(Reals(held), Reals(incoming))
        BY <1>2, <1>3, <2>1
    <2>3. InOrder(incoming)
        BY DEF Ordered
    <2>4. held \o incoming \in Seq(Chunk) /\ InOrder(held \o incoming)
        BY <1>1, <2>2, <2>3, OrderConcat
    <2>5. Held = held \o incoming
        BY <1>1, <2>1 DEF Held
    <2> QED BY <2>4, <2>5
<1>5. \A i \in DOMAIN Held : IsReal(Held[i])
    <2>1. /\ \A i \in DOMAIN stored : IsReal(stored[i])
          /\ \A i \in DOMAIN pending : IsReal(pending[i])
          /\ \A i \in DOMAIN incoming : IsReal(incoming[i])
        BY DEF ClientOK, Reals
    <2>2. \A i \in DOMAIN (stored \o pending) : IsReal((stored \o pending)[i])
        BY <1>1, <2>1
    <2> QED BY <1>1, <1>2, <2>1, <2>2 DEF Held
<1> QED BY <1>4, <1>5 DEF HeldInOrder, InOrder, Before

(* Whatever the lengths of the payloads and the free space of messages,    *)
(* and whatever is lost on the way, the chunks the client holds are in the *)
(* order in which they were cut off the outgoing payload buffer.           *)
THEOREM DownlinkCorrect == Spec => []DownlinkInv
BY AlwaysInd, IndHeld, PTL

(* A payload that has lost no chunk is put together right: the order       *)
(* numbers that update_value hands out descend, also when a message with   *)
(* room for a header alone skips one, so the sort of handle_incoming_chunks *)
(* leaves the chunks as they came.                                         *)
THEOREM WholePayloads == Spec => []WholeIfNoneLost
BY AlwaysInd, IndWhole, PTL

-----------------------------------------------------------------------------
(* The refinement of DeniableChannel.                                      *)

LEMMA InitChannel == Init => Channel!Init
BY DEF Init, Channel!Init

LEMMA EnqueueIsSubmit ==
    ASSUME DownlinkInd, NEW len \in Lengths, Enqueue(len), UNCHANGED faulty
    PROVE  Channel!Next
<1>1. sent \in Seq(Lengths) /\ sent' = Append(sent, len) /\ got' = got
    BY DEF Enqueue, DownlinkInd, TypeOK, clientVars
<1>2. [i \in DOMAIN sent' |-> [len |-> sent'[i], to |-> "device"]]
        = Append([i \in DOMAIN sent |-> [len |-> sent[i], to |-> "device"]],
                 [len |-> len, to |-> "device"])
    BY <1>1
<1>3. Channel!Submit(len, "device")
    BY <1>1, <1>2 DEF Channel!Submit
<1> QED BY <1>3 DEF Channel!Next

LEMMA ProcessIsDeliver ==
    ASSUME DownlinkInd, Process, UNCHANGED faulty
    PROVE  Channel!Next \/ UNCHANGED <<sent, got, faulty>>
<1> USE DEF DownlinkInd
<1>1. PICK id : id = Head(done)
    OBVIOUS
<1>2. /\ done \in Seq(Nat) /\ got \in Seq(Nat) /\ sent \in Seq(Lengths) /\ done # <<>>
      /\ got' = (IF id = 0 THEN got ELSE Append(got, id)) /\ UNCHANGED <<sent, faulty>>
    BY <1>1 DEF Process, TypeOK, serverVars
<1>3. id = done[1] /\ 1 \in DOMAIN done /\ id \in Nat
    BY <1>1, <1>2, TailIs
<1>4. CASE id = 0
    BY <1>2, <1>4
<1>5. CASE id # 0
    <2>1. got' = Append(got, id)
        BY <1>2, <1>5
    <2>2. id \in DOMAIN sent
        BY <1>2, <1>3, <1>5 DEF OutcomeOK, Past
    <2>3. \A i \in DOMAIN got : got[i] < id
        BY <1>3, <1>5 DEF OutcomeOK
    <2> DEFINE pays == [i \in DOMAIN sent |-> [len |-> sent[i], to |-> "device"]]
               outs == [a \in {"device"} |-> got]
    <2>4. Channel!Out("device") = {got[i] : i \in DOMAIN got}
        BY DEF Channel!Out
    <2>5. Channel!IsLaterFor(id, "device")
        BY <2>2, <2>3, <2>4 DEF Channel!IsLaterFor
    <2>6. ASSUME ~faulty PROVE Channel!IsNextFor(id, "device")
        <3>1. id = Len(got) + 1 /\ \A i \in DOMAIN got : got[i] = i
            BY <1>3, <2>6 DEF Unbroken
        <3>2. Len(got) \in Nat /\ DOMAIN got = 1..Len(got)
            BY <1>2
        <3>3. {got[i] : i \in DOMAIN got} = 1..Len(got)
            BY <3>1, <3>2
        <3>4. id \notin 1..Len(got) /\ 1..(id - 1) = 1..Len(got)
            BY <3>1, <3>2
        <3> QED BY <2>2, <2>4, <3>3, <3>4 DEF Channel!IsNextFor
    <2>7. [a \in {"device"} |-> got'] = [outs EXCEPT !["device"] = Append(@, id)]
        BY <2>1
    <2>8. Channel!Deliver(id, "device")
        BY <1>2, <2>5, <2>6, <2>7 DEF Channel!Deliver
    <2>9. id \in DOMAIN pays
        BY <2>2
    <2> QED BY <2>8, <2>9 DEF Channel!Next
<1> QED BY <1>4, <1>5

LEMMA SameForChannel ==
    UNCHANGED <<sent, got, faulty>> => UNCHANGED Channel!channelVars
BY DEF Channel!channelVars

LEMMA FaultIsFail ==
    ASSUME Fault, faulty' = TRUE
    PROVE  Channel!Next
<1>1. UNCHANGED <<sent, got>>
    BY DEF Fault, SendFails, DequeueFails, LoseMessages, ClientStops, Stop, serverVars, clientVars
<1>2. Channel!Fail
    BY <1>1 DEF Channel!Fail
<1> QED BY <1>2 DEF Channel!Next

LEMMA StepChannel ==
    DownlinkInd /\ [Next]_vars => [Channel!Next]_(Channel!channelVars)
<1> SUFFICES ASSUME DownlinkInd, [Next]_vars
             PROVE  Channel!Next \/ UNCHANGED Channel!channelVars
    OBVIOUS
<1>1. CASE Server /\ UNCHANGED faulty
    <2>1. CASE \E len \in Lengths : Enqueue(len)
        BY <1>1, <2>1, EnqueueIsSubmit
    <2>2. CASE (\E b \in Budgets : StartMessage(b)) \/ TakeFinal \/ TakeData \/ TakeNothing
               \/ TakeDummy \/ SendMessage
        <3>1. UNCHANGED <<sent, got, faulty>>
            BY <1>1, <2>2 DEF StartMessage, TakeFinal, TakeData, TakeNothing, TakeDummy, SendMessage,
               Put, clientVars
        <3> QED BY <3>1, SameForChannel
    <2> QED BY <1>1, <2>1, <2>2 DEF Server
<1>2. CASE Client /\ UNCHANGED faulty
    <2>1. CASE Process
        BY <1>2, <2>1, ProcessIsDeliver, SameForChannel
    <2>2. CASE ~Process
        <3>1. UNCHANGED <<sent, got, faulty>>
            BY <1>2, <2>2 DEF Client, Receive, HoldData, CompletePayload, RefuseGarbage,
               DecodeGarbage, StoreRest, ReceiveDone, Stop, serverVars
        <3> QED BY <3>1, SameForChannel
    <2> QED BY <2>1, <2>2
<1>3. CASE Fault /\ faulty' = TRUE
    BY <1>3, FaultIsFail
<1>4. CASE UNCHANGED vars
    <2>1. UNCHANGED <<sent, got, faulty>>
        BY <1>4 DEF vars, serverVars, clientVars
    <2> QED BY <2>1, SameForChannel
<1> QED BY <1>1, <1>2, <1>3, <1>4 DEF Next

(* The downlink implements DeniableChannel: until a send or a dequeue      *)
(* fails, messages are lost or the client stops, the client processes the  *)
(* payloads of its outgoing buffer whole, each once and in order; after    *)
(* that none twice or after a later one.                                   *)
THEOREM DownlinkRefines == Spec => ImplementsChannel
<1>1. Spec => Channel!Init
    BY InitChannel DEF Spec
<1>2. Spec => [][Channel!Next]_(Channel!channelVars)
    BY AlwaysInd, StepChannel, PTL DEF Spec
<1> QED BY <1>1, <1>2 DEF ImplementsChannel, Channel!Spec

(***************************************************************************)
(* The size of a message.                                                  *)
(***************************************************************************)
(* q times the content leaves room for an empty vector of chunks, and the  *)
(* result is a usize: the subtraction of FreeSpaceInBytes does not wrap.   *)
NoWrap ==
    \A size \in Sizes :
        /\ EmptyVecSize <= TotalFreeSpace(size)
        /\ TotalFreeSpace(size) - EmptyVecSize < 2^UsizeBits

LEMMA Unwrapped ==
    ASSUME NoWrap, NEW size \in Sizes
    PROVE  /\ FreeSpaceInBytes(size) = TotalFreeSpace(size) - EmptyVecSize
           /\ TotalFreeSpace(size) \in Int
<1>1. TotalFreeSpace(size) \in Int
    BY FreeSpaceAssumption DEF TotalFreeSpace
<1>2. PICK a \in Int : a = TotalFreeSpace(size) - EmptyVecSize
    BY <1>1, FreeSpaceAssumption
<1>3. a >= 0
    BY <1>1, <1>2, FreeSpaceAssumption DEF NoWrap
<1>4. PICK m \in Int : m = 2^UsizeBits
    BY FreeSpaceAssumption
<1>5. a < m
    BY <1>2, <1>4 DEF NoWrap
<1>6. a % m = a
    BY <1>3, <1>5
<1> QED BY <1>1, <1>2, <1>4, <1>6 DEF FreeSpaceInBytes

(* The chunks dequeued and what is left make up the budget of the message. *)
SizeInd ==
    spc = "filling" => SizeOfAll(part) + take = budget /\ budget \in Budgets

(* A chunk that takes what the room loses keeps the sum. *)
LEMMA SizePut ==
    ASSUME DownlinkInd, SizeInd, NEW c \in Chunk, NEW left \in Int, Put(c, left),
           SizeOf(c) = take - left
    PROVE  SizeInd'
<1>1. /\ part' = Append(part, c) /\ take' = left /\ spc' = spc /\ budget' = budget
      /\ part \in Seq(Chunk) /\ take \in Nat /\ budget \in Nat
    BY DEF Put, DownlinkInd, TypeOK
<1>2. SizeOfAll(part') = SizeOfAll(part) + SizeOf(c)
    BY <1>1, SizeAppend
<1>3. SizeOfAll(part) \in Int
    BY <1>1, SizeType
<1>4. SizeOfAll(part') + take' = SizeOfAll(part) + take
    BY <1>1, <1>2, <1>3
<1> QED BY <1>1, <1>4 DEF SizeInd

(* The sizes of the chunks that dequeue_payload_data makes. *)
LEMMA ChunkSizes ==
    /\ \A id, lo, hi \in Nat : SizeOf(FinalChunk(id, lo, hi)) = EmptyDenimChunkSize + (hi - lo + 1)
    /\ \A id, lo, hi \in Nat, n \in Int :
          SizeOf(DataChunk(id, lo, hi, n)) = EmptyDenimChunkSize + (hi - lo + 1)
    /\ \A n \in Nat : SizeOf(DummyChunk(n)) = EmptyDenimChunkSize + n
BY HeaderAssumption DEF SizeOf, FinalChunk, DataChunk, DummyChunk

LEMMA SizeStep == DownlinkInd /\ SizeInd /\ [Next]_vars => SizeInd'
<1> SUFFICES ASSUME DownlinkInd, SizeInd, [Next]_vars PROVE SizeInd'
    OBVIOUS
<1>s. ASSUME UNCHANGED <<spc, part, budget, take>> PROVE SizeInd'
    BY <1>s DEF SizeInd
<1>n. ASSUME spc' = "idle" PROVE SizeInd'
    BY <1>n DEF SizeInd
<1>r. ASSUME Filling
      PROVE  take \in Nat /\ EmptyDenimChunkSize \in Nat /\ Room \in Nat
             /\ take = EmptyDenimChunkSize + Room
    <2>1. take \in Nat /\ EmptyDenimChunkSize \in Nat /\ take >= EmptyDenimChunkSize
        BY <1>r, HeaderAssumption DEF Filling, DownlinkInd, TypeOK
    <2> QED BY <2>1 DEF Room
<1> DEFINE h == Head(outbuf)
<1>h. ASSUME outbuf # <<>>
      PROVE  h.id \in Nat /\ h.off \in Nat /\ h.order \in Int /\ h.order <= 0
             /\ sent[h.id] \in Nat /\ h.off < sent[h.id]
    BY <1>h, FirstEntry DEF DownlinkInd, BufferOK
<1>1. CASE \E len \in Lengths : Enqueue(len)
    BY <1>1, <1>s DEF Enqueue
<1>2. CASE \E b \in Budgets : StartMessage(b)
    <2>1. PICK b \in Budgets : part' = <<>> /\ take' = b /\ budget' = b
        BY <1>2 DEF StartMessage
    <2>2. b \in Nat
        BY DownlinkAssumption
    <2> QED BY <2>1, <2>2, SizeEmpty DEF SizeInd
<1>3. CASE TakeFinal
    <2>0. PICK c : c = FinalChunk(h.id, h.off + 1, sent[h.id])
        OBVIOUS
    <2>1. Filling /\ outbuf # <<>> /\ Put(c, Room - Remaining)
        BY <1>3, <2>0 DEF TakeFinal
    <2>2. h.off + 1 \in Nat /\ Remaining = sent[h.id] - h.off /\ Remaining \in Int
        BY <1>h, <2>1 DEF Remaining
    <2>3. h.id \in Nat /\ h.off \in Nat /\ sent[h.id] \in Nat
        BY <1>h, <2>1
    <2>4. /\ c \in Chunk
          /\ SizeOf(c) = EmptyDenimChunkSize + (sent[h.id] - (h.off + 1) + 1)
        <3>1. PICK lo \in Nat, hi \in Nat : lo = h.off + 1 /\ hi = sent[h.id]
            BY <2>2, <2>3
        <3>2. c = FinalChunk(h.id, lo, hi)
            BY <2>0, <3>1
        <3>3. SizeOf(c) = EmptyDenimChunkSize + (hi - lo + 1)
            BY <2>3, <3>2, ChunkSizes
        <3>4. c \in Chunk
            BY <2>3, <3>2 DEF FinalChunk, Chunk, Flags, FinalFlag
        <3> QED BY <2>3, <3>1, <3>3, <3>4
    <2>5. SizeOf(c) = take - (Room - Remaining) /\ Room - Remaining \in Int
        <3>1. /\ h.off \in Int /\ sent[h.id] \in Int /\ take \in Int /\ Room \in Int
              /\ EmptyDenimChunkSize \in Int /\ take = EmptyDenimChunkSize + Room
            BY <1>h, <1>r, <2>1
        <3> QED BY <2>2, <2>4, <3>1
    <2> QED BY <2>1, <2>4, <2>5, SizePut
<1>4. CASE TakeData
    <2>0. PICK c : c = DataChunk(h.id, h.off + 1, h.off + Room, h.order)
        OBVIOUS
    <2>1. Filling /\ outbuf # <<>> /\ Put(c, 0)
        BY <1>4, <2>0 DEF TakeData
    <2>2. h.off + 1 \in Nat /\ h.off + Room \in Nat
        BY <1>h, <1>r, <2>1
    <2>3. c \in Chunk
        BY <1>h, <2>0, <2>1, <2>2 DEF DataChunk, Chunk, Flags, DataFlag
    <2>4. SizeOf(c) = EmptyDenimChunkSize + (h.off + Room - (h.off + 1) + 1)
        <3>1. h.id \in Nat /\ h.order \in Int /\ h.off \in Int /\ Room \in Int
            BY <1>h, <1>r, <2>1
        <3>2. PICK lo \in Nat, hi \in Nat : lo = h.off + 1 /\ hi = h.off + Room
            BY <2>2
        <3>3. c = DataChunk(h.id, lo, hi, h.order)
            BY <2>0, <3>2
        <3>4. SizeOf(c) = EmptyDenimChunkSize + (hi - lo + 1)
            BY <3>1, <3>3, ChunkSizes
        <3> QED BY <3>1, <3>2, <3>4
    <2>5. SizeOf(c) = take - 0
        <3>1. /\ h.off \in Int /\ take \in Int /\ Room \in Int
              /\ EmptyDenimChunkSize \in Int /\ take = EmptyDenimChunkSize + Room
            BY <1>h, <1>r, <2>1
        <3> QED BY <2>4, <3>1
    <2> QED BY <2>1, <2>3, <2>5, SizePut
<1>5. CASE TakeNothing \/ TakeDummy
    <2>0. PICK c : c = DummyChunk(Room)
        OBVIOUS
    <2>1. Filling /\ Put(c, 0)
        BY <1>5, <2>0 DEF TakeNothing, TakeDummy
    <2>2. c \in Chunk /\ SizeOf(c) = take - 0
        BY <1>r, <2>0, <2>1, ChunkSizes DEF DummyChunk, Chunk, Flags, DummyFlag
    <2> QED BY <2>1, <2>2, SizePut
<1>6. CASE SendMessage \/ SendFails \/ DequeueFails
    BY <1>6, <1>n DEF SendMessage, SendFails, DequeueFails, EndMessage
<1>7. CASE Client \/ LoseMessages \/ ClientStops \/ UNCHANGED vars
    BY <1>7, <1>s DEF Client, Receive, HoldData, CompletePayload, RefuseGarbage, DecodeGarbage,
       StoreRest, Process, ReceiveDone, LoseMessages, ClientStops, Stop, serverVars, vars
<1> QED BY <1>1, <1>2, <1>3, <1>4, <1>5, <1>6, <1>7 DEF Next, Server, Fault

(* For any sizes of regular content, q and header sizes, and whatever the  *)
(* outgoing payload buffer holds: at every round of dequeue_payload_data   *)
(* the chunks of a message and the room that is left make up exactly what  *)
(* its regular content allows.                                             *)
THEOREM DownlinkSizeCorrect ==
    ASSUME Budgets = MessageBudgets, NoWrap
    PROVE  Spec => []SizeIndependentOfBuffer
<1>1. Init => SizeInd
    BY DEF Init, SizeInd
<1>2. DownlinkInd /\ SizeInd => SizeIndependentOfBuffer
    <2> SUFFICES ASSUME DownlinkInd, SizeInd, spc = "filling"
                 PROVE  /\ SizeOfAll(part) + take = budget
                        /\ \E size \in Sizes :
                              EmptyVecSize + SizeOfAll(part) + take = TotalFreeSpace(size)
        BY DEF SizeIndependentOfBuffer
    <2>1. SizeOfAll(part) + take = budget /\ budget \in MessageBudgets
        BY DEF SizeInd
    <2>2. PICK size \in Sizes : budget = TotalFreeSpace(size) - EmptyVecSize
        BY <2>1, Unwrapped DEF MessageBudgets
    <2>3. /\ TotalFreeSpace(size) \in Int /\ EmptyVecSize \in Int /\ take \in Int
          /\ SizeOfAll(part) \in Int
        BY FreeSpaceAssumption, SizeType DEF TotalFreeSpace, DownlinkInd, TypeOK
    <2>4. EmptyVecSize + SizeOfAll(part) + take = TotalFreeSpace(size)
        BY <2>1, <2>2, <2>3
    <2> QED BY <2>1, <2>4
<1> QED BY <1>1, <1>2, AlwaysInd, SizeStep, PTL DEF Spec
=============================================================================
