---------------------------- MODULE UplinkProofs ----------------------------
(***************************************************************************)
(* Theorems about Uplink, for every value of its constants and under every *)
(* set of faults.                                                          *)
(***************************************************************************)
EXTENDS MCUplink, FiniteSetTheorems, SequenceTheorems, TLAPS

(***************************************************************************)
(* How runs of chunks grow and shrink: what follows a chunk depends on the *)
(* nearest chunk before it, so no induction is needed.                     *)
(***************************************************************************)
(* What tail and append do to the elements of a run. *)
LEMMA TailIndex ==
    ASSUME NEW s \in Seq(Chunk), s # <<>>
    PROVE  /\ Len(s) \in Nat \ {0} /\ Head(s) = s[1]
           /\ Tail(s) \in Seq(Chunk) /\ Len(Tail(s)) = Len(s) - 1
           /\ \A i \in 1..(Len(s) - 1) : Tail(s)[i] = s[i + 1]
  <1>1. Len(s) \in Nat \ {0} /\ Head(s) = s[1]
    BY EmptySeq
  <1>2. /\ Tail(s) \in Seq(Chunk) /\ Len(Tail(s)) = Len(s) - 1
        /\ \A i \in 1..Len(Tail(s)) : Tail(s)[i] = s[i + 1]
    BY HeadTailProperties
  <1> QED BY <1>1, <1>2

(* Moving the border between two runs by one chunk leaves the whole alone. *)
LEMMA MoveHead ==
    ASSUME NEW s \in Seq(Chunk), NEW t \in Seq(Chunk), t # <<>>
    PROVE  Append(s, Head(t)) \o Tail(t) = s \o t
  <1> DEFINE u == Append(s, Head(t)) \o Tail(t)
             v == s \o t
  <1>1. Len(t) \in Nat \ {0} /\ Len(s) \in Nat /\ Head(t) = t[1] /\ Head(t) \in Chunk
    BY TailIndex, LenProperties, HeadTailProperties
  <1>2. /\ Append(s, Head(t)) \in Seq(Chunk) /\ Len(Append(s, Head(t))) = Len(s) + 1
        /\ \A i \in 1..Len(s) : Append(s, Head(t))[i] = s[i]
        /\ Append(s, Head(t))[Len(s) + 1] = Head(t)
    BY <1>1, AppendProperties
  <1>3. /\ u \in Seq(Chunk) /\ Len(u) = Len(s) + Len(t)
        /\ \A i \in 1..(Len(s) + Len(t)) :
             u[i] = IF i <= Len(s) + 1 THEN Append(s, Head(t))[i]
                                       ELSE Tail(t)[i - (Len(s) + 1)]
    BY <1>1, <1>2, TailIndex, ConcatProperties
  <1>4. /\ v \in Seq(Chunk) /\ Len(v) = Len(s) + Len(t)
        /\ \A i \in 1..(Len(s) + Len(t)) :
             v[i] = IF i <= Len(s) THEN s[i] ELSE t[i - Len(s)]
    BY <1>1, ConcatProperties
  <1>5. ASSUME NEW i \in 1..(Len(s) + Len(t)) PROVE u[i] = v[i]
    <2>1. CASE i <= Len(s)
      BY <1>1, <1>2, <1>3, <1>4, <2>1
    <2>2. CASE i = Len(s) + 1
      BY <1>1, <1>2, <1>3, <1>4, <2>2
    <2>3. CASE i > Len(s) + 1
      <3>1. i - (Len(s) + 1) \in 1..(Len(t) - 1)
        BY <1>1, <2>3
      <3>2. u[i] = t[i - (Len(s) + 1) + 1]
        BY <1>1, <1>3, <2>3, <3>1, TailIndex
      <3> QED BY <1>1, <1>4, <2>3, <3>2
    <2> QED BY <1>1, <2>1, <2>2, <2>3
  <1> HIDE DEF u, v
  <1>6. u = v
    BY <1>3, <1>4, <1>5, SeqEqual
  <1> QED BY <1>6 DEF u, v

(***************************************************************************)
(* Runs without dummies.                                                   *)
(***************************************************************************)
LEMMA LinkedEmpty ==
    ASSUME NEW pays, NEW p
    PROVE  Linked(pays, p, <<>>) /\ End(p, <<>>) = p
  BY DEF Linked, End

LEMMA LinkedAppend ==
    ASSUME NEW pays, NEW p, NEW s \in Seq(Chunk), NEW c \in Chunk,
           Linked(pays, p, s), CutAt(pays, End(p, s), c)
    PROVE  /\ Linked(pays, p, Append(s, c))
           /\ End(p, Append(s, c)) = After(c)
  <1> DEFINE t == Append(s, c)
  <1>1. /\ Len(s) \in Nat /\ Len(t) = Len(s) + 1 /\ t \in Seq(Chunk)
        /\ \A i \in 1..Len(s) : t[i] = s[i]
        /\ t[Len(s) + 1] = c
    BY LenProperties, AppendProperties
  <1>2. t # <<>>
    BY <1>1, EmptySeq
  <1>3. s = <<>> <=> Len(s) = 0
    BY EmptySeq
  <1> HIDE DEF t
  <1>4. ASSUME NEW i \in 1..Len(t)
        PROVE  CutAt(pays, IF i = 1 THEN p ELSE After(t[i - 1]), t[i])
    <2>1. CASE i \in 1..Len(s)
      <3>1. i # 1 => i - 1 \in 1..Len(s)
        BY <1>1, <2>1
      <3> QED BY <1>1, <2>1, <3>1 DEF Linked
    <2>2. CASE i = Len(s) + 1
      <3>1. t[i] = c
        BY <1>1, <2>2
      <3>2. CASE Len(s) = 0
        BY <1>1, <1>3, <2>2, <3>1, <3>2 DEF End
      <3>3. CASE Len(s) # 0
        <4>1. i # 1 /\ i - 1 = Len(s) /\ t[i - 1] = s[Len(s)]
          BY <1>1, <2>2, <3>3
        <4> QED BY <1>3, <3>1, <3>3, <4>1 DEF End
      <3> QED BY <3>2, <3>3
    <2> QED BY <1>1, <2>1, <2>2
  <1>5. Linked(pays, p, t)
    BY <1>4 DEF Linked
  <1>6. End(p, t) = After(c)
    BY <1>1, <1>2 DEF End
  <1> QED BY <1>5, <1>6 DEF t

LEMMA LinkedTail ==
    ASSUME NEW pays, NEW p, NEW s \in Seq(Chunk), s # <<>>, Linked(pays, p, s)
    PROVE  /\ CutAt(pays, p, Head(s))
           /\ Linked(pays, After(Head(s)), Tail(s))
           /\ End(After(Head(s)), Tail(s)) = End(p, s)
  <1> DEFINE t == Tail(s)
  <1>1. /\ Len(s) \in Nat \ {0} /\ Head(s) = s[1]
        /\ t \in Seq(Chunk) /\ Len(t) = Len(s) - 1
        /\ \A i \in 1..(Len(s) - 1) : t[i] = s[i + 1]
    BY TailIndex
  <1>2. t = <<>> <=> Len(t) = 0
    BY <1>1, EmptySeq
  <1> HIDE DEF t
  <1>3. CutAt(pays, p, Head(s))
    BY <1>1 DEF Linked
  <1>4. ASSUME NEW i \in 1..Len(t)
        PROVE  CutAt(pays, IF i = 1 THEN After(Head(s)) ELSE After(t[i - 1]), t[i])
    <2>1. i + 1 \in 1..Len(s) /\ i + 1 # 1 /\ t[i] = s[i + 1] /\ (i + 1) - 1 = i
      BY <1>1
    <2>2. CutAt(pays, After(s[i]), s[i + 1])
      BY <2>1 DEF Linked
    <2>3. i # 1 => t[i - 1] = s[i]
      BY <1>1
    <2> QED BY <1>1, <2>1, <2>2, <2>3
  <1>5. Linked(pays, After(Head(s)), t)
    BY <1>4 DEF Linked
  <1>6. End(After(Head(s)), t) = End(p, s)
    <2>1. CASE Len(t) = 0
      <3>1. Len(s) = 1
        BY <1>1, <2>1
      <3>2. s[Len(s)] = Head(s) /\ t = <<>>
        BY <1>1, <1>2, <2>1, <3>1, Zenon
      <3> QED BY <3>2 DEF End
    <2>2. CASE Len(t) # 0
      <3>1. t[Len(t)] = s[Len(s)]
        BY <1>1, <2>2
      <3> QED BY <1>2, <2>2, <3>1 DEF End
    <2> QED BY <2>1, <2>2
  <1> QED BY <1>3, <1>5, <1>6 DEF t

(* Of two runs in a row, each is a run. *)
LEMMA LinkedConcat ==
    ASSUME NEW pays, NEW p, NEW s \in Seq(Chunk), NEW t \in Seq(Chunk),
           Linked(pays, p, s \o t)
    PROVE  /\ Linked(pays, p, s)
           /\ Linked(pays, End(p, s), t)
           /\ End(End(p, s), t) = End(p, s \o t)
  <1> DEFINE u == s \o t
  <1>1. /\ Len(s) \in Nat /\ Len(t) \in Nat
        /\ u \in Seq(Chunk) /\ Len(u) = Len(s) + Len(t)
        /\ \A i \in 1..(Len(s) + Len(t)) :
             u[i] = IF i <= Len(s) THEN s[i] ELSE t[i - Len(s)]
    BY LenProperties, ConcatProperties
  <1>2. (s = <<>> <=> Len(s) = 0) /\ (t = <<>> <=> Len(t) = 0) /\ (u = <<>> <=> Len(u) = 0)
    BY <1>1, EmptySeq
  <1>3. Linked(pays, p, u)
    OBVIOUS
  <1> HIDE DEF u
  <1>4. ASSUME NEW i \in 1..Len(s)
        PROVE  CutAt(pays, IF i = 1 THEN p ELSE After(s[i - 1]), s[i])
    <2>1. i \in 1..Len(u) /\ u[i] = s[i] /\ (i # 1 => u[i - 1] = s[i - 1])
      BY <1>1
    <2> QED BY <1>3, <2>1 DEF Linked
  <1>5. ASSUME NEW i \in 1..Len(t)
        PROVE  CutAt(pays, IF i = 1 THEN End(p, s) ELSE After(t[i - 1]), t[i])
    <2>0. i + Len(s) \in 1..Len(u) /\ u[i + Len(s)] = t[i]
      <3>1. i + Len(s) \in 1..(Len(s) + Len(t)) /\ ~(i + Len(s) <= Len(s))
            /\ (i + Len(s)) - Len(s) = i
        BY <1>1
      <3> QED BY <1>1, <3>1
    <2>1. CASE i # 1
      <3>1. u[i + Len(s) - 1] = t[i - 1] /\ i + Len(s) # 1
        <4>1. /\ i + Len(s) - 1 \in 1..(Len(s) + Len(t)) /\ ~(i + Len(s) - 1 <= Len(s))
              /\ (i + Len(s) - 1) - Len(s) = i - 1 /\ i + Len(s) # 1
          BY <1>1, <2>1
        <4> QED BY <1>1, <4>1
      <3> QED BY <1>3, <2>0, <2>1, <3>1 DEF Linked
    <2>2. CASE i = 1 /\ Len(s) = 0
      BY <1>2, <1>3, <2>0, <2>2 DEF Linked, End
    <2>3. CASE i = 1 /\ Len(s) # 0
      <3>1. u[i + Len(s) - 1] = s[Len(s)] /\ i + Len(s) # 1
        BY <1>1, <2>3
      <3> QED BY <1>2, <1>3, <2>0, <2>3, <3>1 DEF Linked, End
    <2> QED BY <2>1, <2>2, <2>3
  <1>6. End(End(p, s), t) = End(p, u)
    <2>1. CASE Len(t) = 0
      <3>1. Len(s) # 0 => u[Len(u)] = s[Len(s)]
        BY <1>1, <2>1
      <3> QED BY <1>1, <1>2, <2>1, <3>1 DEF End
    <2>2. CASE Len(t) # 0
      <3>1. u[Len(u)] = t[Len(t)] /\ Len(u) # 0
        BY <1>1, <2>2, SMTT(30)
      <3> QED BY <1>2, <2>2, <3>1 DEF End
    <2> QED BY <2>1, <2>2
  <1> QED BY <1>4, <1>5, <1>6 DEF Linked, u

(***************************************************************************)
(* Runs with dummies.                                                      *)
(***************************************************************************)
LEMMA ChainEmpty ==
    ASSUME NEW pays, NEW p, NEW q
    PROVE  Chain(pays, p, <<>>, q) <=> p = q
  <1>1. Len(<<>>) = 0
    BY EmptySeq
  <1> QED BY <1>1 DEF Chain, NoReal

(* Dummies only: the cursor does not move. *)
LEMMA ChainDummies ==
    ASSUME NEW pays, NEW p, NEW q, NEW s \in Seq(Chunk), \A k \in DOMAIN s : IsDummy(s[k])
    PROVE  Chain(pays, p, s, q) <=> p = q
  <1>1. Len(s) \in Nat /\ DOMAIN s = 1..Len(s)
    BY LenProperties
  <1> QED BY <1>1 DEF Chain, NoReal

LEMMA ChainAppend ==
    ASSUME NEW pays, NEW p, NEW q, NEW s \in Seq(Chunk), NEW c \in Chunk,
           Chain(pays, p, s, q)
    PROVE  /\ IsDummy(c) => Chain(pays, p, Append(s, c), q)
           /\ CutAt(pays, q, c) => Chain(pays, p, Append(s, c), After(c))
  <1> DEFINE t == Append(s, c)
  <1>1. /\ Len(s) \in Nat /\ Len(t) = Len(s) + 1
        /\ \A i \in 1..Len(s) : t[i] = s[i]
        /\ t[Len(s) + 1] = c
    BY LenProperties, AppendProperties
  <1> HIDE DEF t
  <1>2. ASSUME NEW i \in Int, NEW j \in Int, 1 <= i, j <= Len(s)
        PROVE  NoReal(t, i, j) => NoReal(s, i, j)
    BY <1>1, <1>2 DEF NoReal
  <1>3. ASSUME NEW i \in Int, 1 <= i, i <= Len(s) + 1, NoReal(t, i, Len(s) + 1)
        PROVE  IsDummy(c) /\ NoReal(s, i, Len(s))
    BY <1>1, <1>3 DEF NoReal
  <1>4. ASSUME NEW j \in 1..Len(s), ~IsDummy(t[j])
        PROVE  /\ NoReal(t, 1, j - 1) => CutAt(pays, p, t[j])
               /\ \A i \in 1..(j - 1) :
                    ~IsDummy(t[i]) /\ NoReal(t, i + 1, j - 1)
                        => CutAt(pays, After(t[i]), t[j])
    <2>1. t[j] = s[j] /\ (NoReal(t, 1, j - 1) => NoReal(s, 1, j - 1))
      BY <1>1, <1>2
    <2>2. ASSUME NEW i \in 1..(j - 1)
          PROVE  t[i] = s[i] /\ (NoReal(t, i + 1, j - 1) => NoReal(s, i + 1, j - 1))
      BY <1>1, <1>2
    <2> QED BY <1>4, <2>1, <2>2 DEF Chain
  <1>5. ASSUME IsDummy(c) PROVE Chain(pays, p, t, q)
    <2>1. NoReal(t, 1, Len(t)) => p = q
      BY <1>1, <1>3 DEF Chain
    <2>2. ASSUME NEW j \in 1..Len(t), ~IsDummy(t[j])
          PROVE  j \in 1..Len(s) /\ (NoReal(t, j + 1, Len(t)) => q = After(t[j]))
      <3>1. j \in 1..Len(s)
        BY <1>1, <1>5, <2>2
      <3>2. NoReal(t, j + 1, Len(t)) => NoReal(s, j + 1, Len(s))
        BY <1>1, <1>3, <3>1
      <3> QED BY <1>1, <2>2, <3>1, <3>2 DEF Chain
    <2> QED BY <1>4, <2>1, <2>2 DEF Chain
  <1>6. ASSUME CutAt(pays, q, c) PROVE Chain(pays, p, t, After(c))
    <2>1. ~IsDummy(c)
      BY <1>6 DEF CutAt
    <2>2. ~NoReal(t, 1, Len(t))
      BY <1>1, <1>3, <2>1
    <2>3. ASSUME NEW j \in 1..Len(s) PROVE ~NoReal(t, j + 1, Len(t))
      BY <1>1, <1>3, <2>1
    <2>4. NoReal(t, 1, Len(s)) => CutAt(pays, p, c)
      BY <1>1, <1>2, <1>6 DEF Chain
    <2>5. ASSUME NEW i \in 1..Len(s), ~IsDummy(t[i]), NoReal(t, i + 1, Len(s))
          PROVE  CutAt(pays, After(t[i]), c)
      <3>1. t[i] = s[i] /\ NoReal(s, i + 1, Len(s))
        BY <1>1, <1>2, <2>5
      <3> QED BY <1>6, <2>5, <3>1 DEF Chain
    <2>6. ASSUME NEW j \in 1..Len(t), ~IsDummy(t[j])
          PROVE  /\ NoReal(t, 1, j - 1) => CutAt(pays, p, t[j])
                 /\ NoReal(t, j + 1, Len(t)) => After(c) = After(t[j])
                 /\ \A i \in 1..(j - 1) :
                      ~IsDummy(t[i]) /\ NoReal(t, i + 1, j - 1)
                          => CutAt(pays, After(t[i]), t[j])
      <3>1. CASE j \in 1..Len(s)
        BY <1>4, <2>3, <2>6, <3>1
      <3>2. CASE j = Len(s) + 1
        <4>1. t[j] = c /\ j - 1 = Len(s)
          BY <1>1, <3>2
        <4> QED BY <2>4, <2>5, <4>1
      <3> QED BY <1>1, <3>1, <3>2
    <2> QED BY <2>2, <2>6 DEF Chain
  <1> QED BY <1>5, <1>6 DEF t

LEMMA ChainTail ==
    ASSUME NEW pays, NEW p, NEW q, NEW s \in Seq(Chunk), s # <<>>,
           Chain(pays, p, s, q)
    PROVE  IF IsDummy(Head(s))
           THEN Chain(pays, p, Tail(s), q)
           ELSE CutAt(pays, p, Head(s)) /\ Chain(pays, After(Head(s)), Tail(s), q)
  <1> DEFINE t == Tail(s)
             n == Len(t)
  <1>1. /\ Len(s) = n + 1 /\ n \in Nat /\ Head(s) = s[1]
        /\ \A i \in 1..n : t[i] = s[i + 1]
    BY TailIndex
  <1> HIDE DEF t, n
  <1>2. ASSUME NEW i \in Int, NEW j \in Int, 1 <= i, j <= n
        PROVE  NoReal(t, i, j) => NoReal(s, i + 1, j + 1)
    <2>1. ASSUME NoReal(t, i, j), NEW k \in (i + 1)..(j + 1) PROVE IsDummy(s[k])
      <3>1. k - 1 \in i..j /\ k - 1 \in 1..n /\ (k - 1) + 1 = k
        BY <1>2, <1>1
      <3>2. t[k - 1] = s[k]
        BY <1>1, <3>1
      <3> QED BY <2>1, <3>1, <3>2 DEF NoReal
    <2> QED BY <2>1 DEF NoReal
  <1>3. ASSUME IsDummy(s[1]), NEW j \in Int, NoReal(s, 2, j) PROVE NoReal(s, 1, j)
    <2>1. ASSUME NEW k \in 1..j PROVE IsDummy(s[k])
      <3>1. k = 1 \/ k \in 2..j
        OBVIOUS
      <3> QED BY <1>3, <3>1 DEF NoReal
    <2> QED BY <2>1 DEF NoReal
  <1>4. NoReal(s, 1, 0)
    BY DEF NoReal
  <1>5. ASSUME NEW j \in 1..n, ~IsDummy(t[j])
        PROVE  /\ j + 1 \in 1..Len(s) /\ t[j] = s[j + 1]
               /\ NoReal(t, j + 1, n) => q = After(t[j])
               /\ \A i \in 1..(j - 1) :
                    ~IsDummy(t[i]) /\ NoReal(t, i + 1, j - 1)
                        => CutAt(pays, After(t[i]), t[j])
    <2>1. j + 1 \in 1..Len(s) /\ t[j] = s[j + 1]
      BY <1>1
    <2>2. NoReal(t, j + 1, n) => NoReal(s, (j + 1) + 1, Len(s))
      BY <1>1, <1>2
    <2>3. NoReal(t, j + 1, n) => q = After(t[j])
      BY <1>5, <2>1, <2>2 DEF Chain
    <2>4. ASSUME NEW i \in 1..(j - 1), ~IsDummy(t[i]), NoReal(t, i + 1, j - 1)
          PROVE  CutAt(pays, After(t[i]), t[j])
      <3>1. i + 1 \in 1..((j + 1) - 1) /\ t[i] = s[i + 1] /\ ~IsDummy(s[i + 1])
        BY <1>1, <2>4
      <3>2. (j - 1) + 1 = (j + 1) - 1 /\ i + 1 \in Int /\ j - 1 \in Int
            /\ 1 <= i + 1 /\ j - 1 <= n
        BY <1>1
      <3>3. NoReal(s, (i + 1) + 1, (j + 1) - 1)
        BY <1>2, <2>4, <3>2
      <3> QED BY <1>5, <2>1, <3>1, <3>3 DEF Chain
    <2> QED BY <2>1, <2>3, <2>4
  <1>6. NoReal(t, 1, n) => NoReal(s, 2, Len(s))
    BY <1>1, <1>2
  <1>7. ASSUME IsDummy(s[1]) PROVE Chain(pays, p, t, q)
    <2>1. NoReal(t, 1, n) => p = q
      BY <1>1, <1>3, <1>6, <1>7 DEF Chain
    <2>2. ASSUME NEW j \in 1..n, ~IsDummy(t[j]), NoReal(t, 1, j - 1)
          PROVE  CutAt(pays, p, t[j])
      <3>1. j - 1 \in Int /\ 1 <= 1 /\ j - 1 <= n /\ (j - 1) + 1 = j /\ (j + 1) - 1 = j
        BY <1>1
      <3>2. NoReal(s, 2, j)
        BY <1>2, <2>2, <3>1
      <3>3. NoReal(s, 1, (j + 1) - 1)
        BY <1>3, <1>7, <3>1, <3>2
      <3> QED BY <1>5, <2>2, <3>3 DEF Chain
    <2> QED BY <1>5, <2>1, <2>2 DEF Chain, n
  <1>8. ASSUME ~IsDummy(s[1])
        PROVE  CutAt(pays, p, s[1]) /\ Chain(pays, After(s[1]), t, q)
    <2>0. 1 \in 1..Len(s) /\ 1 - 1 = 0 /\ 1 + 1 = 2
      BY <1>1
    <2>1. CutAt(pays, p, s[1])
      BY <1>4, <1>8, <2>0 DEF Chain
    <2>2. NoReal(t, 1, n) => After(s[1]) = q
      BY <1>6, <1>8, <2>0 DEF Chain
    <2>3. ASSUME NEW j \in 1..n, ~IsDummy(t[j]), NoReal(t, 1, j - 1)
          PROVE  CutAt(pays, After(s[1]), t[j])
      <3>1. j - 1 \in Int /\ 1 <= 1 /\ j - 1 <= n /\ (j - 1) + 1 = j /\ (j + 1) - 1 = j
        BY <1>1
      <3>2. NoReal(s, 1 + 1, (j + 1) - 1)
        BY <1>2, <2>3, <3>1
      <3>3. 1 \in 1..((j + 1) - 1)
        BY <3>1
      <3> QED BY <1>5, <1>8, <2>3, <3>2, <3>3 DEF Chain
    <2> QED BY <1>5, <2>1, <2>2, <2>3 DEF Chain, n
  <1> QED BY <1>1, <1>7, <1>8 DEF t

(***************************************************************************)
(* A payload that is appended to the stream leaves the runs alone.         *)
(***************************************************************************)
LEMMA LongerStream ==
    ASSUME NEW pays, NEW more, Len(pays) \in Nat, Len(more) \in Nat,
           Len(pays) <= Len(more), \A k \in 1..Len(pays) : more[k] = pays[k]
    PROVE  /\ \A p, s : Linked(pays, p, s) => Linked(more, p, s)
           /\ \A p, s, q : Chain(pays, p, s, q) => Chain(more, p, s, q)
  <1>1. ASSUME NEW p, NEW c, CutAt(pays, p, c) PROVE CutAt(more, p, c)
    <2>1. c.id \in 1..Len(more) /\ more[c.id] = pays[c.id]
      BY <1>1 DEF CutAt
    <2> QED BY <1>1, <2>1 DEF CutAt
  <1>2. ASSUME NEW p, NEW s, Linked(pays, p, s) PROVE Linked(more, p, s)
    BY <1>1, <1>2 DEF Linked
  <1>3. ASSUME NEW p, NEW s, NEW q, Chain(pays, p, s, q) PROVE Chain(more, p, s, q)
    BY <1>1, <1>3 DEF Chain
  <1> QED BY <1>2, <1>3

(***************************************************************************)
(* Sizes.                                                                  *)
(***************************************************************************)
(* Induction on the natural numbers, for a set. *)
LEMMA SetInduction ==
    ASSUME NEW S, 0 \in S, \A n \in Nat : n \in S => n + 1 \in S
    PROVE  Nat \subseteq S
<1> SUFFICES ASSUME NEW m \in Nat, m \notin S PROVE FALSE
    OBVIOUS
<1> DEFINE T == {k \in 0..m : k \in S}
           From(k) == {x \in T : k <= x}
           tops == {From(k) : k \in T}
           R == StrictSubsetOrdering(T)
<1>1. IsFiniteSet(T)
    <2>1. IsFiniteSet(0..m)
        BY FS_Interval
    <2> QED BY <2>1, FS_Subset
<1>2. IsWellFoundedOn(R, FiniteSubsetsOf(T))
    BY FS_StrictSubsetOrderingWellFounded
<1>3. tops \subseteq FiniteSubsetsOf(T)
    BY <1>1, FS_FiniteSubsetsOfFinite
<1>4. 0 \in T
    OBVIOUS
<1>5. PICK top \in tops : \A Q \in tops : <<Q, top>> \notin R
    <2>1. tops # {}
        BY <1>4
    <2> HIDE DEF tops, R
    <2> QED BY <1>2, <1>3, <2>1, WFMin
<1>6. PICK k \in T : top = From(k)
    BY <1>5
<1>7. k \in Nat /\ k # m /\ k + 1 \in T
    OBVIOUS
<1>8. From(k + 1) \subseteq From(k) /\ From(k + 1) # From(k)
    <2>1. k \in From(k) /\ k \notin From(k + 1)
        BY <1>7
    <2>2. ASSUME NEW x \in T, k + 1 <= x PROVE k <= x
        BY <1>7, <2>2
    <2> QED BY <2>1, <2>2
<1>9. <<From(k + 1), From(k)>> \in R
    BY <1>8 DEF StrictSubsetOrdering
<1> QED BY <1>5, <1>6, <1>7, <1>9

(* The sum over the chunks of a message exists, and grows by its last one. *)
SizeRule(s, f) ==
    f = [i \in 0..Len(s) |-> IF i = 0 THEN 0 ELSE f[i - 1] + SizeOf(s[i])]

LEMMA SizeSum ==
    ASSUME NEW s \in Seq(Chunk)
    PROVE  \E f : SizeRule(s, f) /\ SizeOfAll(s) = f[Len(s)]
  <1> DEFINE L == Len(s)
             Upto(f, n) == f = [i \in 0..n |-> IF i = 0 THEN 0 ELSE f[i - 1] + SizeOf(s[i])]
             S == {n \in Nat : \E f : Upto(f, n)}
  <1>0. L \in Nat
    BY LenProperties
  <1>1. 0 \in S
    <2>1. Upto([i \in 0..0 |-> 0], 0)
      OBVIOUS
    <2> QED BY <2>1
  <1>2. ASSUME NEW n \in Nat, n \in S PROVE n + 1 \in S
    <2>1. PICK f : Upto(f, n)
      BY <1>2
    <2> DEFINE g == [i \in 0..(n + 1) |-> IF i <= n THEN f[i] ELSE f[i - 1] + SizeOf(s[i])]
    <2>2. ASSUME NEW i \in 0..(n + 1)
          PROVE  g[i] = IF i = 0 THEN 0 ELSE g[i - 1] + SizeOf(s[i])
      <3>1. CASE i = 0
        BY <2>1, <3>1
      <3>2. CASE i # 0
        <4>1. i - 1 \in 0..n /\ g[i - 1] = f[i - 1]
          BY <3>2
        <4>2. CASE i <= n
          <5>1. i \in 0..n
            BY <4>2
          <5>2. f[i] = f[i - 1] + SizeOf(s[i])
            BY <2>1, <3>2, <5>1
          <5> QED BY <3>2, <4>1, <4>2, <5>2
        <4>3. CASE ~(i <= n)
          BY <3>2, <4>1, <4>3
        <4> QED BY <4>2, <4>3
      <3> QED BY <3>1, <3>2
    <2>3. Upto(g, n + 1)
      BY <2>2
    <2> HIDE DEF Upto, g
    <2> QED BY <2>3
  <1>3. \E f : Upto(f, L)
    <2> HIDE DEF Upto, L
    <2> QED BY <1>0, <1>1, <1>2, SetInduction
  <1> DEFINE h == CHOOSE f : Upto(f, L)
  <1>4. Upto(h, L)
    <2> HIDE DEF Upto
    <2> QED BY <1>3
  <1>5. SizeOfAll(s) = h[L]
    BY DEF SizeOfAll
  <1> HIDE DEF h
  <1> QED BY <1>4, <1>5 DEF SizeRule

(* Two such sums over messages that begin alike agree where both are. *)
LEMMA SizeAgrees ==
    ASSUME NEW s, NEW t, NEW f, NEW g, SizeRule(s, f), SizeRule(t, g),
           Len(s) \in Nat, Len(t) \in Nat, Len(s) <= Len(t),
           \A i \in 1..Len(s) : t[i] = s[i]
    PROVE  \A n \in 0..Len(s) : g[n] = f[n]
  <1> DEFINE G == {n \in Nat : n <= Len(s) => g[n] = f[n]}
  <1>1. ASSUME NEW n \in 0..Len(s)
        PROVE  f[n] = IF n = 0 THEN 0 ELSE f[n - 1] + SizeOf(s[n])
    BY DEF SizeRule
  <1>2. ASSUME NEW n \in 0..Len(s)
        PROVE  g[n] = IF n = 0 THEN 0 ELSE g[n - 1] + SizeOf(t[n])
    <2>1. n \in 0..Len(t)
      OBVIOUS
    <2> QED BY <2>1 DEF SizeRule
  <1>3. 0 \in G
    BY <1>1, <1>2
  <1>4. ASSUME NEW n \in Nat, n \in G PROVE n + 1 \in G
    <2>1. SUFFICES ASSUME n + 1 <= Len(s) PROVE g[n + 1] = f[n + 1]
      OBVIOUS
    <2>2. n + 1 \in 0..Len(s) /\ n + 1 # 0 /\ (n + 1) - 1 = n /\ n + 1 \in 1..Len(s)
      BY <2>1
    <2>3. f[n + 1] = f[n] + SizeOf(s[n + 1]) /\ g[n + 1] = g[n] + SizeOf(t[n + 1])
      BY <1>1, <1>2, <2>2
    <2>4. g[n] = f[n]
      BY <1>4, <2>1
    <2> QED BY <2>2, <2>3, <2>4
  <1>5. Nat \subseteq G
    <2> HIDE DEF G
    <2> QED BY <1>3, <1>4, SetInduction
  <1> QED BY <1>5

LEMMA SizeAppend ==
    ASSUME NEW s \in Seq(Chunk), NEW c \in Chunk
    PROVE  SizeOfAll(Append(s, c)) = SizeOfAll(s) + SizeOf(c)
  <1>0. PICK t : t = Append(s, c)
    OBVIOUS
  <1>1. /\ t \in Seq(Chunk) /\ Len(s) \in Nat /\ Len(t) = Len(s) + 1
        /\ \A i \in 1..Len(s) : t[i] = s[i]
        /\ t[Len(s) + 1] = c
    BY <1>0, LenProperties, AppendProperties
  <1>2. PICK f : SizeRule(s, f) /\ SizeOfAll(s) = f[Len(s)]
    BY SizeSum
  <1>3. PICK g : SizeRule(t, g) /\ SizeOfAll(t) = g[Len(t)]
    BY <1>1, SizeSum
  <1>4. Len(s) <= Len(t) /\ Len(t) \in Nat
    BY <1>1
  <1>5. \A n \in 0..Len(s) : g[n] = f[n]
    BY <1>1, <1>2, <1>3, <1>4, SizeAgrees
  <1>6. g[Len(s)] = f[Len(s)]
    BY <1>1, <1>5
  <1>7. g[Len(t)] = g[Len(s)] + SizeOf(c)
    <2>1. Len(t) \in 0..Len(t) /\ Len(t) # 0 /\ Len(t) - 1 = Len(s)
      BY <1>1
    <2> QED BY <1>1, <1>3, <2>1 DEF SizeRule
  <1> QED BY <1>0, <1>2, <1>3, <1>6, <1>7

LEMMA SizeType ==
    ASSUME NEW s \in Seq(Chunk)
    PROVE  SizeOfAll(s) \in Int
  <1>1. PICK f : SizeRule(s, f) /\ SizeOfAll(s) = f[Len(s)]
    BY SizeSum
  <1>2. Len(s) \in Nat
    BY LenProperties
  <1>3. ASSUME NEW i \in 1..Len(s) PROVE SizeOf(s[i]) \in Int
    <2>1. s[i] \in Chunk
      BY <1>3, ElementOfSeq
    <2> QED BY <2>1, HeaderAssumption DEF SizeOf, Chunk
  <1> DEFINE G == {n \in Nat : n <= Len(s) => f[n] \in Int}
  <1>4. 0 \in G
    BY <1>1, <1>2 DEF SizeRule
  <1>5. ASSUME NEW n \in Nat, n \in G PROVE n + 1 \in G
    <2>1. SUFFICES ASSUME n + 1 <= Len(s) PROVE f[n + 1] \in Int
      OBVIOUS
    <2>2. n + 1 \in 0..Len(s) /\ n + 1 # 0 /\ (n + 1) - 1 = n /\ n + 1 \in 1..Len(s)
      BY <1>2, <2>1
    <2>3. f[n + 1] = f[n] + SizeOf(s[n + 1])
      BY <1>1, <2>2 DEF SizeRule
    <2>4. f[n] \in Int
      BY <1>2, <1>5, <2>1
    <2> QED BY <1>3, <2>2, <2>3, <2>4
  <1>6. Nat \subseteq G
    <2> HIDE DEF G
    <2> QED BY <1>4, <1>5, SetInduction
  <1> QED BY <1>1, <1>2, <1>6

LEMMA SizeEmpty == SizeOfAll(<<>>) = 0
  <1>1. <<>> \in Seq(Chunk) /\ Len(<<>>) = 0
    BY EmptySeq
  <1>2. PICK f : SizeRule(<<>>, f) /\ SizeOfAll(<<>>) = f[Len(<<>>)]
    BY <1>1, SizeSum
  <1> QED BY <1>1, <1>2 DEF SizeRule

(***************************************************************************)
(* Types.                                                                  *)
(***************************************************************************)
(* What create_chunks puts in a message is a well-formed chunk. *)
LEMMA ChunkTypes ==
    /\ \A id, lo, hi \in Nat : FinalChunk(id, lo, hi) \in Chunk
    /\ \A id, lo, hi \in Nat, n \in Int : n <= 0 => DataChunk(id, lo, hi, n) \in Chunk
    /\ \A n \in Nat : DummyChunk(n) \in Chunk
  BY DEF FinalChunk, DataChunk, DummyChunk, Chunk, Flags, FinalFlag, DataFlag, DummyFlag

(* The first row of the client's table is a payload that was submitted. *)
LEMMA HeadOfBuffer ==
    ASSUME TypeOK, BufferOK, buffer # <<>>
    PROVE  /\ Head(buffer) = buffer[1]
           /\ Head(buffer) \in [id : Nat \ {0}, off : Nat, count : Int]
           /\ Len(buffer) \in Nat \ {0}
           /\ Head(buffer).id = Len(sent) - Len(buffer) + 1
           /\ Head(buffer).id \in 1..Len(sent)
           /\ sent[Head(buffer).id].len \in Nat
           /\ sent[Head(buffer).id].len > Head(buffer).off
           /\ Head(buffer).count <= 0
  <1>1. Len(buffer) \in Nat \ {0} /\ Head(buffer) = buffer[1]
    BY EmptySeq DEF TypeOK
  <1>2. Head(buffer) \in [id : Nat \ {0}, off : Nat, count : Int]
    BY HeadTailProperties DEF TypeOK
  <1>3. /\ Head(buffer).id = Len(sent) - Len(buffer) + 1
        /\ Head(buffer).off < sent[Head(buffer).id].len
        /\ Head(buffer).count <= 0
    BY <1>1 DEF BufferOK
  <1>4. Len(sent) \in Nat /\ Len(buffer) <= Len(sent)
    BY LenProperties DEF TypeOK, BufferOK
  <1>5. Head(buffer).id \in 1..Len(sent)
    BY <1>1, <1>3, <1>4
  <1>6. sent[Head(buffer).id] \in [len : Lengths, to : Accounts]
    BY <1>5, ElementOfSeq DEF TypeOK
  <1>7. sent[Head(buffer).id].len \in Nat
    BY <1>6, UplinkAssumption
  <1> QED BY <1>1, <1>2, <1>3, <1>5, <1>7

(* Every step keeps the types; that a chunk is well formed needs what      *)
(* BufferOK says about the row it is cut from.                             *)
Row == [id : Nat \ {0}, off : Nat, count : Int]
Payload == [len : Lengths, to : Accounts]

LEMMA ExpectType ==
    ASSUME NEW e \in Nat, InStep(e), sent' \in Seq(Payload), buffer' \in Seq(Row)
    PROVE  expect' \in Nat
  <1>1. CASE Aligned' /\ buffer' # <<>>
    <2>1. Head(buffer') \in Row
      BY <1>1, HeadTailProperties
    <2>2. expect' = Head(buffer').id
      BY <1>1 DEF InStep, NextUncut
    <2> QED BY <2>1, <2>2 DEF Row
  <1>2. CASE Aligned' /\ buffer' = <<>>
    <2>1. Len(sent') \in Nat
      BY LenProperties
    <2> QED BY <1>2, <2>1 DEF InStep, NextUncut
  <1>3. CASE ~Aligned'
    BY <1>3 DEF InStep
  <1> QED BY <1>1, <1>2, <1>3

LEMMA PutType ==
    ASSUME TypeOK, NEW c \in Chunk, Put(c), free >= SizeOf(c), SizeOf(c) \in Nat,
           buffer' \in Seq(Row)
    PROVE  TypeOK'
  <1>1. free' \in Nat
    <2>1. free' = free - SizeOf(c) /\ free \in Nat
      BY DEF Put, TypeOK
    <2> QED BY <2>1
  <1>2. part' \in Seq(Chunk)
    <2>1. part \in Seq(Chunk) /\ part' = Append(part, c)
      BY DEF Put, TypeOK
    <2> QED BY <2>1, AppendProperties
  <1>3. sent' \in Seq(Payload)
    BY DEF Put, TypeOK, Payload
  <1>4. expect' \in Nat
    <2>1. InStep(expect) /\ expect \in Nat
      BY DEF Put, TypeOK
    <2> QED BY <1>3, <2>1, ExpectType
  <1> QED BY <1>1, <1>2, <1>3, <1>4 DEF Put, serverVars, TypeOK, Row, Payload

LEMMA FillType ==
    ASSUME TypeOK, BufferOK, Fill
    PROVE  TypeOK'
  <1>0. /\ free \in Nat /\ EmptyDenimChunkSize \in Nat \ {0}
        /\ buffer \in Seq(Row) /\ free >= EmptyDenimChunkSize
    BY HeaderAssumption DEF TypeOK, Row, Fill, PutFinal, PutData, PutDummy, Filling
  <1>1. ChunkSize \in Nat /\ free = EmptyDenimChunkSize + ChunkSize
    BY <1>0 DEF ChunkSize
  <1>2. ASSUME buffer # <<>>
        PROVE  /\ Head(buffer).id \in Nat \ {0} /\ Head(buffer).off \in Nat
               /\ Head(buffer).count \in Int /\ Head(buffer).count <= 0
               /\ sent[Head(buffer).id].len \in Nat
               /\ sent[Head(buffer).id].len > Head(buffer).off
    BY <1>2, HeadOfBuffer
  <1>3. ASSUME PutFinal PROVE TypeOK'
    <2> DEFINE h == Head(buffer)
               c == FinalChunk(h.id, h.off + 1, sent[h.id].len)
    <2>1. buffer # <<>> /\ Remaining <= ChunkSize
      BY <1>3 DEF PutFinal, HasPayload
    <2>2. c \in Chunk
      BY <1>2, <2>1, ChunkTypes
    <2>3. SizeOf(c) = EmptyDenimChunkSize + Remaining /\ Remaining \in Nat
      BY <1>0, <1>2, <2>1 DEF SizeOf, FinalChunk, Remaining
    <2>4. free >= SizeOf(c) /\ SizeOf(c) \in Nat
      BY <1>0, <1>1, <2>1, <2>3
    <2>5. buffer' \in Seq(Row)
      BY <1>0, <1>3, <2>1, HeadTailProperties DEF PutFinal
    <2>6. Put(c)
      BY <1>3 DEF PutFinal
    <2> HIDE DEF c
    <2> QED BY <2>2, <2>4, <2>5, <2>6, PutType
  <1>4. ASSUME PutData PROVE TypeOK'
    <2> DEFINE h == Head(buffer)
               c == DataChunk(h.id, h.off + 1, h.off + ChunkSize, h.count)
               r == [id |-> h.id, off |-> h.off + ChunkSize, count |-> h.count - 1]
    <2>1. buffer # <<>>
      BY <1>4 DEF PutData, HasPayload
    <2>2. c \in Chunk
      <3>1. /\ h.id \in Nat /\ h.off \in Nat /\ h.count \in Int /\ h.count <= 0
        BY <1>2, <2>1
      <3>2. h.off + 1 \in Nat /\ h.off + ChunkSize \in Nat
        BY <1>1, <3>1
      <3> QED BY <3>1, <3>2, ChunkTypes
    <2>3. SizeOf(c) = EmptyDenimChunkSize + ChunkSize
      BY <1>0, <1>1, <1>2, <2>1 DEF SizeOf, DataChunk
    <2>4. free >= SizeOf(c) /\ SizeOf(c) \in Nat
      BY <1>0, <1>1, <2>3
    <2>5. buffer' \in Seq(Row)
      <3>1. 1 \in 1..Len(buffer) /\ buffer[1] = h
        BY <2>1, HeadOfBuffer
      <3>2. buffer' = [buffer EXCEPT ![1] = r]
        BY <1>4 DEF PutData
      <3>3. r \in Row
        BY <1>1, <1>2, <2>1 DEF Row
      <3> HIDE DEF r
      <3> QED BY <1>0, <3>1, <3>2, <3>3, ExceptSeq
    <2>6. Put(c)
      BY <1>4 DEF PutData
    <2> HIDE DEF c
    <2> QED BY <2>2, <2>4, <2>5, <2>6, PutType
  <1>5. ASSUME PutDummy PROVE TypeOK'
    <2> DEFINE c == DummyChunk(ChunkSize)
    <2>1. c \in Chunk
      BY <1>1, ChunkTypes
    <2>2. SizeOf(c) = EmptyDenimChunkSize + ChunkSize
      BY <1>0, <1>1 DEF SizeOf, DummyChunk
    <2>3. free >= SizeOf(c) /\ SizeOf(c) \in Nat
      BY <1>0, <1>1, <2>2
    <2>4. Put(c) /\ buffer' = buffer
      BY <1>5 DEF PutDummy
    <2> HIDE DEF c
    <2> QED BY <1>0, <2>1, <2>3, <2>4, PutType
  <1> QED BY <1>3, <1>4, <1>5 DEF Fill

LEMMA ClientType ==
    ASSUME TypeOK, BufferOK, Client
    PROVE  TypeOK'
  <1>0. /\ sent \in Seq(Payload) /\ buffer \in Seq(Row) /\ expect \in Nat
        /\ body \in Seq(Chunk) /\ part \in Seq(Chunk) /\ net \in Seq(Seq(Chunk))
        /\ <<>> \in Seq(Chunk)
    BY EmptySeq DEF TypeOK, Payload, Row
  <1>1. ASSUME NEW len \in Lengths, NEW a \in Accounts, Submit(len, a) PROVE TypeOK'
    <2>1. Len(sent) + 1 \in Nat \ {0}
      BY <1>0, LenProperties
    <2>2. sent' \in Seq(Payload)
      BY <1>0, <1>1, AppendProperties DEF Submit, Payload
    <2>3. [id |-> Len(sent) + 1, off |-> 0, count |-> 0] \in Row
      BY <2>1 DEF Row
    <2>4. buffer' \in Seq(Row)
      BY <1>0, <1>1, <2>3, AppendProperties DEF Submit
    <2>5. expect' \in Nat
      BY <1>0, <1>1, <2>2, <2>4, ExpectType DEF Submit
    <2> QED BY <1>1, <2>2, <2>4, <2>5 DEF Submit, serverVars, TypeOK, Row, Payload
  <1>2. ASSUME NEW b \in Budgets, StartRequest(b) PROVE TypeOK'
    <2>1. expect' \in Nat
      BY <1>0, <1>2, ExpectType DEF StartRequest
    <2>2. b \in Nat /\ 1 \in 0..MaxParts
      BY UplinkAssumption
    <2> QED BY <1>0, <1>2, <2>1, <2>2 DEF StartRequest, serverVars, TypeOK, ClientStates
  <1>3. ASSUME NEW b \in Budgets, NextPart(b) PROVE TypeOK'
    <2>1. expect' \in Nat
      BY <1>0, <1>3, ExpectType DEF NextPart
    <2>2. body' \in Seq(Chunk)
      BY <1>0, <1>3, ConcatProperties DEF NextPart
    <2>3. b \in Nat
      BY UplinkAssumption
    <2>4. parts' \in 0..MaxParts
      BY <1>3, UplinkAssumption DEF NextPart, TypeOK
    <2> QED BY <1>0, <1>3, <2>1, <2>2, <2>3, <2>4 DEF NextPart, serverVars, TypeOK
  <1>4. CASE Fill
    BY <1>4, FillType
  <1>5. CASE SendRequest
    <2>1. expect' \in Nat
      BY <1>0, <1>5, ExpectType DEF SendRequest
    <2>2. body' \in Seq(Chunk)
      BY <1>0, <1>5, ConcatProperties DEF SendRequest
    <2>3. net' \in Seq(Seq(Chunk))
      BY <1>0, <1>5, <2>2, AppendProperties DEF SendRequest
    <2> QED BY <1>0, <1>5, <2>1, <2>2, <2>3 DEF SendRequest, serverVars, TypeOK, ClientStates
  <1>6. CASE ReceiveResponse
    <2>1. expect' \in Nat
      BY <1>0, <1>6, ExpectType DEF ReceiveResponse
    <2> QED BY <1>0, <1>6, <2>1, UplinkAssumption
         DEF ReceiveResponse, ForgetRequest, serverVars, TypeOK, ClientStates
  <1> QED BY <1>1, <1>2, <1>3, <1>4, <1>5, <1>6 DEF Client

LEMMA ServerType ==
    ASSUME TypeOK, Server
    PROVE  TypeOK'
  <1>0. /\ sent \in Seq(Payload) /\ buffer \in Seq(Row) /\ expect \in Nat
        /\ request \in Seq(Chunk) /\ inbuf \in Seq(Chunk) /\ page \in Seq(Chunk)
        /\ pending \in Seq(Chunk) /\ done \in Seq(Nat) /\ net \in Seq(Seq(Chunk))
        /\ <<>> \in Seq(Chunk) /\ <<>> \in Seq(Nat)
    BY EmptySeq DEF TypeOK, Payload, Row
  <1>p. ASSUME page # <<>>
        PROVE  /\ Head(page) \in Chunk /\ Tail(page) \in Seq(Chunk)
               /\ Head(page).id \in Nat
    <2>1. Head(page) \in Chunk /\ Tail(page) \in Seq(Chunk)
      BY <1>0, <1>p, HeadTailProperties
    <2> QED BY <2>1 DEF Chunk
  <1>e. ASSUME NEW e \in Nat, InStep(e), UNCHANGED clientVars PROVE expect' \in Nat
    BY <1>0, <1>e, ExpectType DEF clientVars
  <1>1. CASE AcceptRequest
    <2>1. expect' \in Nat
      BY <1>0, <1>1, <1>e DEF AcceptRequest
    <2>2. request' \in Seq(Chunk) /\ net' \in Seq(Seq(Chunk))
      BY <1>0, <1>1, HeadTailProperties DEF AcceptRequest
    <2> QED BY <1>1, <2>1, <2>2 DEF AcceptRequest, clientVars, TypeOK, ServerStates
  <1>2. CASE EnqueueChunk
    <2>1. expect' \in Nat
      BY <1>0, <1>2, <1>e DEF EnqueueChunk
    <2>2. request # <<>> /\ Head(request) \in Chunk /\ Tail(request) \in Seq(Chunk)
      BY <1>0, <1>2, HeadTailProperties DEF EnqueueChunk
    <2>3. inbuf' \in Seq(Chunk)
      BY <1>0, <1>2, <2>2, AppendProperties DEF EnqueueChunk
    <2>4. hasFinal' \in BOOLEAN /\ request' \in Seq(Chunk)
      BY <1>2, <2>2 DEF EnqueueChunk, TypeOK
    <2> QED BY <1>2, <2>1, <2>3, <2>4 DEF EnqueueChunk, clientVars, TypeOK
  <1>3. CASE NoFinal
    <2>1. expect' \in Nat
      BY <1>0, <1>3, <1>e DEF NoFinal
    <2> QED BY <1>3, <2>1 DEF NoFinal, EndRequest, clientVars, TypeOK, ServerStates
  <1>4. CASE DequeuePage
    <2>1. expect' \in Nat
      BY <1>0, <1>4, <1>e DEF DequeuePage, LoseStepIf
    <2>2. \A m, n \in Int : 1 <= m /\ n <= Len(inbuf) => SubSeq(inbuf, m, n) \in Seq(Chunk)
      <3>1. TAKE m, n \in Int
      <3>2. HAVE 1 <= m /\ n <= Len(inbuf)
      <3>3. \A i \in m..n : inbuf[i] \in Chunk
        BY <1>0, <3>2, ElementOfSeq
      <3> QED BY <3>3, SubSeqProperties
    <2>3. Len(inbuf) \in Nat /\ PageSize \in Nat
      BY <1>0, LenProperties, UplinkAssumption
    <2>4. page' \in Seq(Chunk) /\ inbuf' \in Seq(Chunk)
      <3>1. CASE Len(inbuf) <= PageSize
        BY <1>0, <1>4, <3>1 DEF DequeuePage
      <3>2. CASE ~(Len(inbuf) <= PageSize)
        <4>1. page' = SubSeq(inbuf, 1, PageSize)
              /\ inbuf' = SubSeq(inbuf, PageSize + 1, Len(inbuf))
          BY <1>4, <3>2 DEF DequeuePage
        <4>2. 1 \in Int /\ PageSize \in Int /\ 1 <= 1 /\ PageSize <= Len(inbuf)
          BY <2>3, <3>2
        <4>3. page' \in Seq(Chunk)
          BY <2>2, <4>1, <4>2
        <4>4. PageSize + 1 \in Int /\ Len(inbuf) \in Int /\ 1 <= PageSize + 1
          BY <2>3
        <4>5. inbuf' \in Seq(Chunk)
          BY <2>2, <2>3, <4>1, <4>4
        <4> QED BY <4>3, <4>5
      <3> QED BY <3>1, <3>2
    <2> QED BY <1>4, <2>1, <2>4 DEF DequeuePage, clientVars, TypeOK, ServerStates
  <1>5. CASE HoldData
    <2>1. expect' \in Nat
      BY <1>0, <1>5, <1>e DEF HoldData
    <2>2. pending' \in Seq(Chunk) /\ page' \in Seq(Chunk)
      BY <1>0, <1>5, <1>p, AppendProperties DEF HoldData, Assembling
    <2> QED BY <1>5, <2>1, <2>2 DEF HoldData, clientVars, TypeOK
  <1>6. CASE CompletePayload
    <2>1. page # <<>>
      BY <1>6 DEF CompletePayload, Assembling
    <2>2. done' \in Seq(Nat) /\ pending' \in Seq(Chunk) /\ page' \in Seq(Chunk)
      BY <1>0, <1>6, <1>p, <2>1, AppendProperties DEF CompletePayload
    <2>3. (IF expect = 0 THEN 0 ELSE Head(page).id + 1) \in Nat
      BY <1>p, <2>1
    <2>4. expect' \in Nat
      BY <1>6, <1>e, <2>3 DEF CompletePayload
    <2> QED BY <1>6, <2>2, <2>4 DEF CompletePayload, clientVars, TypeOK
  <1>7. CASE RefuseGarbage
    <2>1. expect' \in Nat
      BY <1>0, <1>7, <1>e DEF RefuseGarbage, LoseStepIf
    <2> QED BY <1>0, <1>7, <2>1 DEF RefuseGarbage, EndRequest, clientVars, TypeOK, ServerStates
  <1>8. CASE DecodeGarbage
    <2>1. expect' \in Nat
      BY <1>0, <1>8, <1>e DEF DecodeGarbage, LoseStepIf
    <2>2. page # <<>>
      BY <1>8 DEF DecodeGarbage, Assembling
    <2>3. done' \in Seq(Nat) /\ pending' \in Seq(Chunk) /\ page' \in Seq(Chunk)
      <3>1. Append(done, 0) \in Seq(Nat)
        BY <1>0, AppendProperties
      <3> QED BY <1>0, <1>8, <1>p, <2>2, <3>1 DEF DecodeGarbage
    <2> QED BY <1>8, <2>1, <2>3 DEF DecodeGarbage, clientVars, TypeOK
  <1>9. CASE PageDone \/ FlushDone \/ Route
    <2>1. expect' \in Nat
      BY <1>0, <1>9, <1>e DEF PageDone, FlushDone, Route
    <2> QED BY <1>9, <2>1 DEF PageDone, FlushDone, Route, clientVars, TypeOK, ServerStates
  <1>10. CASE RequeueChunk
    <2>1. expect' \in Nat
      BY <1>0, <1>10, <1>e DEF RequeueChunk
    <2>2. Head(pending) \in Chunk /\ Tail(pending) \in Seq(Chunk)
      BY <1>0, <1>10, HeadTailProperties DEF RequeueChunk
    <2>3. inbuf' \in Seq(Chunk) /\ pending' \in Seq(Chunk)
      BY <1>0, <1>10, <2>2, AppendProperties DEF RequeueChunk
    <2> QED BY <1>10, <2>1, <2>3 DEF RequeueChunk, clientVars, TypeOK
  <1>11. ASSUME NEW i \in 1..Len(done), NEW a \in Accounts, CommitPayload(i, a)
         PROVE  TypeOK'
    <2>1. expect' \in Nat
      BY <1>0, <1>11, <1>e DEF CommitPayload
    <2>2. done[i] \in Nat /\ Len(done) \in Nat
      BY <1>0, ElementOfSeq, LenProperties
    <2>3. \A m, n \in Int : 1 <= m /\ n <= Len(done) => SubSeq(done, m, n) \in Seq(Nat)
      <3>1. TAKE m, n \in Int
      <3>2. HAVE 1 <= m /\ n <= Len(done)
      <3>3. \A k \in m..n : done[k] \in Nat
        BY <1>0, <3>2, ElementOfSeq
      <3> QED BY <3>3, SubSeqProperties
    <2>4. SubSeq(done, 1, i - 1) \in Seq(Nat) /\ SubSeq(done, i + 1, Len(done)) \in Seq(Nat)
      BY <2>2, <2>3
    <2>5. done' \in Seq(Nat)
      BY <1>11, <2>4, ConcatProperties DEF CommitPayload, RemoveAtIndex
    <2>6. got' \in [Accounts -> Seq(Nat)]
      <3>1. got \in [Accounts -> Seq(Nat)] /\ got[a] \in Seq(Nat)
        BY DEF TypeOK
      <3>2. Append(got[a], done[i]) \in Seq(Nat)
        BY <2>2, <3>1, AppendProperties
      <3> QED BY <1>11, <3>1, <3>2 DEF CommitPayload
    <2> QED BY <1>11, <2>1, <2>5, <2>6 DEF CommitPayload, clientVars, TypeOK
  <1>12. CASE RequestDone
    <2>1. expect' \in Nat
      BY <1>0, <1>12, <1>e DEF RequestDone
    <2> QED BY <1>12, <2>1 DEF RequestDone, EndRequest, clientVars, TypeOK, ServerStates
  <1> QED BY <1>1, <1>2, <1>3, <1>4, <1>5, <1>6, <1>7, <1>8, <1>9, <1>10, <1>11, <1>12
       DEF Server

LEMMA FaultType ==
    ASSUME TypeOK, Fault
    PROVE  TypeOK'
  <1>0. /\ sent \in Seq(Payload) /\ buffer \in Seq(Row) /\ expect \in Nat
        /\ body \in Seq(Chunk) /\ net \in Seq(Seq(Chunk))
        /\ <<>> \in Seq(Chunk) /\ <<>> \in Seq(Nat) /\ <<>> \in Seq(Seq(Chunk))
    BY EmptySeq DEF TypeOK, Payload, Row
  <1>e. ASSUME NEW e \in Nat, InStep(e), UNCHANGED <<sent, buffer>> PROVE expect' \in Nat
    BY <1>0, <1>e, ExpectType
  <1>l. ASSUME NEW b, LoseStepIf(b), UNCHANGED <<sent, buffer>> PROVE expect' \in Nat
    BY <1>0, <1>l, <1>e DEF LoseStepIf
  <1>f. 0 \in 0..MaxParts
    BY UplinkAssumption
  <1>1. CASE ClientCrash
    <2>1. expect' \in Nat
      BY <1>1, <1>l DEF ClientCrash
    <2> QED BY <1>0, <1>1, <1>f, <2>1
         DEF ClientCrash, ForgetRequest, serverVars, TypeOK, ClientStates
  <1>2. CASE ResendRequest
    <2>1. expect' \in Nat
      BY <1>2, <1>l DEF ResendRequest
    <2>2. net' \in Seq(Seq(Chunk))
      BY <1>0, <1>2, AppendProperties DEF ResendRequest
    <2> QED BY <1>2, <2>1, <2>2 DEF ResendRequest, serverVars, TypeOK
  <1>3. CASE Disconnect
    <2>1. expect' \in Nat
      BY <1>3, <1>l DEF Disconnect
    <2> QED BY <1>0, <1>3, <1>f, <2>1
         DEF Disconnect, ForgetRequest, serverVars, TypeOK, ClientStates
  <1>4. CASE RejectRequest
    <2>1. expect' \in Nat
      BY <1>4, <1>l DEF RejectRequest, clientVars
    <2>2. net' \in Seq(Seq(Chunk))
      BY <1>0, <1>4, HeadTailProperties DEF RejectRequest
    <2> QED BY <1>4, <2>1, <2>2 DEF RejectRequest, clientVars, serverVars, TypeOK
  <1>5. CASE ServerAbort
    <2>1. expect' \in Nat
      BY <1>5, <1>l DEF ServerAbort
    <2>2. /\ cpc' \in ClientStates /\ parts' \in 0..MaxParts /\ attempts' \in 0..2
          /\ body' \in Seq(Chunk) /\ part' \in Seq(Chunk) /\ budget' \in Nat /\ free' \in Nat
      <3>1. CASE cpc = "waiting"
        <4>1. ForgetRequest
          BY <1>5, <3>1 DEF ServerAbort
        <4> QED BY <1>0, <1>f, <4>1 DEF ForgetRequest, ClientStates
      <3>2. CASE cpc # "waiting"
        <4>1. UNCHANGED <<cpc, parts, body, part, budget, free, attempts>>
          BY <1>5, <3>2 DEF ServerAbort
        <4> QED BY <4>1 DEF TypeOK
      <3> QED BY <3>1, <3>2
    <2> QED BY <1>0, <1>5, <2>1, <2>2 DEF ServerAbort, DropAll, EndRequest, TypeOK, ServerStates
  <1>6. CASE Unroutable
    <2>1. expect' \in Nat
      BY <1>0, <1>6, <1>e DEF Unroutable, clientVars
    <2> QED BY <1>0, <1>6, <2>1 DEF Unroutable, EndRequest, clientVars, TypeOK, ServerStates
  <1>7. CASE HandlerError
    <2>1. expect' \in Nat
      BY <1>7, <1>l DEF HandlerError, clientVars
    <2> QED BY <1>0, <1>7, <2>1
         DEF HandlerError, DropAll, EndRequest, clientVars, TypeOK, ServerStates
  <1> QED BY <1>1, <1>2, <1>3, <1>4, <1>5, <1>6, <1>7 DEF Fault

(***************************************************************************)
(* The client's buffer.                                                    *)
(***************************************************************************)
LEMMA BufferStep ==
    ASSUME TypeOK, BufferOK, Next
    PROVE  BufferOK'
  <1>0. /\ sent \in Seq(Payload) /\ buffer \in Seq(Row)
        /\ Len(sent) \in Nat /\ Len(buffer) \in Nat /\ Len(buffer) <= Len(sent)
    BY LenProperties DEF TypeOK, BufferOK, Payload, Row
  <1>1. CASE UNCHANGED <<sent, buffer>>
    BY <1>1 DEF BufferOK
  <1>2. ASSUME NEW len \in Lengths, NEW a \in Accounts, Submit(len, a) PROVE BufferOK'
    <2> DEFINE p == [len |-> len, to |-> a]
               r == [id |-> Len(sent) + 1, off |-> 0, count |-> 0]
    <2>1. p \in Payload /\ r \in Row
      BY <1>0 DEF Payload, Row
    <2>2. sent' = Append(sent, p) /\ buffer' = Append(buffer, r)
      BY <1>2 DEF Submit
    <2>3. /\ Len(sent') = Len(sent) + 1
          /\ sent'[Len(sent) + 1] = p
          /\ \A k \in 1..Len(sent) : sent'[k] = sent[k]
      BY <1>0, <2>1, <2>2, AppendProperties
    <2>4. /\ Len(buffer') = Len(buffer) + 1
          /\ buffer'[Len(buffer) + 1] = r
          /\ \A k \in 1..Len(buffer) : buffer'[k] = buffer[k]
      BY <1>0, <2>1, <2>2, AppendProperties
    <2>5. ASSUME NEW i \in 1..Len(buffer')
          PROVE  /\ buffer'[i].id = Len(sent') - Len(buffer') + i
                 /\ buffer'[i].off < sent'[buffer'[i].id].len
                 /\ buffer'[i].count <= 0
                 /\ buffer'[i].off = 0 => buffer'[i].count = 0
                 /\ i > 1 => buffer'[i].off = 0
      <3>1. CASE i = Len(buffer) + 1
        <4>1. buffer'[i] = r
          BY <2>4, <3>1
        <4>2. 0 < len
          BY UplinkAssumption
        <4> QED BY <1>0, <2>3, <2>4, <3>1, <4>1, <4>2
      <3>2. CASE i \in 1..Len(buffer)
        <4>1. buffer'[i] = buffer[i]
          BY <2>4, <3>2
        <4>2. buffer[i].id \in 1..Len(sent)
          BY <1>0, <3>2 DEF BufferOK
        <4>3. sent'[buffer[i].id] = sent[buffer[i].id]
          BY <2>3, <4>2
        <4> QED BY <1>0, <2>3, <2>4, <3>2, <4>1, <4>3 DEF BufferOK
      <3> QED BY <1>0, <2>4, <3>1, <3>2
    <2> QED BY <1>0, <2>3, <2>4, <2>5 DEF BufferOK
  <1>3. CASE PutFinal
    <2>1. buffer # <<>> /\ buffer' = Tail(buffer) /\ sent' = sent
      BY <1>3 DEF PutFinal, HasPayload, Put
    <2>2. /\ Len(buffer') = Len(buffer) - 1
          /\ \A i \in 1..Len(buffer') : buffer'[i] = buffer[i + 1]
      BY <1>0, <2>1, HeadTailProperties
    <2>3. ASSUME NEW i \in 1..Len(buffer')
          PROVE  /\ buffer'[i].id = Len(sent') - Len(buffer') + i
                 /\ buffer'[i].off < sent'[buffer'[i].id].len
                 /\ buffer'[i].count <= 0
                 /\ buffer'[i].off = 0 => buffer'[i].count = 0
                 /\ i > 1 => buffer'[i].off = 0
      <3>1. i + 1 \in 1..Len(buffer) /\ buffer'[i] = buffer[i + 1]
        BY <1>0, <2>2
      <3> QED BY <1>0, <2>1, <2>2, <3>1 DEF BufferOK
    <2> QED BY <1>0, <2>1, <2>2, <2>3 DEF BufferOK
  <1>4. CASE PutData
    <2> DEFINE h == Head(buffer)
               r == [id |-> h.id, off |-> h.off + ChunkSize, count |-> h.count - 1]
    <2>1. /\ buffer # <<>> /\ sent' = sent /\ buffer' = [buffer EXCEPT ![1] = r]
          /\ Remaining > ChunkSize /\ ChunkSize # 0 /\ free >= EmptyDenimChunkSize
      BY <1>4 DEF PutData, HasPayload, Put, Filling
    <2>2. ChunkSize \in Nat \ {0}
      BY <2>1, HeaderAssumption DEF ChunkSize, TypeOK
    <2>3. /\ h = buffer[1] /\ h.id = Len(sent) - Len(buffer) + 1
          /\ h.off \in Nat /\ h.count \in Int /\ h.count <= 0
          /\ sent[h.id].len \in Nat
          /\ 1 \in 1..Len(buffer)
      BY <2>1, HeadOfBuffer
    <2>4. r \in Row
      BY <2>1, <2>2, <2>3, HeadOfBuffer DEF Row
    <2>5. /\ Len(buffer') = Len(buffer)
          /\ \A i \in 1..Len(buffer) : buffer'[i] = IF i = 1 THEN r ELSE buffer[i]
      BY <1>0, <2>1, <2>3, <2>4, ExceptSeq
    <2>6. r.off < sent[h.id].len
      BY <2>1, <2>2, <2>3 DEF Remaining
    <2>7. ASSUME NEW i \in 1..Len(buffer')
          PROVE  /\ buffer'[i].id = Len(sent') - Len(buffer') + i
                 /\ buffer'[i].off < sent'[buffer'[i].id].len
                 /\ buffer'[i].count <= 0
                 /\ buffer'[i].off = 0 => buffer'[i].count = 0
                 /\ i > 1 => buffer'[i].off = 0
      <3>1. CASE i = 1
        <4>1. buffer'[i] = r
          BY <2>3, <2>5, <3>1
        <4> QED BY <1>0, <2>1, <2>2, <2>3, <2>5, <2>6, <3>1, <4>1
      <3>2. CASE i # 1
        <4>1. buffer'[i] = buffer[i]
          BY <2>5, <3>2
        <4> QED BY <2>1, <2>5, <4>1 DEF BufferOK
      <3> QED BY <3>1, <3>2
    <2> QED BY <1>0, <2>1, <2>5, <2>7 DEF BufferOK
  <1>5. CASE Client
    BY <1>1, <1>2, <1>3, <1>4, <1>5
       DEF Client, Fill, StartRequest, NextPart, SendRequest, ReceiveResponse, PutDummy, Put
  <1>6. CASE Server
    BY <1>1, <1>6
       DEF Server, AcceptRequest, EnqueueChunk, NoFinal, DequeuePage, HoldData,
           CompletePayload, RefuseGarbage, DecodeGarbage, PageDone, RequeueChunk,
           FlushDone, Route, CommitPayload, RequestDone, clientVars
  <1>7. CASE Fault
    BY <1>1, <1>7
       DEF Fault, ClientCrash, ResendRequest, Disconnect, RejectRequest, HandlerError, ServerAbort,
           Unroutable, clientVars
  <1> QED BY <1>5, <1>6, <1>7 DEF Next

(***************************************************************************)
(* What each phase leaves empty.                                           *)
(***************************************************************************)
LEMMA RealSequences ==
    ASSUME NEW s \in Seq(Chunk), AllReal(s)
    PROVE  /\ s # <<>> => ~IsDummy(Head(s)) /\ AllReal(Tail(s))
           /\ \A c \in Chunk : ~IsDummy(c) => AllReal(Append(s, c))
           /\ \A m, n \in Int : 1 <= m /\ n <= Len(s) => AllReal(SubSeq(s, m, n))
  <1>0. Len(s) \in Nat
    BY LenProperties
  <1>1. ASSUME s # <<>> PROVE ~IsDummy(Head(s)) /\ AllReal(Tail(s))
    <2>1. Len(s) \in Nat \ {0} /\ Head(s) = s[1]
      BY <1>1, EmptySeq
    <2>2. Len(Tail(s)) = Len(s) - 1 /\ \A i \in 1..Len(Tail(s)) : Tail(s)[i] = s[i + 1]
      BY <1>1, HeadTailProperties
    <2> QED BY <2>1, <2>2 DEF AllReal
  <1>2. ASSUME NEW c \in Chunk, ~IsDummy(c) PROVE AllReal(Append(s, c))
    BY <1>0, <1>2, AppendProperties DEF AllReal
  <1>3. ASSUME NEW m \in Int, NEW n \in Int, 1 <= m, n <= Len(s)
        PROVE  AllReal(SubSeq(s, m, n))
    <2>1. \A i \in m..n : s[i] \in Chunk
      BY <1>0, <1>3, ElementOfSeq
    <2>2. /\ Len(SubSeq(s, m, n)) = IF m <= n THEN n - m + 1 ELSE 0
          /\ \A i \in 1..(n - m + 1) : SubSeq(s, m, n)[i] = s[m + i - 1]
      BY <2>1, SubSeqProperties
    <2>3. ASSUME NEW i \in 1..Len(SubSeq(s, m, n)) PROVE ~IsDummy(SubSeq(s, m, n)[i])
      <3>1. i \in 1..(n - m + 1) /\ m + i - 1 \in 1..Len(s)
        BY <1>0, <1>3, <2>2
      <3>2. SubSeq(s, m, n)[i] = s[m + i - 1]
        BY <2>2, <3>1
      <3> QED BY <3>1, <3>2 DEF AllReal
    <2> QED BY <2>3 DEF AllReal
  <1> QED BY <1>1, <1>2, <1>3

LEMMA DataSequences ==
    ASSUME NEW s \in Seq(Chunk), AllData(s)
    PROVE  /\ s # <<>> => ~IsDummy(Head(s)) /\ AllData(Tail(s))
           /\ \A c \in Chunk : ~IsDummy(c) /\ ~IsFinal(c) => AllData(Append(s, c))
  <1>0. Len(s) \in Nat
    BY LenProperties
  <1>1. ASSUME s # <<>> PROVE ~IsDummy(Head(s)) /\ AllData(Tail(s))
    <2>1. Len(s) \in Nat \ {0} /\ Head(s) = s[1]
      BY <1>1, EmptySeq
    <2>2. Len(Tail(s)) = Len(s) - 1 /\ \A i \in 1..Len(Tail(s)) : Tail(s)[i] = s[i + 1]
      BY <1>1, HeadTailProperties
    <2> QED BY <2>1, <2>2 DEF AllData
  <1>2. ASSUME NEW c \in Chunk, ~IsDummy(c), ~IsFinal(c) PROVE AllData(Append(s, c))
    BY <1>0, <1>2, AppendProperties DEF AllData
  <1> QED BY <1>1, <1>2

LEMMA EmptyRealData == AllReal(<<>>) /\ AllData(<<>>)
  BY DEF AllReal, AllData

LEMMA PhaseStep ==
    ASSUME TypeOK, PhaseOK, Next
    PROVE  PhaseOK'
  <1>0. /\ request \in Seq(Chunk) /\ inbuf \in Seq(Chunk) /\ page \in Seq(Chunk)
        /\ pending \in Seq(Chunk)
        /\ AllReal(inbuf) /\ AllReal(page) /\ AllData(pending)
    BY DEF TypeOK, PhaseOK
  <1>c. CASE Client
    <2>1. CASE Fill
      BY <2>1 DEF Fill, PutFinal, PutData, PutDummy, Filling, Put, serverVars, PhaseOK
    <2>2. CASE SendRequest \/ ReceiveResponse
      BY <2>2 DEF SendRequest, ReceiveResponse, PartFull, ForgetRequest, serverVars, PhaseOK
    <2>3. ASSUME NEW len \in Lengths, NEW a \in Accounts, Submit(len, a) PROVE PhaseOK'
      BY <2>3 DEF Submit, serverVars, PhaseOK
    <2>4. ASSUME NEW b \in Budgets, StartRequest(b) \/ NextPart(b) PROVE PhaseOK'
      BY <2>4 DEF StartRequest, NextPart, PartFull, serverVars, PhaseOK
    <2> QED BY <1>c, <2>1, <2>2, <2>3, <2>4 DEF Client
  <1>f. CASE Fault
    <2>1. CASE ClientCrash \/ Disconnect
      BY <2>1 DEF ClientCrash, Disconnect, ForgetRequest, serverVars, PhaseOK
    <2>2. CASE ResendRequest \/ RejectRequest
      BY <2>2 DEF ResendRequest, RejectRequest, clientVars, serverVars, PhaseOK
    <2>3. CASE ServerAbort
      <3>1. cpc # "filling" /\ part = <<>>
        BY <2>3 DEF ServerAbort, PhaseOK
      <3>2. cpc' # "filling" /\ part' = <<>>
        BY <2>3, <3>1 DEF ServerAbort, ForgetRequest
      <3> QED BY <2>3, <3>2, EmptyRealData DEF ServerAbort, DropAll, EndRequest, PhaseOK
    <2>4. CASE Unroutable
      BY <2>4 DEF Unroutable, EndRequest, clientVars, PhaseOK
    <2>5. CASE HandlerError
      <3>1. cpc # "filling" /\ part = <<>>
        BY <2>5 DEF HandlerError, PhaseOK
      <3> QED BY <2>5, <3>1, EmptyRealData
           DEF HandlerError, DropAll, EndRequest, clientVars, PhaseOK
    <2> QED BY <1>f, <2>1, <2>2, <2>3, <2>4, <2>5 DEF Fault
  <1>1. CASE AcceptRequest
    <2>1. net # <<>> /\ cpc' = cpc /\ part' = part /\ spc' = "enqueue"
      BY <1>1 DEF AcceptRequest, clientVars
    <2>2. cpc # "filling" /\ part = <<>>
      BY <2>1 DEF PhaseOK
    <2> QED BY <1>1, <2>1, <2>2 DEF AcceptRequest, PhaseOK
  <1>2. CASE EnqueueChunk
    <2>1. AllReal(inbuf')
      <3>1. Head(request) \in Chunk
        BY <1>0, <1>2, HeadTailProperties DEF EnqueueChunk
      <3> QED BY <1>0, <1>2, <3>1, RealSequences DEF EnqueueChunk
    <2> QED BY <1>2, <2>1 DEF EnqueueChunk, clientVars, PhaseOK
  <1>3. CASE NoFinal \/ RequestDone
    BY <1>3 DEF NoFinal, RequestDone, EndRequest, clientVars, PhaseOK
  <1>4. CASE DequeuePage
    <2>1. AllReal(inbuf') /\ AllReal(page')
      <3>1. CASE Len(inbuf) <= PageSize
        BY <1>0, <1>4, <3>1, EmptyRealData DEF DequeuePage
      <3>2. CASE ~(Len(inbuf) <= PageSize)
        <4>1. page' = SubSeq(inbuf, 1, PageSize)
              /\ inbuf' = SubSeq(inbuf, PageSize + 1, Len(inbuf))
          BY <1>4, <3>2 DEF DequeuePage
        <4>2. Len(inbuf) \in Nat /\ PageSize \in Nat
          BY <1>0, LenProperties, UplinkAssumption
        <4>3. /\ 1 \in Int /\ PageSize \in Int /\ 1 <= 1 /\ PageSize <= Len(inbuf)
              /\ PageSize + 1 \in Int /\ Len(inbuf) \in Int
              /\ 1 <= PageSize + 1 /\ Len(inbuf) <= Len(inbuf)
          BY <3>2, <4>2
        <4>4. AllReal(SubSeq(inbuf, 1, PageSize))
          BY <1>0, <4>3, RealSequences
        <4>5. AllReal(SubSeq(inbuf, PageSize + 1, Len(inbuf)))
          BY <1>0, <4>3, RealSequences
        <4> QED BY <4>1, <4>4, <4>5
      <3> QED BY <3>1, <3>2
    <2> QED BY <1>4, <2>1 DEF DequeuePage, clientVars, PhaseOK
  <1>5. CASE HoldData
    <2>1. page # <<>> /\ ~IsFinal(Head(page))
      BY <1>5 DEF HoldData, Assembling
    <2>2. Head(page) \in Chunk /\ ~IsDummy(Head(page)) /\ AllReal(Tail(page))
      BY <1>0, <2>1, HeadTailProperties, RealSequences
    <2>3. AllData(pending') /\ AllReal(page')
      BY <1>0, <1>5, <2>1, <2>2, DataSequences DEF HoldData
    <2> QED BY <1>5, <2>3 DEF HoldData, Assembling, clientVars, PhaseOK
  <1>6. CASE CompletePayload \/ DecodeGarbage
    <2>1. page # <<>>
      BY <1>6 DEF CompletePayload, DecodeGarbage, Assembling
    <2>2. AllReal(page')
      BY <1>0, <1>6, <2>1, RealSequences DEF CompletePayload, DecodeGarbage
    <2> QED BY <1>6, <2>2, EmptyRealData
         DEF CompletePayload, DecodeGarbage, Assembling, clientVars, PhaseOK
  <1>7. CASE RefuseGarbage
    <2>1. spc = "assemble" /\ spc' = "idle"
      BY <1>7 DEF RefuseGarbage, EndRequest, Assembling
    <2>2. cpc # "filling" /\ request = <<>> /\ part = <<>>
      BY <2>1 DEF PhaseOK
    <2> QED BY <1>7, <2>1, <2>2, EmptyRealData DEF RefuseGarbage, clientVars, PhaseOK
  <1>8. CASE PageDone \/ FlushDone \/ Route
    BY <1>8 DEF PageDone, FlushDone, Route, clientVars, PhaseOK
  <1>9. CASE RequeueChunk
    <2>1. pending # <<>>
      BY <1>9 DEF RequeueChunk
    <2>2. Head(pending) \in Chunk /\ ~IsDummy(Head(pending)) /\ AllData(Tail(pending))
      BY <1>0, <2>1, HeadTailProperties, DataSequences
    <2>3. AllReal(inbuf') /\ AllData(pending')
      BY <1>0, <1>9, <2>2, RealSequences DEF RequeueChunk
    <2> QED BY <1>9, <2>3 DEF RequeueChunk, clientVars, PhaseOK
  <1>10. ASSUME NEW i \in 1..Len(done), NEW a \in Accounts, CommitPayload(i, a)
         PROVE  PhaseOK'
    BY <1>10 DEF CommitPayload, clientVars, PhaseOK
  <1> QED BY <1>c, <1>f, <1>1, <1>2, <1>3, <1>4, <1>5, <1>6, <1>7, <1>8, <1>9, <1>10
       DEF Next, Server

(***************************************************************************)
(* The part of the invariant that holds whether in step or not.            *)
(***************************************************************************)
Base == TypeOK /\ BufferOK /\ PhaseOK

LEMMA InitBase == Init => Base
  <1> SUFFICES ASSUME Init PROVE Base
    OBVIOUS
  <1>1. <<>> \in Seq(Chunk) /\ <<>> \in Seq(Nat) /\ <<>> \in Seq(Seq(Chunk))
        /\ <<>> \in Seq([len : Lengths, to : Accounts])
        /\ <<>> \in Seq([id : Nat \ {0}, off : Nat, count : Int])
        /\ Len(<<>>) = 0
    BY EmptySeq
  <1>2. TypeOK
    <2>1. parts \in 0..MaxParts
      BY UplinkAssumption DEF Init
    <2>2. got \in [Accounts -> Seq(Nat)]
      BY <1>1 DEF Init
    <2>3. cpc \in ClientStates /\ spc \in ServerStates /\ hasFinal \in BOOLEAN
      BY DEF Init, ClientStates, ServerStates
    <2>4. /\ budget \in Nat /\ free \in Nat /\ attempts \in 0..2 /\ expect \in Nat
          /\ sent = <<>> /\ buffer = <<>> /\ body = <<>> /\ part = <<>> /\ net = <<>>
          /\ request = <<>> /\ inbuf = <<>> /\ page = <<>> /\ pending = <<>>
          /\ done = <<>>
      BY DEF Init
    <2> QED BY <1>1, <2>1, <2>2, <2>3, <2>4, Zenon DEF TypeOK
  <1>3. BufferOK
    BY <1>1 DEF Init, BufferOK
  <1>4. PhaseOK
    BY EmptyRealData DEF Init, PhaseOK
  <1> QED BY <1>2, <1>3, <1>4 DEF Base

LEMMA StepBase == Base /\ [Next]_vars => Base'
  <1> SUFFICES ASSUME Base, [Next]_vars PROVE Base'
    OBVIOUS
  <1>1. CASE Next
    <2>1. TypeOK'
      BY <1>1, ClientType, ServerType, FaultType DEF Base, Next
    <2>2. BufferOK'
      BY <1>1, BufferStep DEF Base
    <2>3. PhaseOK'
      BY <1>1, PhaseStep DEF Base
    <2> QED BY <2>1, <2>2, <2>3 DEF Base
  <1>2. CASE UNCHANGED vars
    <2>1. TypeOK'
      BY <1>2 DEF Base, TypeOK, vars, clientVars, serverVars
    <2>2. BufferOK'
      BY <1>2 DEF Base, BufferOK, vars, clientVars, serverVars
    <2>3. PhaseOK'
      BY <1>2 DEF Base, PhaseOK, vars, clientVars, serverVars
    <2> QED BY <2>1, <2>2, <2>3 DEF Base
  <1> QED BY <1>1, <1>2

LEMMA AlwaysBase == Spec => []Base
  BY InitBase, StepBase, PTL DEF Spec

(* Type correctness under every fault: free never drops below zero (usize  *)
(* arithmetic of create_chunks), flags stay in the range ChunkType has,    *)
(* and attempts never exceeds the two of send_message.                     *)
THEOREM TypeCorrect == Spec => []TypeOK
  <1>1. Base => TypeOK
    BY DEF Base
  <1> QED BY AlwaysBase, <1>1, PTL

(***************************************************************************)
(* The pipe.                                                               *)
(***************************************************************************)
LEMMA ThreeRuns ==
    ASSUME NEW b \in Seq(Chunk), NEW w \in Seq(Chunk), NEW g \in Seq(Chunk)
    PROVE  /\ g = <<>> => b \o (w \o g) = b \o w
           /\ g = <<>> /\ w = <<>> => b \o (w \o g) = b
           /\ b = <<>> => b \o (w \o g) = w \o g
  <1>1. \A s \in Seq(Chunk) : s \o <<>> = s /\ <<>> \o s = s
    BY ConcatEmptySeq
  <1>2. w \o g \in Seq(Chunk)
    BY ConcatProperties
  <1>3. ASSUME g = <<>> PROVE b \o (w \o g) = b \o w
    BY <1>1, <1>3, Zenon
  <1>4. ASSUME g = <<>>, w = <<>> PROVE b \o (w \o g) = b
    BY <1>1, <1>3, <1>4, Zenon
  <1>5. ASSUME b = <<>> PROVE b \o (w \o g) = w \o g
    BY <1>1, <1>2, <1>5, Zenon
  <1> QED BY <1>3, <1>4, <1>5

(* What Held and Flow are in each phase. *)
LEMMA HeldAndFlow ==
    ASSUME Base
    PROVE  /\ inbuf \in Seq(Chunk) /\ pending \in Seq(Chunk) /\ page \in Seq(Chunk)
           /\ request \in Seq(Chunk) /\ Held \in Seq(Chunk) /\ Flow \in Seq(Chunk)
           /\ page = <<>> => Held = inbuf \o pending
           /\ page = <<>> /\ pending = <<>> => Held = inbuf
           /\ inbuf = <<>> => Held = pending \o page
           /\ cpc # "filling" /\ spc # "idle" => Flow = request
           /\ cpc # "filling" /\ spc = "idle" /\ net = <<>> => Flow = <<>>
           /\ cpc # "filling" /\ spc = "idle" /\ net # <<>> => Flow = net[1]
           /\ cpc = "filling" => Flow = body \o part
  <1>1. /\ inbuf \in Seq(Chunk) /\ pending \in Seq(Chunk) /\ page \in Seq(Chunk)
        /\ request \in Seq(Chunk) /\ body \in Seq(Chunk) /\ part \in Seq(Chunk)
        /\ net \in Seq(Seq(Chunk)) /\ <<>> \in Seq(Chunk)
    BY EmptySeq DEF Base, TypeOK
  <1>2. Held \in Seq(Chunk)
    <2>1. pending \o page \in Seq(Chunk)
      BY <1>1, ConcatProperties
    <2> QED BY <1>1, <2>1, ConcatProperties DEF Held
  <1>3. Flow \in Seq(Chunk)
    <2>1. net # <<>> => net[1] \in Seq(Chunk)
      BY <1>1, EmptySeq, ElementOfSeq
    <2>2. body \o part \in Seq(Chunk)
      BY <1>1, ConcatProperties
    <2> QED BY <1>1, <2>1, <2>2 DEF Flow
  <1>4. /\ page = <<>> => Held = inbuf \o pending
        /\ page = <<>> /\ pending = <<>> => Held = inbuf
        /\ inbuf = <<>> => Held = pending \o page
    <2>1. inbuf \in Seq(Chunk) /\ pending \in Seq(Chunk) /\ page \in Seq(Chunk)
      BY <1>1
    <2> QED BY <2>1, ThreeRuns, ZenonT(40) DEF Held
  <1> QED BY <1>1, <1>2, <1>3, <1>4 DEF Flow

(* The same after a step. *)
LEMMA HeldAndFlowNext ==
    ASSUME Base'
    PROVE  /\ page' = <<>> => Held' = inbuf' \o pending'
           /\ page' = <<>> /\ pending' = <<>> => Held' = inbuf'
           /\ inbuf' = <<>> => Held' = pending' \o page'
           /\ cpc' # "filling" /\ spc' # "idle" => Flow' = request'
           /\ cpc' # "filling" /\ spc' = "idle" /\ net' = <<>> => Flow' = <<>>
           /\ cpc' # "filling" /\ spc' = "idle" /\ net' # <<>> => Flow' = net'[1]
           /\ cpc' = "filling" => Flow' = body' \o part'
  <1>1. inbuf' \in Seq(Chunk) /\ pending' \in Seq(Chunk) /\ page' \in Seq(Chunk)
    BY DEF Base, TypeOK
  <1>2. /\ page' = <<>> => Held' = inbuf' \o pending'
        /\ page' = <<>> /\ pending' = <<>> => Held' = inbuf'
        /\ inbuf' = <<>> => Held' = pending' \o page'
    BY <1>1, ThreeRuns, ZenonT(40) DEF Held
  <1> QED BY <1>2 DEF Flow

(* From the aligned state on the pipe is in step, whatever happened before. *)
LEMMA AlignedPipe ==
    ASSUME Base', Aligned', NEW e, e = NextUncut'
    PROVE  PipeFrom(e)'
  <1>1. /\ cpc' = "idle" /\ net' = <<>> /\ spc' = "idle" /\ inbuf' = <<>>
        /\ page' = <<>> /\ pending' = <<>>
    BY DEF Aligned, Base, PhaseOK
  <1>2. Held' = <<>> /\ Flow' = <<>>
    BY <1>1, HeldAndFlowNext
  <1>3. BufferCursor' = Start(e)
    <2>1. CASE buffer' = <<>>
      BY <2>1 DEF NextUncut, BufferCursor
    <2>2. CASE buffer' # <<>>
      <3>1. Len(buffer') \in Nat \ {0} /\ Head(buffer') = buffer'[1]
        BY <2>2, EmptySeq DEF Base, TypeOK
      <3>2. Head(buffer').off = 0
        BY <2>2 DEF Aligned
      <3>3. Head(buffer').count = 0
        BY <3>1, <3>2 DEF Base, BufferOK
      <3> QED BY <2>2, <3>2, <3>3 DEF NextUncut, BufferCursor, Start
    <2> QED BY <2>1, <2>2
  <1>4. Linked(sent', Start(e), Held') /\ End(Start(e), Held') = Start(e)
    BY <1>2, LinkedEmpty
  <1>5. Chain(sent', Start(e), Flow', BufferCursor')
    BY <1>2, <1>3, ChainEmpty
  <1>6. Len(net') = 0
    BY <1>1, EmptySeq
  <1> QED BY <1>1, <1>4, <1>5, <1>6 DEF PipeFrom

LEMMA PipeInStep ==
    ASSUME Base', NEW e, InStep(e), e # 0 => PipeFrom(e)'
    PROVE  Pipe'
  <1>1. CASE Aligned'
    <2>1. PICK f : f = NextUncut'
      OBVIOUS
    <2>2. PipeFrom(f)' /\ expect' = f
      BY <1>1, <2>1, AlignedPipe DEF InStep
    <2> QED BY <2>2 DEF Pipe, PipeFrom
  <1>2. CASE ~Aligned'
    <2>1. expect' = e
      BY <1>2 DEF InStep
    <2> QED BY <2>1 DEF Pipe, PipeFrom
  <1> QED BY <1>1, <1>2

(* What the client puts in a message continues the run. *)
LEMMA PipePut ==
    ASSUME Base, Base', NEW e, PipeFrom(e), cpc = "filling", NEW c \in Chunk, Put(c),
           \/ IsDummy(c) /\ BufferCursor' = BufferCursor
           \/ CutAt(sent, BufferCursor, c) /\ BufferCursor' = After(c)
    PROVE  PipeFrom(e)'
  <1>1. /\ part' = Append(part, c) /\ cpc' = "filling" /\ body' = body /\ sent' = sent
        /\ net' = net /\ spc' = spc /\ inbuf' = inbuf /\ pending' = pending /\ page' = page
    BY DEF Put, serverVars
  <1>2. Held' = Held
    BY <1>1 DEF Held
  <1>3. Flow = body \o part /\ Flow' = body \o Append(part, c) /\ Flow \in Seq(Chunk)
    BY <1>1, HeldAndFlow, HeldAndFlowNext
  <1>4. Flow' = Append(Flow, c)
    <2>1. body \in Seq(Chunk) /\ part \in Seq(Chunk) /\ <<c>> \in Seq(Chunk)
      BY SeqDef DEF Base, TypeOK
    <2>2. Append(part, c) = part \o <<c>> /\ Append(body \o part, c) = (body \o part) \o <<c>>
      BY <1>3, <2>1, AppendIsConcat
    <2> QED BY <1>3, <2>1, <2>2, ConcatAssociative
  <1>5. Chain(sent, End(Start(e), Held), Flow, BufferCursor)
    BY DEF PipeFrom
  <1>6. Chain(sent, End(Start(e), Held), Flow', BufferCursor')
    BY <1>3, <1>4, <1>5, ChainAppend
  <1> QED BY <1>1, <1>2, <1>6 DEF PipeFrom

LEMMA PipeFill ==
    ASSUME Base, Base', NEW e, PipeFrom(e), Fill
    PROVE  PipeFrom(e)'
  <1>0. cpc = "filling" /\ ChunkSize \in Nat /\ TypeOK /\ BufferOK
    <2>1. cpc = "filling" /\ free >= EmptyDenimChunkSize
      BY DEF Fill, PutFinal, PutData, PutDummy, Filling
    <2>2. free \in Nat /\ EmptyDenimChunkSize \in Nat
      BY HeaderAssumption DEF Base, TypeOK
    <2> QED BY <2>1, <2>2 DEF Base, ChunkSize
  <1>1. CASE PutFinal
    <2> DEFINE h == Head(buffer)
               c == FinalChunk(h.id, h.off + 1, sent[h.id].len)
    <2>1. buffer # <<>> /\ Put(c) /\ buffer' = Tail(buffer) /\ sent' = sent
      BY <1>1 DEF PutFinal, HasPayload, Put
    <2>2. /\ h \in Row /\ h.id = Len(sent) - Len(buffer) + 1 /\ h.id \in 1..Len(sent)
          /\ sent[h.id].len \in Nat
      BY <1>0, <2>1, HeadOfBuffer DEF Row
    <2>3. c \in Chunk
      BY <2>2, ChunkTypes DEF Row
    <2>4. BufferCursor.id = h.id /\ BufferCursor.off = h.off
      BY <2>1 DEF BufferCursor
    <2>5. CutAt(sent, BufferCursor, c) /\ After(c) = Start(h.id + 1)
      BY <2>2, <2>4
         DEF CutAt, After, FinalChunk, IsDummy, IsFinal, FinalFlag, DummyFlag
    <2>6. BufferCursor' = Start(h.id + 1)
      <3>1. /\ Len(buffer) \in Nat /\ Len(sent) \in Nat /\ buffer' \in Seq(Row)
            /\ Len(buffer') = Len(buffer) - 1
        BY <1>0, <2>1, HeadTailProperties, LenProperties DEF TypeOK, Row
      <3>2. CASE buffer' = <<>>
        <4>1. Len(buffer') = 0
          BY <3>2, EmptySeq
        <4>2. h.id = Len(sent)
          <5>1. Len(buffer) = 1
            BY <3>1, <4>1
          <5>2. h.id = Len(sent) - 1 + 1
            BY <2>2, <5>1, Zenon
          <5>3. Len(sent) - 1 + 1 = Len(sent)
            BY <3>1
          <5> QED BY <5>2, <5>3
        <4> QED BY <2>1, <3>2, <4>2 DEF BufferCursor
      <3>3. CASE buffer' # <<>>
        <4>1. Len(buffer') \in Nat \ {0} /\ Head(buffer') = buffer'[1]
          BY <3>1, <3>3, EmptySeq
        <4>2. 2 \in 1..Len(buffer) /\ buffer'[1] = buffer[2]
          <5>1. /\ buffer \in Seq(Row)
                /\ \A i \in 1..Len(buffer') : buffer'[i] = buffer[i + 1]
            BY <1>0, <2>1, HeadTailProperties DEF TypeOK, Row
          <5>2. 1 \in 1..Len(buffer') /\ 2 \in 1..Len(buffer) /\ 1 + 1 = 2
            BY <3>1, <4>1
          <5> QED BY <5>1, <5>2
        <4>3. /\ buffer[2].id = Len(sent) - Len(buffer) + 2 /\ buffer[2].off = 0
              /\ buffer[2].count = 0
          BY <1>0, <4>2 DEF BufferOK
        <4>4. buffer[2].id = h.id + 1
          BY <2>2, <3>1, <4>3
        <4> QED BY <3>3, <4>1, <4>2, <4>3, <4>4 DEF BufferCursor, Start
      <3> QED BY <3>2, <3>3
    <2> HIDE DEF c
    <2> QED BY <1>0, <2>1, <2>3, <2>5, <2>6, PipePut
  <1>2. CASE PutData
    <2> DEFINE h == Head(buffer)
               c == DataChunk(h.id, h.off + 1, h.off + ChunkSize, h.count)
               r == [id |-> h.id, off |-> h.off + ChunkSize, count |-> h.count - 1]
    <2>1. /\ buffer # <<>> /\ Put(c) /\ sent' = sent
          /\ buffer' = [buffer EXCEPT ![1] = r]
      BY <1>2 DEF PutData, HasPayload, Put
    <2>2. /\ h \in Row /\ h.id \in 1..Len(sent) /\ h.count <= 0 /\ h = buffer[1]
          /\ 1 \in 1..Len(buffer)
      BY <1>0, <2>1, HeadOfBuffer DEF Row
    <2>3. c \in Chunk
      BY <1>0, <2>2, ChunkTypes DEF Row
    <2>4. BufferCursor = [id |-> h.id, off |-> h.off, cnt |-> h.count]
      BY <2>1 DEF BufferCursor
    <2>5. ~IsDummy(c) /\ ~IsFinal(c)
      BY <2>2 DEF Row, DataChunk, DataFlag, IsDummy, IsFinal, FinalFlag, DummyFlag
    <2>6. /\ CutAt(sent, BufferCursor, c)
          /\ After(c) = [id |-> h.id, off |-> h.off + ChunkSize, cnt |-> h.count - 1]
      BY <2>2, <2>4, <2>5 DEF CutAt, After, DataChunk, DataFlag
    <2>7. BufferCursor' = After(c)
      <3>1. r \in Row
        BY <1>0, <2>2 DEF Row
      <3>2. buffer' \in Seq(Row) /\ Len(buffer') = Len(buffer) /\ buffer'[1] = r
        <4>1. buffer \in Seq(Row)
          BY <1>0 DEF TypeOK, Row
        <4> HIDE DEF r
        <4> QED BY <2>1, <2>2, <3>1, <4>1, ExceptSeq
      <3>3. buffer' # <<>> /\ Head(buffer') = r
        BY <2>2, <3>2, EmptySeq
      <3> QED BY <2>6, <3>3 DEF BufferCursor
    <2> HIDE DEF c
    <2> QED BY <1>0, <2>1, <2>3, <2>6, <2>7, PipePut
  <1>3. CASE PutDummy
    <2> DEFINE c == DummyChunk(ChunkSize)
    <2>1. Put(c) /\ buffer' = buffer /\ sent' = sent
      BY <1>3 DEF PutDummy, Put
    <2>2. c \in Chunk /\ IsDummy(c)
      BY <1>0, ChunkTypes DEF DummyChunk, IsDummy
    <2>3. BufferCursor' = BufferCursor
      BY <2>1 DEF BufferCursor
    <2> HIDE DEF c
    <2> QED BY <1>0, <2>1, <2>2, <2>3, PipePut
  <1> QED BY <1>1, <1>2, <1>3 DEF Fill

(* The clauses of PipeFrom on requests that follow the first, and on what  *)
(* create_deniable_payloads holds back.                                    *)
DummyQueue == \A i \in 1..Len(net) : i > 1 \/ spc # "idle" => ~HasReal(net[i])
OneByOne(e) ==
    spc = "assemble" =>
      /\ inbuf = <<>>
      /\ \A i \in 1..Len(pending) : pending[i].id = e /\ pending[i].flags = 1 - i

LEMMA PipeParts ==
    ASSUME NEW e
    PROVE  /\ PipeFrom(e) <=>
                /\ Linked(sent, Start(e), Held)
                /\ Chain(sent, End(Start(e), Held), Flow, BufferCursor)
                /\ DummyQueue /\ OneByOne(e)
           /\ PipeFrom(e)' <=>
                /\ Linked(sent', Start(e), Held')
                /\ Chain(sent', End(Start(e), Held'), Flow', BufferCursor')
                /\ DummyQueue' /\ OneByOne(e)'
  BY DEF PipeFrom, DummyQueue, OneByOne

LEMMA PipeClient ==
    ASSUME Base, Base', NEW e, PipeFrom(e), Client
    PROVE  PipeFrom(e)'
  <1>0. /\ Linked(sent, Start(e), Held)
        /\ Chain(sent, End(Start(e), Held), Flow, BufferCursor)
        /\ DummyQueue /\ OneByOne(e)
    BY PipeParts
  <1>1. ASSUME NEW len \in Lengths, NEW a \in Accounts, Submit(len, a)
        PROVE  PipeFrom(e)'
    <2>1. /\ cpc = "idle" /\ sent' = Append(sent, [len |-> len, to |-> a])
          /\ buffer' = Append(buffer, [id |-> Len(sent) + 1, off |-> 0, count |-> 0])
          /\ cpc' = cpc /\ body' = body /\ part' = part /\ net' = net /\ spc' = spc
          /\ request' = request /\ inbuf' = inbuf /\ pending' = pending /\ page' = page
      BY <1>1 DEF Submit, serverVars
    <2>2. Held' = Held /\ Flow' = Flow /\ DummyQueue' /\ OneByOne(e)'
      BY <1>0, <2>1 DEF Held, Flow, DummyQueue, OneByOne
    <2>3. /\ Len(sent) \in Nat /\ Len(sent') = Len(sent) + 1
          /\ \A k \in 1..Len(sent) : sent'[k] = sent[k]
      <3>1. sent \in Seq(Payload) /\ [len |-> len, to |-> a] \in Payload
        BY DEF Base, TypeOK, Payload
      <3> QED BY <2>1, <3>1, AppendProperties, LenProperties
    <2>4. BufferCursor' = BufferCursor
      <3> DEFINE r == [id |-> Len(sent) + 1, off |-> 0, count |-> 0]
      <3>1. buffer \in Seq(Row) /\ r \in Row
        BY <2>3 DEF Base, TypeOK, Row
      <3>2. /\ buffer' \in Seq(Row) /\ Len(buffer') = Len(buffer) + 1
            /\ buffer'[Len(buffer) + 1] = r /\ Len(buffer) \in Nat
            /\ \A k \in 1..Len(buffer) : buffer'[k] = buffer[k]
        BY <2>1, <3>1, AppendProperties, LenProperties
      <3>3. buffer' # <<>> /\ Head(buffer') = buffer'[1]
        BY <3>2, EmptySeq
      <3>4. CASE buffer = <<>>
        <4>1. Head(buffer') = r
          BY <3>2, <3>3, <3>4, EmptySeq
        <4> QED BY <3>3, <3>4, <4>1 DEF BufferCursor, Start
      <3>5. CASE buffer # <<>>
        <4>1. Len(buffer) \in Nat \ {0} /\ Head(buffer) = buffer[1]
          BY <3>1, <3>5, EmptySeq
        <4>2. Head(buffer') = Head(buffer)
          BY <3>2, <3>3, <4>1
        <4> QED BY <3>3, <3>5, <4>2 DEF BufferCursor
      <3> QED BY <3>4, <3>5
    <2>5. Len(sent') \in Nat /\ Len(sent) <= Len(sent')
      BY <2>3
    <2>6. /\ Linked(sent', Start(e), Held)
          /\ Chain(sent', End(Start(e), Held), Flow, BufferCursor)
      BY <1>0, <2>3, <2>5, LongerStream
    <2> QED BY <2>2, <2>4, <2>6, PipeParts
  <1>2. ASSUME NEW b \in Budgets, StartRequest(b) PROVE PipeFrom(e)'
    <2>1. /\ cpc = "idle" /\ net = <<>> /\ spc = "idle" /\ cpc' = "filling"
          /\ body' = <<>> /\ part' = <<>> /\ sent' = sent /\ buffer' = buffer
          /\ net' = net /\ spc' = spc /\ inbuf' = inbuf /\ pending' = pending
          /\ page' = page
      BY <1>2 DEF StartRequest, serverVars
    <2>2. /\ Held' = Held /\ BufferCursor' = BufferCursor /\ DummyQueue'
          /\ OneByOne(e)'
      BY <1>0, <2>1 DEF Held, BufferCursor, DummyQueue, OneByOne
    <2>3. Flow = <<>>
      BY <2>1, HeldAndFlow
    <2>4. Flow' = <<>> \o <<>>
      BY <2>1, HeldAndFlowNext
    <2>5. <<>> \o <<>> = <<>>
      BY EmptySeq, ConcatEmptySeq
    <2> QED BY <1>0, <2>1, <2>2, <2>3, <2>4, <2>5, PipeParts
  <1>3. ASSUME NEW b \in Budgets, NextPart(b) PROVE PipeFrom(e)'
    <2>1. /\ cpc = "filling" /\ cpc' = cpc /\ body' = body \o part /\ part' = <<>>
          /\ sent' = sent /\ buffer' = buffer /\ net' = net /\ spc' = spc
          /\ inbuf' = inbuf /\ pending' = pending /\ page' = page
      BY <1>3 DEF NextPart, PartFull, serverVars
    <2>2. /\ Held' = Held /\ BufferCursor' = BufferCursor /\ DummyQueue'
          /\ OneByOne(e)'
      BY <1>0, <2>1 DEF Held, BufferCursor, DummyQueue, OneByOne
    <2>3. Flow = body \o part /\ Flow \in Seq(Chunk) /\ Flow' = (body \o part) \o <<>>
      BY <2>1, HeldAndFlow, HeldAndFlowNext
    <2>4. Flow' = Flow
      BY <2>3, ConcatEmptySeq
    <2> QED BY <1>0, <2>1, <2>2, <2>4, PipeParts
  <1>4. CASE SendRequest
    <2>1. /\ cpc = "filling" /\ cpc' = "waiting" /\ net' = Append(net, body')
          /\ body' = body \o part /\ sent' = sent /\ buffer' = buffer /\ spc' = spc
          /\ inbuf' = inbuf /\ pending' = pending /\ page' = page
      BY <1>4 DEF SendRequest, PartFull, serverVars
    <2>2. net = <<>> /\ spc = "idle"
      BY <2>1 DEF Base, PhaseOK
    <2>3. Held' = Held /\ BufferCursor' = BufferCursor /\ OneByOne(e)'
      BY <1>0, <2>1 DEF Held, BufferCursor, OneByOne
    <2>4. Flow = body \o part /\ body \o part \in Seq(Chunk)
      BY <2>1, HeldAndFlow
    <2>5. /\ net' \in Seq(Seq(Chunk)) /\ Len(net') = 1 /\ net'[1] = body \o part
          /\ net' # <<>>
      BY <2>1, <2>2, <2>4, EmptySeq, AppendProperties
    <2>6. DummyQueue'
      BY <2>1, <2>2, <2>5 DEF DummyQueue
    <2>7. Flow' = Flow
      BY <2>1, <2>2, <2>4, <2>5, HeldAndFlowNext
    <2> QED BY <1>0, <2>1, <2>3, <2>6, <2>7, PipeParts
  <1>5. CASE ReceiveResponse
    <2>1. /\ cpc = "waiting" /\ cpc' = "idle" /\ net = <<>> /\ spc = "idle"
          /\ sent' = sent /\ buffer' = buffer /\ net' = net /\ spc' = spc
          /\ inbuf' = inbuf /\ pending' = pending /\ page' = page
      BY <1>5 DEF ReceiveResponse, ForgetRequest, serverVars
    <2>2. /\ Held' = Held /\ BufferCursor' = BufferCursor /\ DummyQueue'
          /\ OneByOne(e)'
      BY <1>0, <2>1 DEF Held, BufferCursor, DummyQueue, OneByOne
    <2>3. Flow = <<>> /\ Flow' = <<>>
      BY <2>1, HeldAndFlow, HeldAndFlowNext
    <2> QED BY <1>0, <2>1, <2>2, <2>3, PipeParts
  <1>6. CASE Fill
    BY <1>6, PipeFill
  <1> QED BY <1>1, <1>2, <1>3, <1>4, <1>5, <1>6 DEF Client

LEMMA NotFilling ==
    ASSUME Base, net # <<>> \/ spc # "idle"
    PROVE  cpc # "filling"
  BY DEF Base, PhaseOK

(* Steps of the handler that touch neither the chunks held nor the stream. *)
LEMMA PipeSameChunks ==
    ASSUME Base, Base', NEW e, PipeFrom(e), spc # "idle", spc' \notin {"idle", "assemble"},
           UNCHANGED clientVars, net' = net, request' = request, inbuf' = inbuf,
           pending' = pending, page' = page
    PROVE  PipeFrom(e)'
  <1>1. cpc # "filling" /\ cpc' = cpc /\ sent' = sent /\ buffer' = buffer
    BY NotFilling DEF clientVars
  <1>2. Held' = Held /\ BufferCursor' = BufferCursor
    BY <1>1 DEF Held, BufferCursor
  <1>3. Flow' = Flow
    BY <1>1, HeldAndFlow, HeldAndFlowNext
  <1>4. DummyQueue' /\ OneByOne(e)'
    BY PipeParts DEF DummyQueue, OneByOne
  <1> QED BY <1>1, <1>2, <1>3, <1>4, PipeParts

(* The handler ends with its chunks enqueued: the next request, if there   *)
(* is one, holds dummies only.                                             *)
LEMMA PipeEndRequest ==
    ASSUME Base, Base', NEW e, PipeFrom(e), spc # "idle", spc' = "idle", request = <<>>,
           UNCHANGED clientVars, net' = net, inbuf' = inbuf,
           pending' = pending, page' = page
    PROVE  PipeFrom(e)'
  <1>1. cpc # "filling" /\ cpc' = cpc /\ sent' = sent /\ buffer' = buffer
    BY NotFilling DEF clientVars
  <1>2. Held' = Held /\ BufferCursor' = BufferCursor
    BY <1>1 DEF Held, BufferCursor
  <1>3. Flow = <<>>
    BY <1>1, HeldAndFlow
  <1>4. End(Start(e), Held) = BufferCursor
    BY <1>3, PipeParts, ChainEmpty
  <1>5. DummyQueue' /\ OneByOne(e)'
    BY PipeParts DEF DummyQueue, OneByOne
  <1>6. Chain(sent, BufferCursor, Flow', BufferCursor)
    <2>1. CASE net = <<>>
      BY <1>1, <2>1, HeldAndFlowNext, ChainEmpty
    <2>2. CASE net # <<>>
      <3>1. net \in Seq(Seq(Chunk)) /\ 1 \in 1..Len(net)
        BY <2>2, EmptySeq, SMTT(30) DEF Base, TypeOK
      <3>2. net[1] \in Seq(Chunk) /\ ~HasReal(net[1])
        BY <3>1, PipeParts, ElementOfSeq DEF DummyQueue
      <3>3. Flow' = net[1]
        BY <1>1, <2>2, HeldAndFlowNext
      <3>4. \A k \in DOMAIN net[1] : IsDummy(net[1][k])
        BY <3>2 DEF HasReal
      <3> QED BY <3>2, <3>3, <3>4, ChainDummies
    <2> QED BY <2>1, <2>2
  <1> QED BY <1>1, <1>2, <1>4, <1>5, <1>6, PipeParts

LEMMA PipeAccept ==
    ASSUME Base, Base', NEW e, PipeFrom(e), AcceptRequest
    PROVE  PipeFrom(e)'
  <1>1. /\ net # <<>> /\ spc = "idle" /\ net' = Tail(net) /\ spc' = "enqueue"
        /\ request' = Head(net) /\ inbuf' = inbuf /\ pending' = pending /\ page' = page
        /\ cpc' = cpc /\ sent' = sent /\ buffer' = buffer
    BY DEF AcceptRequest, clientVars
  <1>2. cpc # "filling"
    BY <1>1, NotFilling
  <1>3. Held' = Held /\ BufferCursor' = BufferCursor
    BY <1>1 DEF Held, BufferCursor
  <1>4. /\ net \in Seq(Seq(Chunk)) /\ Len(net) \in Nat \ {0} /\ Head(net) = net[1]
        /\ Len(net') = Len(net) - 1 /\ \A i \in 1..Len(net') : net'[i] = net[i + 1]
    <2>1. net \in Seq(Seq(Chunk))
      BY DEF Base, TypeOK
    <2> QED BY <1>1, <2>1, EmptySeq, HeadTailProperties
  <1>5. Flow' = Flow
    BY <1>1, <1>2, <1>4, HeldAndFlow, HeldAndFlowNext
  <1>6. DummyQueue'
    <2>1. ASSUME NEW i \in 1..Len(net') PROVE ~HasReal(net'[i])
      <3>1. i + 1 \in 1..Len(net) /\ i + 1 > 1 /\ net'[i] = net[i + 1]
        BY <1>4
      <3> QED BY <3>1, PipeParts DEF DummyQueue
    <2> QED BY <2>1 DEF DummyQueue
  <1>7. OneByOne(e)'
    BY <1>1 DEF OneByOne
  <1> QED BY <1>1, <1>3, <1>5, <1>6, <1>7, PipeParts

LEMMA PipeEnqueue ==
    ASSUME Base, Base', NEW e, PipeFrom(e), EnqueueChunk
    PROVE  PipeFrom(e)'
  <1> DEFINE c == Head(request)
  <1>1. /\ spc = "enqueue" /\ request # <<>> /\ spc' = spc /\ request' = Tail(request)
        /\ inbuf' = (IF IsDummy(c) THEN inbuf ELSE Append(inbuf, c))
        /\ net' = net /\ pending' = pending /\ page' = page
        /\ cpc' = cpc /\ sent' = sent /\ buffer' = buffer
    BY DEF EnqueueChunk, clientVars
  <1>2. cpc # "filling" /\ page = <<>> /\ pending = <<>>
    BY <1>1, NotFilling DEF Base, PhaseOK
  <1>3. /\ Held = inbuf /\ Flow = request /\ inbuf \in Seq(Chunk)
        /\ request \in Seq(Chunk)
    BY <1>1, <1>2, HeldAndFlow
  <1>4. Held' = inbuf' /\ Flow' = Tail(request)
    BY <1>1, <1>2, HeldAndFlowNext
  <1>5. BufferCursor' = BufferCursor /\ DummyQueue' /\ OneByOne(e)'
    BY <1>1, PipeParts DEF BufferCursor, DummyQueue, OneByOne
  <1>6. /\ Linked(sent, Start(e), inbuf)
        /\ Chain(sent, End(Start(e), inbuf), request, BufferCursor)
    BY <1>3, PipeParts
  <1>7. c \in Chunk
    BY <1>1, <1>3, HeadTailProperties
  <1>8. CASE IsDummy(c)
    <2>1. inbuf' = inbuf
      BY <1>1, <1>8
    <2>2. Chain(sent, End(Start(e), inbuf), Tail(request), BufferCursor)
      BY <1>1, <1>3, <1>6, <1>8, ChainTail
    <2> QED BY <1>1, <1>4, <1>5, <1>6, <2>1, <2>2, PipeParts
  <1>9. CASE ~IsDummy(c)
    <2>1. inbuf' = Append(inbuf, c)
      BY <1>1, <1>9
    <2>2. /\ CutAt(sent, End(Start(e), inbuf), c)
          /\ Chain(sent, After(c), Tail(request), BufferCursor)
      BY <1>1, <1>3, <1>6, <1>9, ChainTail
    <2>3. Linked(sent, Start(e), inbuf') /\ End(Start(e), inbuf') = After(c)
      <3> HIDE DEF c
      <3> QED BY <1>3, <1>6, <1>7, <2>1, <2>2, LinkedAppend
    <2> HIDE DEF c
    <2> QED BY <1>1, <1>4, <1>5, <2>2, <2>3, PipeParts
  <1> QED BY <1>8, <1>9

LEMMA PipeDequeue ==
    ASSUME Base, Base', NEW e, PipeFrom(e), DequeuePage, ~(Len(inbuf) > PageSize)
    PROVE  PipeFrom(e)'
  <1>1. /\ spc = "enqueue" /\ spc' = "assemble" /\ request' = request
        /\ net' = net /\ pending' = pending
        /\ cpc' = cpc /\ sent' = sent /\ buffer' = buffer
    BY DEF DequeuePage, clientVars
  <1>2. page' = inbuf /\ inbuf' = <<>>
    <2>1. Len(inbuf) \in Nat /\ PageSize \in Nat
      BY LenProperties, UplinkAssumption DEF Base, TypeOK
    <2>2. Len(inbuf) <= PageSize
      BY <2>1
    <2> QED BY <2>2 DEF DequeuePage
  <1>3. cpc # "filling" /\ page = <<>> /\ pending = <<>>
    BY <1>1, NotFilling DEF Base, PhaseOK
  <1>4. Held = inbuf /\ Flow = request /\ inbuf \in Seq(Chunk)
    BY <1>1, <1>3, HeldAndFlow
  <1>5. Held' = <<>> \o inbuf /\ Flow' = request
    BY <1>1, <1>2, <1>3, HeldAndFlowNext
  <1>6. Held' = Held
    BY <1>4, <1>5, ConcatEmptySeq
  <1>7. BufferCursor' = BufferCursor /\ DummyQueue'
    BY <1>1, PipeParts DEF BufferCursor, DummyQueue
  <1>8. OneByOne(e)'
    <2>1. Len(pending') = 0
      BY <1>1, <1>3, EmptySeq
    <2> QED BY <1>2, <2>1 DEF OneByOne
  <1> QED BY <1>1, <1>4, <1>5, <1>6, <1>7, <1>8, PipeParts

(* What stands in front of the next chunk of the page. *)
LEMMA AtHeadOfPage ==
    ASSUME Base, NEW e, PipeFrom(e), Assembling
    PROVE  /\ Held = pending \o page
           /\ Head(page) \in Chunk
           /\ Linked(sent, Start(e), pending)
           /\ CutAt(sent, End(Start(e), pending), Head(page))
           /\ Linked(sent, After(Head(page)), Tail(page))
           /\ End(After(Head(page)), Tail(page)) = End(Start(e), Held)
           /\ \A i \in 1..Len(pending) : pending[i].id = e /\ pending[i].flags = 1 - i
           /\ pending # <<>> => /\ End(Start(e), pending).id = e
                                /\ End(Start(e), pending).off = pending[Len(pending)].hi
                                /\ End(Start(e), pending).cnt = -Len(pending)
  <1>1. spc = "assemble" /\ page # <<>>
    BY DEF Assembling
  <1>2. inbuf = <<>> /\ \A i \in 1..Len(pending) : pending[i].id = e /\ pending[i].flags = 1 - i
    BY <1>1, PipeParts DEF OneByOne
  <1>3. /\ Held = pending \o page /\ pending \in Seq(Chunk) /\ page \in Seq(Chunk)
    BY <1>2, HeldAndFlow
  <1>4. Linked(sent, Start(e), pending \o page)
    BY <1>3, PipeParts
  <1>5. /\ Linked(sent, Start(e), pending)
        /\ Linked(sent, End(Start(e), pending), page)
        /\ End(End(Start(e), pending), page) = End(Start(e), pending \o page)
    BY <1>3, <1>4, LinkedConcat
  <1>6. /\ CutAt(sent, End(Start(e), pending), Head(page))
        /\ Linked(sent, After(Head(page)), Tail(page))
        /\ End(After(Head(page)), Tail(page)) = End(End(Start(e), pending), page)
    BY <1>1, <1>3, <1>5, LinkedTail
  <1>7. Head(page) \in Chunk
    BY <1>1, <1>3, HeadTailProperties
  <1>8. ASSUME pending # <<>>
        PROVE  /\ End(Start(e), pending).id = e
               /\ End(Start(e), pending).off = pending[Len(pending)].hi
               /\ End(Start(e), pending).cnt = -Len(pending)
    <2>1. Len(pending) \in 1..Len(pending) /\ Len(pending) \in Nat
      BY <1>3, <1>8, EmptySeq
    <2>2. pending[Len(pending)].id = e /\ pending[Len(pending)].flags = 1 - Len(pending)
      BY <1>2, <2>1
    <2>3. ~IsFinal(pending[Len(pending)])
      BY <2>1 DEF Base, PhaseOK, AllData
    <2>4. 1 - Len(pending) - 1 = -Len(pending)
      BY <2>1
    <2> QED BY <1>8, <2>2, <2>3, <2>4 DEF End, After
  <1> QED BY <1>2, <1>3, <1>5, <1>6, <1>7, <1>8

LEMMA PipeHold ==
    ASSUME Base, Base', NEW e, PipeFrom(e), HoldData
    PROVE  PipeFrom(e)'
  <1> DEFINE c == Head(page)
  <1>1. /\ Assembling /\ ~IsFinal(c) /\ pending' = Append(pending, c)
        /\ page' = Tail(page) /\ page # <<>>
        /\ spc = "assemble" /\ spc' = spc /\ request' = request /\ net' = net
        /\ inbuf' = inbuf /\ cpc' = cpc /\ sent' = sent /\ buffer' = buffer
    BY DEF HoldData, Assembling, clientVars
  <1>2. inbuf = <<>> /\ cpc # "filling"
    BY <1>1, NotFilling, PipeParts DEF OneByOne
  <1>3. /\ Held = pending \o page /\ c \in Chunk
        /\ CutAt(sent, End(Start(e), pending), c)
        /\ \A i \in 1..Len(pending) : pending[i].id = e /\ pending[i].flags = 1 - i
        /\ pending # <<>> => /\ End(Start(e), pending).id = e
                             /\ End(Start(e), pending).cnt = -Len(pending)
    BY <1>1, AtHeadOfPage
  <1>4. pending \in Seq(Chunk) /\ page \in Seq(Chunk) /\ Flow = request
    BY <1>1, <1>2, HeldAndFlow
  <1>5. Held' = Held
    <2>1. Held' = Append(pending, c) \o Tail(page)
      BY <1>1, <1>2, HeldAndFlowNext
    <2>2. Append(pending, c) \o Tail(page) = pending \o page
      BY <1>1, <1>4, MoveHead
    <2> QED BY <1>3, <2>1, <2>2
  <1>6. Flow' = Flow
    BY <1>1, <1>2, <1>4, HeldAndFlowNext
  <1>7. BufferCursor' = BufferCursor /\ DummyQueue'
    BY <1>1, PipeParts DEF BufferCursor, DummyQueue
  <1> HIDE DEF c
  <1>8. OneByOne(e)'
    <2>1. /\ Len(pending) \in Nat /\ Len(pending') = Len(pending) + 1
          /\ \A i \in 1..Len(pending) : pending'[i] = pending[i]
          /\ pending'[Len(pending) + 1] = c
      BY <1>1, <1>3, <1>4, AppendProperties, LenProperties
    <2>2. c.id = e /\ c.flags = -Len(pending)
      <3>1. c.id = End(Start(e), pending).id /\ c.flags = End(Start(e), pending).cnt
        BY <1>1, <1>3 DEF CutAt
      <3>2. CASE pending = <<>>
        <4>1. End(Start(e), pending) = Start(e) /\ Len(pending) = 0
          BY <3>2, EmptySeq DEF End
        <4> QED BY <3>1, <4>1 DEF Start
      <3>3. CASE pending # <<>>
        BY <1>3, <3>1, <3>3
      <3> QED BY <3>2, <3>3
    <2>3. -Len(pending) = 1 - (Len(pending) + 1)
      BY <2>1
    <2>4. \A i \in 1..Len(pending') : i \in 1..Len(pending) \/ i = Len(pending) + 1
      BY <2>1
    <2>5. \A i \in 1..Len(pending') : pending'[i].id = e /\ pending'[i].flags = 1 - i
      BY <1>3, <2>1, <2>2, <2>3, <2>4
    <2> QED BY <1>1, <1>2, <2>5 DEF OneByOne
  <1> QED BY <1>1, <1>5, <1>6, <1>7, <1>8, PipeParts

(* A payload is complete: the run now starts at the next one. *)
LEMMA PipeComplete ==
    ASSUME Base, Base', NEW e, PipeFrom(e), CompletePayload
    PROVE  Head(page).id = e /\ PipeFrom(e + 1)'
  <1> DEFINE c == Head(page)
  <1>1. /\ Assembling /\ IsFinal(c) /\ pending' = <<>>
        /\ page' = Tail(page) /\ page # <<>>
        /\ spc = "assemble" /\ spc' = spc /\ request' = request /\ net' = net
        /\ inbuf' = inbuf /\ cpc' = cpc /\ sent' = sent /\ buffer' = buffer
    BY DEF CompletePayload, Assembling, clientVars
  <1>2. inbuf = <<>> /\ cpc # "filling" /\ page \in Seq(Chunk)
    BY <1>1, NotFilling, PipeParts, HeldAndFlow DEF OneByOne
  <1>3. /\ CutAt(sent, End(Start(e), pending), c)
        /\ Linked(sent, After(c), Tail(page))
        /\ End(After(c), Tail(page)) = End(Start(e), Held)
        /\ pending # <<>> => End(Start(e), pending).id = e
    BY <1>1, AtHeadOfPage
  <1>4. Flow' = Flow
    BY <1>1, <1>2, HeldAndFlow, HeldAndFlowNext
  <1>5. Held' = Tail(page)
    <2>1. Held' = <<>> \o Tail(page)
      BY <1>1, <1>2, HeldAndFlowNext
    <2>2. Tail(page) \in Seq(Chunk)
      BY <1>1, <1>2, HeadTailProperties
    <2> QED BY <2>1, <2>2, ConcatEmptySeq
  <1>6. BufferCursor' = BufferCursor /\ DummyQueue'
    BY <1>1, PipeParts DEF BufferCursor, DummyQueue
  <1> HIDE DEF c
  <1>7. c.id = e
    <2>1. c.id = End(Start(e), pending).id
      BY <1>3 DEF CutAt
    <2>2. pending = <<>> => End(Start(e), pending).id = e
      BY DEF End, Start
    <2> QED BY <1>3, <2>1, <2>2
  <1>8. After(c) = Start(e + 1)
    BY <1>1, <1>7 DEF After
  <1>9. OneByOne(e + 1)'
    <2>1. Len(pending') = 0
      BY <1>1, EmptySeq
    <2> QED BY <1>1, <1>2, <2>1 DEF OneByOne
  <1>10. /\ Linked(sent', Start(e + 1), Held')
         /\ Chain(sent', End(Start(e + 1), Held'), Flow', BufferCursor')
    BY <1>1, <1>3, <1>4, <1>5, <1>6, <1>8, PipeParts
  <1>11. PipeFrom(e + 1)'
    BY <1>6, <1>9, <1>10 DEF PipeFrom, DummyQueue, OneByOne
  <1> QED BY <1>7, <1>11 DEF c

LEMMA PipePageDone ==
    ASSUME Base, Base', NEW e, PipeFrom(e), PageDone \/ FlushDone \/ Route
    PROVE  PipeFrom(e)'
  <1>1. /\ spc # "idle" /\ spc' \notin {"idle", "assemble"} /\ UNCHANGED clientVars
        /\ net' = net /\ request' = request /\ inbuf' = inbuf
        /\ pending' = pending /\ page' = page
    BY DEF PageDone, FlushDone, Route
  <1> QED BY <1>1, PipeSameChunks

LEMMA PipeRequeue ==
    ASSUME Base, Base', NEW e, PipeFrom(e), RequeueChunk
    PROVE  PipeFrom(e)'
  <1>1. /\ spc = "requeue" /\ spc' = spc /\ pending # <<>>
        /\ inbuf' = Append(inbuf, Head(pending)) /\ pending' = Tail(pending)
        /\ request' = request /\ net' = net /\ page' = page
        /\ cpc' = cpc /\ sent' = sent /\ buffer' = buffer
    BY DEF RequeueChunk, clientVars
  <1>2. cpc # "filling" /\ page = <<>>
    BY <1>1, NotFilling DEF Base, PhaseOK
  <1>3. Held = inbuf \o pending /\ inbuf \in Seq(Chunk) /\ pending \in Seq(Chunk)
    BY <1>2, HeldAndFlow
  <1>4. Held' = Append(inbuf, Head(pending)) \o Tail(pending)
    BY <1>1, <1>2, HeldAndFlowNext
  <1>5. Held' = Held
    BY <1>1, <1>3, <1>4, MoveHead
  <1>6. Flow' = Flow
    BY <1>1, <1>2, HeldAndFlow, HeldAndFlowNext
  <1>7. BufferCursor' = BufferCursor /\ DummyQueue' /\ OneByOne(e)'
    BY <1>1, PipeParts DEF BufferCursor, DummyQueue, OneByOne
  <1> QED BY <1>1, <1>5, <1>6, <1>7, PipeParts

(* A fault that destroys or repeats dummies only leaves the run alone. *)
LEMMA PipeCrash ==
    ASSUME Base, Base', NEW e, PipeFrom(e), ClientCrash,
           ~(cpc = "filling" /\ HasReal(body \o part))
    PROVE  PipeFrom(e)'
  <1>1. /\ cpc' = "idle" /\ sent' = sent /\ buffer' = buffer /\ net' = net /\ spc' = spc
        /\ request' = request /\ inbuf' = inbuf /\ pending' = pending /\ page' = page
    BY DEF ClientCrash, ForgetRequest, serverVars
  <1>2. /\ Held' = Held /\ BufferCursor' = BufferCursor /\ DummyQueue'
        /\ OneByOne(e)'
    BY <1>1, PipeParts DEF Held, BufferCursor, DummyQueue, OneByOne
  <1>3. CASE cpc # "filling"
    <2>1. Flow' = Flow
      BY <1>1, <1>3 DEF Flow
    <2> QED BY <1>1, <1>2, <2>1, PipeParts
  <1>4. CASE cpc = "filling"
    <2>1. net = <<>> /\ spc = "idle"
      BY <1>4 DEF Base, PhaseOK
    <2>2. Flow = body \o part /\ Flow \in Seq(Chunk)
      BY <1>4, HeldAndFlow
    <2>3. \A k \in DOMAIN Flow : IsDummy(Flow[k])
      BY <1>4, <2>2 DEF HasReal
    <2>4. End(Start(e), Held) = BufferCursor
      BY <2>2, <2>3, PipeParts, ChainDummies
    <2>5. Flow' = <<>>
      BY <1>1, <2>1, HeldAndFlowNext
    <2>6. Chain(sent, BufferCursor, Flow', BufferCursor)
      BY <2>5, ChainEmpty
    <2> QED BY <1>1, <1>2, <2>4, <2>6, PipeParts
  <1> QED BY <1>3, <1>4

LEMMA PipeResend ==
    ASSUME Base, Base', NEW e, PipeFrom(e), ResendRequest, ~HasReal(body)
    PROVE  PipeFrom(e)'
  <1>1. /\ cpc = "waiting" /\ cpc' = cpc /\ net' = Append(net, body)
        /\ sent' = sent /\ buffer' = buffer /\ spc' = spc
        /\ request' = request /\ inbuf' = inbuf /\ pending' = pending /\ page' = page
    BY DEF ResendRequest, serverVars
  <1>2. Held' = Held /\ BufferCursor' = BufferCursor /\ OneByOne(e)'
    BY <1>1, PipeParts DEF Held, BufferCursor, OneByOne
  <1>3. net \in Seq(Seq(Chunk)) /\ body \in Seq(Chunk)
    BY DEF Base, TypeOK
  <1>4. /\ Len(net) \in Nat /\ net' \in Seq(Seq(Chunk)) /\ Len(net') = Len(net) + 1
        /\ \A i \in 1..Len(net) : net'[i] = net[i]
        /\ net'[Len(net) + 1] = body
    BY <1>1, <1>3, AppendProperties, LenProperties
  <1>5. net' # <<>>
    BY <1>4, EmptySeq
  <1>6. DummyQueue'
    <2>1. ASSUME NEW i \in 1..Len(net'), i > 1 \/ spc # "idle" PROVE ~HasReal(net'[i])
      <3>1. CASE i \in 1..Len(net)
        BY <1>4, <2>1, <3>1, PipeParts DEF DummyQueue
      <3>2. CASE i = Len(net) + 1
        BY <1>4, <3>2
      <3> QED BY <1>4, <3>1, <3>2
    <2> QED BY <1>1, <2>1 DEF DummyQueue
  <1>7. Chain(sent, End(Start(e), Held), Flow', BufferCursor)
    <2>1. CASE spc # "idle"
      <3>1. Flow' = Flow
        BY <1>1, <2>1 DEF Flow
      <3> QED BY <3>1, PipeParts
    <2>2. CASE spc = "idle" /\ net # <<>>
      <3>1. 1 \in 1..Len(net)
        BY <1>3, <2>2, EmptySeq
      <3>2. Flow' = Flow
        BY <1>1, <1>4, <1>5, <2>2, <3>1 DEF Flow
      <3> QED BY <3>2, PipeParts
    <2>3. CASE spc = "idle" /\ net = <<>>
      <3>1. Flow = <<>>
        BY <1>1, <2>3, HeldAndFlow
      <3>2. End(Start(e), Held) = BufferCursor
        BY <3>1, PipeParts, ChainEmpty
      <3>3. Len(net) = 0
        BY <2>3, EmptySeq
      <3>4. Flow' = body
        BY <1>1, <1>4, <1>5, <2>3, <3>3, HeldAndFlowNext
      <3>5. \A k \in DOMAIN body : IsDummy(body[k])
        BY DEF HasReal
      <3> QED BY <1>3, <3>2, <3>4, <3>5, ChainDummies
    <2> QED BY <2>1, <2>2, <2>3
  <1> QED BY <1>1, <1>2, <1>6, <1>7, PipeParts

(* The requests that are thrown away hold dummies: the run ends where the  *)
(* client's buffer goes on.                                                *)
LEMMA DummyNet ==
    ASSUME Base, NEW e, PipeFrom(e), spc = "idle", cpc # "filling",
           net # <<>> => ~HasReal(net[1])
    PROVE  End(Start(e), Held) = BufferCursor
  <1>1. CASE net = <<>>
    BY <1>1, HeldAndFlow, PipeParts, ChainEmpty
  <1>2. CASE net # <<>>
    <2>1. Flow = net[1] /\ Flow \in Seq(Chunk)
      BY <1>2, HeldAndFlow
    <2>2. \A k \in DOMAIN Flow : IsDummy(Flow[k])
      BY <1>2, <2>1 DEF HasReal
    <2> QED BY <2>1, <2>2, PipeParts, ChainDummies
  <1> QED BY <1>1, <1>2

LEMMA PipeDisconnect ==
    ASSUME Base, Base', NEW e, PipeFrom(e), Disconnect,
           ~(\E i \in DOMAIN net : HasReal(net[i]))
    PROVE  PipeFrom(e)'
  <1>1. /\ cpc = "waiting" /\ cpc' = "idle" /\ net' = <<>>
        /\ sent' = sent /\ buffer' = buffer /\ spc' = spc
        /\ request' = request /\ inbuf' = inbuf /\ pending' = pending /\ page' = page
    BY DEF Disconnect, ForgetRequest, serverVars
  <1>2. Held' = Held /\ BufferCursor' = BufferCursor /\ OneByOne(e)'
    BY <1>1, PipeParts DEF Held, BufferCursor, OneByOne
  <1>3. DummyQueue'
    <2>1. Len(net') = 0
      BY <1>1, EmptySeq
    <2> QED BY <2>1 DEF DummyQueue
  <1>4. CASE spc # "idle"
    <2>1. Flow' = Flow
      BY <1>1, <1>4 DEF Flow
    <2> QED BY <1>1, <1>2, <1>3, <2>1, PipeParts
  <1>5. CASE spc = "idle"
    <2>1. net # <<>> => ~HasReal(net[1])
      <3>1. net \in Seq(Seq(Chunk))
        BY DEF Base, TypeOK
      <3>2. net # <<>> => 1 \in DOMAIN net
        BY <3>1, EmptySeq, LenProperties
      <3> QED BY <3>2
    <2>2. End(Start(e), Held) = BufferCursor
      BY <1>1, <1>5, <2>1, DummyNet
    <2>3. Flow' = <<>>
      BY <1>1, <1>5, HeldAndFlowNext
    <2>4. Chain(sent, BufferCursor, Flow', BufferCursor)
      BY <2>3, ChainEmpty
    <2> QED BY <1>1, <1>2, <1>3, <2>2, <2>4, PipeParts
  <1> QED BY <1>4, <1>5

LEMMA PipeReject ==
    ASSUME Base, Base', NEW e, PipeFrom(e), RejectRequest, ~HasReal(Head(net))
    PROVE  PipeFrom(e)'
  <1>1. /\ net # <<>> /\ spc = "idle" /\ net' = Tail(net) /\ cpc' = cpc
        /\ sent' = sent /\ buffer' = buffer /\ spc' = spc
        /\ request' = request /\ inbuf' = inbuf /\ pending' = pending /\ page' = page
    BY DEF RejectRequest, clientVars, serverVars
  <1>2. Held' = Held /\ BufferCursor' = BufferCursor /\ OneByOne(e)'
    BY <1>1, PipeParts DEF Held, BufferCursor, OneByOne
  <1>3. /\ net \in Seq(Seq(Chunk)) /\ Len(net) \in Nat \ {0} /\ Head(net) = net[1]
        /\ net' \in Seq(Seq(Chunk))
        /\ Len(net') = Len(net) - 1 /\ \A i \in 1..Len(net') : net'[i] = net[i + 1]
    <2>1. net \in Seq(Seq(Chunk))
      BY DEF Base, TypeOK
    <2> QED BY <1>1, <2>1, EmptySeq, HeadTailProperties
  <1>4. ASSUME NEW i \in 1..Len(net') PROVE ~HasReal(net'[i])
    <2>1. i + 1 \in 1..Len(net) /\ i + 1 > 1 /\ net'[i] = net[i + 1]
      BY <1>3
    <2> QED BY <2>1, PipeParts DEF DummyQueue
  <1>5. DummyQueue'
    BY <1>4 DEF DummyQueue
  <1>6. cpc # "filling"
    BY <1>1, NotFilling
  <1>7. End(Start(e), Held) = BufferCursor
    BY <1>1, <1>3, <1>6, DummyNet
  <1>8. Chain(sent, BufferCursor, Flow', BufferCursor)
    <2>1. CASE net' = <<>>
      BY <1>1, <1>6, <2>1, HeldAndFlowNext, ChainEmpty
    <2>2. CASE net' # <<>>
      <3>1. 1 \in 1..Len(net') /\ net'[1] \in Seq(Chunk)
        BY <1>3, <2>2, EmptySeq, ElementOfSeq
      <3>2. \A k \in DOMAIN net'[1] : IsDummy(net'[1][k])
        BY <1>4, <3>1 DEF HasReal
      <3>3. Flow' = net'[1]
        BY <1>1, <1>6, <2>2, HeldAndFlowNext
      <3> QED BY <3>1, <3>2, <3>3, ChainDummies
    <2> QED BY <2>1, <2>2
  <1> QED BY <1>1, <1>2, <1>5, <1>7, <1>8, PipeParts

(* A handler that has only dummies in hand has nothing to lose. *)
LEMMA OnlyDummies ==
    ASSUME Base, ~HasReal(request \o page \o pending)
    PROVE  /\ page = <<>> /\ pending = <<>> /\ request \in Seq(Chunk)
           /\ \A k \in DOMAIN request : IsDummy(request[k])
  <1>4. /\ request \in Seq(Chunk) /\ page \in Seq(Chunk) /\ pending \in Seq(Chunk)
    BY HeldAndFlow
  <1> DEFINE rp == request \o page
             all == rp \o pending
  <1>5. /\ rp \in Seq(Chunk) /\ Len(rp) = Len(request) + Len(page)
        /\ \A i \in 1..(Len(request) + Len(page)) :
             rp[i] = IF i <= Len(request) THEN request[i] ELSE page[i - Len(request)]
        /\ Len(request) \in Nat /\ Len(page) \in Nat /\ Len(pending) \in Nat
    BY <1>4, ConcatProperties, LenProperties
  <1> HIDE DEF rp
  <1>6. /\ all \in Seq(Chunk) /\ Len(all) = Len(rp) + Len(pending)
        /\ \A i \in 1..(Len(rp) + Len(pending)) :
             all[i] = IF i <= Len(rp) THEN rp[i] ELSE pending[i - Len(rp)]
    <2>1. rp \in Seq(Chunk) /\ pending \in Seq(Chunk)
      BY <1>4, <1>5
    <2> QED BY <2>1, ConcatProperties
  <1>7. \A i \in 1..Len(all) : IsDummy(all[i])
    <2>1. \A i \in DOMAIN all : IsDummy(all[i])
      BY DEF HasReal, rp
    <2>2. DOMAIN all = 1..Len(all)
      BY <1>6, LenProperties
    <2> QED BY <2>1, <2>2
  <1> HIDE DEF all
  <1>8. ASSUME NEW i \in 1..Len(request) PROVE IsDummy(request[i])
    <2>1. i \in 1..Len(all) /\ all[i] = request[i]
      <3>1. i \in 1..(Len(request) + Len(page)) /\ i <= Len(request)
        BY <1>5
      <3>2. rp[i] = request[i]
        BY <1>5, <3>1
      <3>3. i \in 1..(Len(rp) + Len(pending)) /\ i <= Len(rp)
        BY <1>5, <3>1
      <3> QED BY <1>6, <3>2, <3>3
    <2> QED BY <1>7, <2>1
  <1>9. page = <<>>
    <2>1. SUFFICES ASSUME page # <<>> PROVE FALSE
      OBVIOUS
    <2>2. Len(page) \in Nat \ {0} /\ ~IsDummy(page[1])
      <3>1. Len(page) \in Nat \ {0}
        BY <1>4, <2>1, EmptySeq
      <3> QED BY <3>1 DEF Base, PhaseOK, AllReal
    <2>3. /\ Len(request) + 1 \in 1..(Len(request) + Len(page))
          /\ ~(Len(request) + 1 <= Len(request)) /\ (Len(request) + 1) - Len(request) = 1
      BY <1>5, <2>2
    <2>4. rp[Len(request) + 1] = page[1]
      BY <1>5, <2>3
    <2>5. /\ Len(request) + 1 \in 1..(Len(rp) + Len(pending))
          /\ Len(request) + 1 <= Len(rp)
      BY <1>5, <2>3
    <2>6. all[Len(request) + 1] = page[1] /\ Len(request) + 1 \in 1..Len(all)
      BY <1>6, <2>4, <2>5
    <2> QED BY <1>7, <2>2, <2>6
  <1>10. pending = <<>>
    <2>1. SUFFICES ASSUME pending # <<>> PROVE FALSE
      OBVIOUS
    <2>2. Len(pending) \in Nat \ {0} /\ ~IsDummy(pending[1])
      <3>1. Len(pending) \in Nat \ {0}
        BY <1>4, <2>1, EmptySeq
      <3> QED BY <3>1 DEF Base, PhaseOK, AllData
    <2>3. /\ Len(rp) + 1 \in 1..(Len(rp) + Len(pending)) /\ ~(Len(rp) + 1 <= Len(rp))
          /\ (Len(rp) + 1) - Len(rp) = 1
      BY <1>5, <2>2
    <2>4. all[Len(rp) + 1] = pending[1] /\ Len(rp) + 1 \in 1..Len(all)
      BY <1>6, <2>3
    <2> QED BY <1>7, <2>2, <2>4
  <1>11. \A k \in DOMAIN request : IsDummy(request[k])
    BY <1>4, <1>8, LenProperties
  <1> QED BY <1>4, <1>9, <1>10, <1>11

LEMMA PipeAbort ==
    ASSUME Base, Base', NEW e, PipeFrom(e), HandlerError \/ ServerAbort,
           ~HasReal(request \o page \o pending)
    PROVE  PipeFrom(e)'
  <1>1. /\ spc # "idle" /\ spc' = "idle" /\ page' = <<>> /\ pending' = <<>>
        /\ net' = net \/ net' = <<>>
        /\ sent' = sent /\ buffer' = buffer /\ inbuf' = inbuf
    BY DEF HandlerError, ServerAbort, DropAll, EndRequest, clientVars
  <1>2. cpc # "filling"
    BY <1>1, NotFilling
  <1>3. cpc' # "filling"
    BY <1>2 DEF HandlerError, ServerAbort, ForgetRequest, clientVars
  <1>4. page = <<>> /\ pending = <<>> /\ Flow = request
    BY <1>1, <1>2, OnlyDummies, HeldAndFlow
  <1>5. Held' = Held /\ BufferCursor' = BufferCursor /\ OneByOne(e)'
    BY <1>1, <1>4 DEF Held, BufferCursor, OneByOne
  <1>6. End(Start(e), Held) = BufferCursor
    BY <1>4, OnlyDummies, PipeParts, ChainDummies
  <1>7. DummyQueue'
    <2>1. CASE net' = net
      BY <1>1, <2>1, PipeParts DEF DummyQueue
    <2>2. CASE net' = <<>>
      <3>1. Len(net') = 0
        BY <2>2, EmptySeq
      <3> QED BY <3>1 DEF DummyQueue
    <2> QED BY <1>1, <2>1, <2>2
  <1>8. Chain(sent, BufferCursor, Flow', BufferCursor)
    <2>1. CASE net' = <<>>
      BY <1>1, <1>3, <2>1, HeldAndFlowNext, ChainEmpty
    <2>2. CASE net' = net /\ net # <<>>
      <3>1. net \in Seq(Seq(Chunk)) /\ 1 \in 1..Len(net)
        <4>1. net \in Seq(Seq(Chunk))
          BY DEF Base, TypeOK
        <4>2. Len(net) \in Nat \ {0}
          BY <2>2, <4>1, EmptySeq
        <4> QED BY <4>1, <4>2
      <3>2. net[1] \in Seq(Chunk) /\ ~HasReal(net[1])
        <4>1. DummyQueue
          BY PipeParts
        <4>2. net[1] \in Seq(Chunk)
          BY <3>1, ElementOfSeq
        <4> QED BY <1>1, <3>1, <4>1, <4>2 DEF DummyQueue
      <3>3. Flow' = net[1]
        BY <1>1, <1>3, <2>2, HeldAndFlowNext
      <3>4. \A k \in DOMAIN net[1] : IsDummy(net[1][k])
        BY <3>2 DEF HasReal
      <3> QED BY <3>2, <3>3, <3>4, ChainDummies
    <2> QED BY <1>1, <2>1, <2>2
  <1> QED BY <1>1, <1>5, <1>6, <1>7, <1>8, PipeParts

(***************************************************************************)
(* One lemma for the whole next-state relation.                            *)
(***************************************************************************)
LEMMA PipeStep ==
    ASSUME Base, Base', Pipe, Next
    PROVE  Pipe'
  <1>0. PICK e : e = expect
    OBVIOUS
  <1>1. e # 0 => PipeFrom(e)
    BY <1>0 DEF Pipe
  <1>k. ASSUME InStep(expect), PipeFrom(e) => PipeFrom(e)' PROVE Pipe'
    <2>1. InStep(e)
      BY <1>0, <1>k DEF InStep
    <2> QED BY <1>1, <1>k, <2>1, PipeInStep
  <1>z. ASSUME InStep(0) PROVE Pipe'
    BY <1>z, PipeInStep
  <1>l. ASSUME NEW lost \in BOOLEAN, LoseStepIf(lost),
               ~lost /\ PipeFrom(e) => PipeFrom(e)'
        PROVE  Pipe'
    BY <1>k, <1>z, <1>l DEF LoseStepIf
  <1>2. CASE Client
    <2>1. InStep(expect)
      BY <1>2 DEF Client, Submit, StartRequest, NextPart, Fill, PutFinal, PutData, PutDummy,
                  Put, SendRequest, ReceiveResponse
    <2> QED BY <1>2, <1>k, <2>1, PipeClient
  <1>3. CASE AcceptRequest
    BY <1>3, <1>k, PipeAccept DEF AcceptRequest
  <1>4. CASE EnqueueChunk
    BY <1>4, <1>k, PipeEnqueue DEF EnqueueChunk
  <1>5. CASE NoFinal \/ RequestDone
    <2>1. /\ spc # "idle" /\ spc' = "idle" /\ request = <<>> /\ UNCHANGED clientVars
          /\ net' = net /\ inbuf' = inbuf /\ pending' = pending /\ page' = page
          /\ InStep(expect)
      BY <1>5 DEF NoFinal, RequestDone, EndRequest, Base, PhaseOK
    <2> QED BY <1>k, <2>1, PipeEndRequest
  <1>6. CASE DequeuePage
    <2> DEFINE lost == Len(inbuf) > PageSize
    <2>1. LoseStepIf(lost)
      BY <1>6 DEF DequeuePage
    <2>2. ~lost /\ PipeFrom(e) => PipeFrom(e)'
      BY <1>6, PipeDequeue
    <2>3. lost \in BOOLEAN
      OBVIOUS
    <2> HIDE DEF lost
    <2> QED BY <1>l, <2>1, <2>2, <2>3
  <1>7. CASE HoldData
    BY <1>7, <1>k, PipeHold DEF HoldData
  <1>8. CASE CompletePayload
    <2>1. CASE e = 0
      <3>1. InStep(0)
        BY <1>0, <1>8, <2>1 DEF CompletePayload, InStep
      <3> QED BY <1>z, <3>1
    <2>2. CASE e # 0
      <3>1. Head(page).id = e /\ PipeFrom(e + 1)'
        BY <1>1, <1>8, <2>2, PipeComplete
      <3>2. PICK f : f = e + 1
        OBVIOUS
      <3>3. InStep(f)
        BY <1>0, <1>8, <2>2, <3>1, <3>2 DEF CompletePayload, InStep
      <3>4. PipeFrom(f)'
        BY <3>1, <3>2 DEF PipeFrom
      <3> QED BY <3>3, <3>4, PipeInStep
    <2> QED BY <2>1, <2>2
  <1>9. CASE RefuseGarbage \/ DecodeGarbage
    <2>1. InStep(0)
      BY <1>9 DEF RefuseGarbage, DecodeGarbage, LoseStepIf, InStep
    <2> QED BY <1>z, <2>1
  <1>10. CASE PageDone \/ FlushDone \/ Route
    <2>1. InStep(expect)
      BY <1>10 DEF PageDone, FlushDone, Route
    <2> QED BY <1>10, <1>k, <2>1, PipePageDone
  <1>11. CASE RequeueChunk
    BY <1>11, <1>k, PipeRequeue DEF RequeueChunk
  <1>12. ASSUME NEW i \in 1..Len(done), NEW a \in Accounts, CommitPayload(i, a)
         PROVE  Pipe'
    <2>1. /\ spc # "idle" /\ spc' \notin {"idle", "assemble"} /\ UNCHANGED clientVars
          /\ net' = net /\ request' = request /\ inbuf' = inbuf
          /\ pending' = pending /\ page' = page /\ InStep(expect)
      BY <1>12 DEF CommitPayload
    <2> QED BY <1>k, <2>1, PipeSameChunks
  <1>13. CASE ClientCrash
    <2>1. LoseStepIf(cpc = "filling" /\ HasReal(body \o part))
      BY <1>13 DEF ClientCrash
    <2> QED BY <1>13, <1>l, <2>1, PipeCrash DEF HasReal
  <1>14. CASE ResendRequest
    <2>1. LoseStepIf(HasReal(body))
      BY <1>14 DEF ResendRequest
    <2> QED BY <1>14, <1>l, <2>1, PipeResend DEF HasReal
  <1>15. CASE Disconnect
    <2>1. LoseStepIf(\E i \in DOMAIN net : HasReal(net[i]))
      BY <1>15 DEF Disconnect
    <2> QED BY <1>15, <1>l, <2>1, PipeDisconnect
  <1>16. CASE RejectRequest
    <2>1. LoseStepIf(HasReal(Head(net)))
      BY <1>16 DEF RejectRequest
    <2> QED BY <1>16, <1>l, <2>1, PipeReject DEF HasReal
  <1>17. CASE ServerAbort
    <2> DEFINE lost == \/ HasReal(request \o page \o pending)
                       \/ \E i \in DOMAIN net : HasReal(net[i])
    <2>1. LoseStepIf(lost)
      BY <1>17 DEF ServerAbort
    <2>2. ~lost /\ PipeFrom(e) => PipeFrom(e)'
      BY <1>17, PipeAbort
    <2>3. lost \in BOOLEAN
      OBVIOUS
    <2> HIDE DEF lost
    <2> QED BY <1>l, <2>1, <2>2, <2>3
  <1>19. CASE HandlerError
    <2>1. LoseStepIf(HasReal(request \o page \o pending))
      BY <1>19 DEF HandlerError
    <2> QED BY <1>19, <1>l, <2>1, PipeAbort DEF HasReal
  <1>18. CASE Unroutable
    <2>1. /\ spc # "idle" /\ spc' = "idle" /\ request = <<>> /\ UNCHANGED clientVars
          /\ net' = net /\ inbuf' = inbuf /\ pending' = pending /\ page' = page
          /\ InStep(expect)
      BY <1>18 DEF Unroutable, EndRequest, Base, PhaseOK
    <2> QED BY <1>k, <2>1, PipeEndRequest
  <1> QED BY <1>2, <1>3, <1>4, <1>5, <1>6, <1>7, <1>8, <1>9, <1>10, <1>11, <1>12, <1>13,
             <1>14, <1>15, <1>16, <1>17, <1>18, <1>19
       DEF Next, Server, Fault

LEMMA InitPipe == Init => Pipe
  <1> SUFFICES ASSUME Init PROVE Pipe
    OBVIOUS
  <1>1. Len(<<>>) = 0
    BY EmptySeq
  <1>2. Held = <<>>
    BY InitBase, HeldAndFlow DEF Init
  <1>3. Flow = <<>> /\ BufferCursor = Start(1)
    BY <1>1 DEF Init, Flow, BufferCursor
  <1>4. Linked(sent, Start(1), Held) /\ End(Start(1), Held) = Start(1)
    BY <1>2, LinkedEmpty
  <1>5. Chain(sent, Start(1), Flow, BufferCursor)
    BY <1>3, ChainEmpty
  <1> QED BY <1>1, <1>4, <1>5 DEF Init, Pipe, PipeFrom

(* The inductive invariant holds under every set of faults: as long as the *)
(* transport is in step, the chunks between the payload the server has to  *)
(* complete next and the client's buffer are one unbroken run.             *)
THEOREM PipeCorrect == Spec => []UplinkInv
  <1>1. Init => Base /\ Pipe
    BY InitBase, InitPipe
  <1>2. Base /\ Pipe /\ [Next]_vars => Base' /\ Pipe'
    <2> SUFFICES ASSUME Base, Pipe, [Next]_vars PROVE Base' /\ Pipe'
      OBVIOUS
    <2>1. Base'
      BY StepBase
    <2>2. CASE Next
      BY <2>1, <2>2, PipeStep
    <2>3. CASE UNCHANGED vars
      <3>1. Pipe'
        BY <2>3 DEF vars, clientVars, serverVars, Pipe, PipeFrom, Held, Flow, BufferCursor
      <3> QED BY <2>1, <3>1
    <2> QED BY <2>2, <2>3
  <1>3. Base /\ Pipe <=> UplinkInv
    BY DEF Base, UplinkInv
  <1> QED BY <1>1, <1>2, <1>3, PTL DEF Spec

(* The sort of create_deniable_payloads puts the chunks back in the order  *)
(* in which they were cut, and the Final chunk closes exactly one payload. *)
LEMMA InvAssembles == UplinkInv => AssemblesNextPayload
  <1> SUFFICES ASSUME UplinkInv, Assembling, IsFinal(Head(page)), expect # 0
               PROVE  Head(page).id = expect /\ Complete
    BY DEF AssemblesNextPayload
  <1> DEFINE fin == Head(page)
             n == Len(pending)
  <1>1. Base /\ PipeFrom(expect) /\ pending \in Seq(Chunk)
    BY DEF UplinkInv, Base, Pipe, TypeOK
  <1>2. /\ Linked(sent, Start(expect), pending)
        /\ CutAt(sent, End(Start(expect), pending), fin)
        /\ \A i \in 1..n : pending[i].id = expect /\ pending[i].flags = 1 - i
        /\ pending # <<>> => /\ End(Start(expect), pending).id = expect
                             /\ End(Start(expect), pending).off = pending[n].hi
    BY <1>1, AtHeadOfPage
  <1>3. n \in Nat /\ DOMAIN pending = 1..n /\ (pending = <<>> => n = 0)
    BY <1>1, LenProperties, EmptySeq
  <1>4. IsFinal(fin)
    OBVIOUS
  <1> HIDE DEF fin, n
  <1>5. /\ fin.id = End(Start(expect), pending).id
        /\ fin.lo = End(Start(expect), pending).off + 1
        /\ fin.hi = sent[fin.id].len
    BY <1>2, <1>4 DEF CutAt
  <1>6. fin.id = expect
    BY <1>2, <1>5 DEF End, Start
  <1>7. pending = <<>> => fin.lo = 1
    BY <1>5 DEF End, Start
  <1>8. ASSUME NEW i \in 1..n, NEW j \in 1..n PROVE Precedes(pending, i, j) <=> i < j
    BY <1>2, <1>3 DEF Precedes
  <1>9. ASSUME NEW j \in 1..n
        PROVE  /\ (\A i \in 1..n : ~Precedes(pending, i, j)) => pending[j].lo = 1
               /\ (\A i \in 1..n : ~Precedes(pending, j, i)) => fin.lo = pending[j].hi + 1
               /\ \A i \in 1..n : JustBefore(pending, i, j) => pending[j].lo = pending[i].hi + 1
    <2>0. CutAt(sent, IF j = 1 THEN Start(expect) ELSE After(pending[j - 1]), pending[j])
      BY <1>2 DEF Linked, n
    <2>1. ASSUME \A i \in 1..n : ~Precedes(pending, i, j) PROVE pending[j].lo = 1
      <3>1. j = 1
        BY <1>3, <1>8, <2>1
      <3> QED BY <2>0, <3>1 DEF CutAt, Start
    <2>2. ASSUME \A i \in 1..n : ~Precedes(pending, j, i) PROVE fin.lo = pending[j].hi + 1
      <3>1. j = n
        BY <1>3, <1>8, <2>2
      <3>2. pending # <<>>
        BY <1>3
      <3> QED BY <1>2, <1>5, <3>1, <3>2
    <2>3. ASSUME NEW i \in 1..n, JustBefore(pending, i, j)
          PROVE  pending[j].lo = pending[i].hi + 1
      <3>1. i < j /\ \A k \in 1..n : ~(i < k /\ k < j)
        BY <1>3, <1>8, <2>3 DEF JustBefore
      <3>2. j - 1 = i /\ j # 1
        <4>1. i + 1 \in 1..n
          BY <1>3, <3>1
        <4>2. ~(i + 1 < j)
          BY <3>1, <4>1
        <4> QED BY <1>3, <3>1, <4>2
      <3>3. ~IsFinal(pending[i])
        BY <1>1 DEF Base, PhaseOK, AllData, n
      <3>4. pending[j].lo = After(pending[i]).off + 1
        BY <2>0, <3>2 DEF CutAt
      <3> QED BY <3>3, <3>4 DEF After
    <2> QED BY <2>1, <2>2, <2>3
  <1>10. Complete
    BY <1>2, <1>3, <1>5, <1>6, <1>7, <1>9 DEF Complete, IsWholePayload, fin
  <1> QED BY <1>6, <1>10 DEF fin

(* For any number of payloads, accounts, message sizes and faults: while   *)
(* the transport is in step create_deniable_payloads never hands bincode   *)
(* bytes that are not exactly the next payload of the sender.              *)
THEOREM AssemblyCorrect == Spec => []AssemblesNextPayload
  BY PipeCorrect, InvAssembles, PTL

(***************************************************************************)
(* Flushing a buffer that fits in a page.                                  *)
(***************************************************************************)
(* The sender's incoming buffer is at most what one get_values reads. *)
FitsPage == Len(inbuf) <= PageSize

(* While a page is assembled the buffer is empty; after that it holds the  *)
(* unfinished Data chunks that flush_incoming_chunk_buffer put back.       *)
FlushInd ==
    /\ spc = "assemble" => inbuf = <<>>
    /\ spc \in {"requeue", "route", "commit"} => AllData(inbuf)

LEMMA FlushStep == Base /\ FlushInd /\ FitsPage /\ [Next]_vars => FlushInd'
  <1> SUFFICES ASSUME Base, FlushInd, FitsPage, [Next]_vars PROVE FlushInd'
    OBVIOUS
  <1>0. inbuf \in Seq(Chunk) /\ pending \in Seq(Chunk) /\ AllData(pending)
    BY DEF Base, TypeOK, PhaseOK
  <1>s. ASSUME inbuf' = inbuf, spc' = spc PROVE FlushInd'
    BY <1>s DEF FlushInd
  <1>i. ASSUME spc' \in {"idle", "enqueue"} PROVE FlushInd'
    BY <1>i DEF FlushInd
  <1>1. CASE Client \/ UNCHANGED vars
    BY <1>1, <1>s DEF Client, Submit, StartRequest, NextPart, Fill, PutFinal, PutData, PutDummy,
                      Put, SendRequest, ReceiveResponse, vars, serverVars
  <1>2. CASE AcceptRequest \/ EnqueueChunk \/ NoFinal \/ RefuseGarbage \/ RequestDone
    BY <1>2, <1>i DEF AcceptRequest, EnqueueChunk, NoFinal, RefuseGarbage, RequestDone, EndRequest
  <1>3. CASE DequeuePage
    BY <1>3 DEF DequeuePage, FitsPage, FlushInd
  <1>4. CASE HoldData \/ CompletePayload \/ DecodeGarbage
    BY <1>4, <1>s DEF HoldData, CompletePayload, DecodeGarbage
  <1>5. CASE PageDone
    <2>1. inbuf' = <<>> /\ spc' = "requeue"
      BY <1>5 DEF PageDone, FlushInd
    <2> QED BY <2>1, EmptyRealData DEF FlushInd
  <1>6. CASE RequeueChunk
    <2>1. /\ spc = "requeue" /\ spc' = spc /\ pending # <<>>
          /\ inbuf' = Append(inbuf, Head(pending))
      BY <1>6 DEF RequeueChunk
    <2>2. Head(pending) \in Chunk /\ ~IsDummy(Head(pending)) /\ ~IsFinal(Head(pending))
      BY <1>0, <2>1, TailIndex, HeadTailProperties DEF AllData
    <2>3. AllData(inbuf')
      BY <1>0, <2>1, <2>2, DataSequences DEF FlushInd
    <2> QED BY <2>1, <2>3 DEF FlushInd
  <1>7. CASE FlushDone \/ Route
    <2>1. inbuf' = inbuf /\ spc \in {"requeue", "route"} /\ spc' \in {"route", "commit"}
      BY <1>7 DEF FlushDone, Route
    <2> QED BY <2>1 DEF FlushInd
  <1>8. CASE \E i \in 1..Len(done), a \in Accounts : CommitPayload(i, a)
    BY <1>8, <1>s DEF CommitPayload
  <1>9. CASE ClientCrash \/ ResendRequest \/ Disconnect \/ RejectRequest
    BY <1>9, <1>s DEF ClientCrash, ResendRequest, Disconnect, RejectRequest, serverVars
  <1>10. CASE HandlerError \/ ServerAbort \/ Unroutable
    BY <1>10, <1>i DEF HandlerError, ServerAbort, Unroutable, DropAll, EndRequest
  <1> QED BY <1>1, <1>2, <1>3, <1>4, <1>5, <1>6, <1>7, <1>8, <1>9, <1>10
       DEF Next, Server, Fault

(* Under every fault, as long as a page takes in the whole buffer: when    *)
(* flush_incoming_chunk_buffer is done no payload that could have been     *)
(* completed is left behind in the sender's buffer.                        *)
THEOREM FlushCorrect == Spec /\ []FitsPage => []FlushLeavesNoPayload
  <1>1. Init => FlushInd
    BY DEF Init, FlushInd
  <1>2. Base /\ FlushInd => FlushLeavesNoPayload
    <2>1. Base => DOMAIN inbuf = 1..Len(inbuf)
      BY LenProperties DEF Base, TypeOK
    <2> QED BY <2>1 DEF FlushInd, FlushLeavesNoPayload, AllData
  <1> QED BY <1>1, <1>2, AlwaysBase, FlushStep, PTL DEF Spec

(***************************************************************************)
(* Lists of payloads, as done and got are: what they hold, and that what   *)
(* they name (without garbage, 0) is in the order of submission.           *)
(***************************************************************************)
Elems(s) == {s[i] : i \in 1..Len(s)}
Named(s) == Elems(s) \ {0}
NamedRise(s) ==
    \A i, j \in 1..Len(s) : i < j /\ s[i] # 0 /\ s[j] # 0 => s[i] < s[j]

Below(A, B) == \A x \in A, y \in B : x < y

LEMMA AppendIndex ==
    ASSUME NEW S, NEW s \in Seq(S), NEW x \in S, NEW t, t = Append(s, x)
    PROVE  /\ Len(s) \in Nat /\ Len(t) = Len(s) + 1
           /\ \A k \in 1..Len(s) : k \in 1..Len(t) /\ t[k] = s[k]
           /\ Len(s) + 1 \in 1..Len(t) /\ t[Len(s) + 1] = x
           /\ \A k \in 1..Len(t) :
                (k \in 1..Len(s) /\ t[k] = s[k]) \/ (k = Len(s) + 1 /\ t[k] = x)
  <1>1. /\ Len(s) \in Nat /\ Len(t) = Len(s) + 1
        /\ \A k \in 1..Len(s) : t[k] = s[k]
        /\ t[Len(s) + 1] = x
    BY LenProperties, AppendProperties
  <1>2. ASSUME NEW k \in 1..Len(t)
        PROVE  (k \in 1..Len(s) /\ t[k] = s[k]) \/ (k = Len(s) + 1 /\ t[k] = x)
    <2>1. k \in 1..Len(s) \/ k = Len(s) + 1
      BY <1>1
    <2>2. k \in 1..Len(s) => t[k] = s[k]
      BY <1>1
    <2>3. k = Len(s) + 1 => t[k] = x
      BY <1>1
    <2> QED BY <2>1, <2>2, <2>3
  <1>3. \A k \in 1..Len(s) : k \in 1..Len(t)
    BY <1>1
  <1>4. Len(s) + 1 \in 1..Len(t)
    BY <1>1
  <1> QED BY <1>1, <1>2, <1>3, <1>4

LEMMA ElemsAppend ==
    ASSUME NEW s \in Seq(Nat), NEW x \in Nat, NEW t, t = Append(s, x)
    PROVE  Elems(t) = Elems(s) \cup {x}
  <1>1. /\ \A k \in 1..Len(s) : k \in 1..Len(t) /\ t[k] = s[k]
        /\ Len(s) + 1 \in 1..Len(t) /\ t[Len(s) + 1] = x
        /\ \A k \in 1..Len(t) :
             (k \in 1..Len(s) /\ t[k] = s[k]) \/ (k = Len(s) + 1 /\ t[k] = x)
    BY AppendIndex
  <1>2. Elems(t) \subseteq Elems(s) \cup {x}
    BY <1>1 DEF Elems
  <1>3. Elems(s) \subseteq Elems(t)
    BY <1>1 DEF Elems
  <1>4. x \in Elems(t)
    BY <1>1 DEF Elems
  <1> QED BY <1>2, <1>3, <1>4

LEMMA PutAtEnd ==
    ASSUME NEW s \in Seq(Nat), NEW x \in Nat, NamedRise(s), NEW t, t = Append(s, x)
    PROVE  /\ Elems(t) = Elems(s) \cup {x} /\ Named(t) = Named(s) \cup ({x} \ {0})
           /\ x = 0 \/ Below(Named(s), {x}) => NamedRise(t)
  <1>1. /\ Len(s) \in Nat /\ Len(t) = Len(s) + 1
        /\ \A k \in 1..Len(s) : k \in 1..Len(t) /\ t[k] = s[k]
        /\ Len(s) + 1 \in 1..Len(t) /\ t[Len(s) + 1] = x
    BY AppendIndex
  <1>2. \A k \in 1..Len(t) :
          (k \in 1..Len(s) /\ t[k] = s[k]) \/ (k = Len(s) + 1 /\ t[k] = x)
    BY AppendIndex
  <1>3. Elems(t) = Elems(s) \cup {x}
    BY ElemsAppend
  <1>4. ASSUME x = 0 \/ Below(Named(s), {x}) PROVE NamedRise(t)
    <2>1. SUFFICES ASSUME NEW i \in 1..Len(t), NEW j \in 1..Len(t), i < j,
                          t[i] # 0, t[j] # 0
                   PROVE  t[i] < t[j]
      BY DEF NamedRise
    <2>2. i \in 1..Len(s) /\ t[i] = s[i]
      BY <1>1, <1>2, <2>1
    <2>3. CASE j \in 1..Len(s)
      BY <1>1, <2>1, <2>2, <2>3 DEF NamedRise
    <2>4. CASE j = Len(s) + 1
      <3>1. t[j] = x
        BY <1>1, <2>4
      <3>2. s[i] \in Named(s)
        BY <2>1, <2>2 DEF Named, Elems
      <3> QED BY <1>4, <2>1, <2>2, <3>1, <3>2 DEF Below
    <2> QED BY <1>2, <2>3, <2>4
  <1> QED BY <1>3, <1>4 DEF Named

(* Taking an element out of a sequence. *)
LEMMA Removal ==
    ASSUME NEW s \in Seq(Nat), NEW i \in 1..Len(s), NEW r, r = RemoveAtIndex(s, i)
    PROVE  /\ r \in Seq(Nat) /\ Len(r) = Len(s) - 1 /\ Len(s) \in Nat
           /\ \A k \in 1..Len(r) : r[k] = IF k < i THEN s[k] ELSE s[k + 1]
  <1>0. Len(s) \in Nat /\ DOMAIN s = 1..Len(s)
    BY LenProperties
  <1> DEFINE u == SubSeq(s, 1, i - 1)
             v == SubSeq(s, i + 1, Len(s))
  <1>1. /\ u \in Seq(Nat) /\ Len(u) = i - 1 /\ \A k \in 1..(i - 1) : u[k] = s[k]
    <2>1. \A k \in 1..(i - 1) : s[k] \in Nat
      BY <1>0, ElementOfSeq
    <2> QED BY <1>0, <2>1, SubSeqProperties
  <1>2. /\ v \in Seq(Nat) /\ Len(v) = Len(s) - i /\ \A k \in 1..(Len(s) - i) : v[k] = s[i + k]
    <2>1. \A k \in (i + 1)..Len(s) : s[k] \in Nat
      BY <1>0, ElementOfSeq
    <2>2. i + 1 \in Int /\ Len(s) \in Int
      BY <1>0
    <2>3. /\ v \in Seq(Nat) /\ Len(v) = (IF i + 1 <= Len(s) THEN Len(s) - (i + 1) + 1 ELSE 0)
          /\ \A k \in 1..(Len(s) - (i + 1) + 1) : v[k] = s[i + 1 + k - 1]
      BY <2>1, <2>2, SubSeqProperties
    <2>4. Len(s) - (i + 1) + 1 = Len(s) - i
      BY <1>0
    <2>5. Len(v) = Len(s) - i
      <3>1. CASE i + 1 <= Len(s)
        BY <2>3, <2>4, <3>1
      <3>2. CASE ~(i + 1 <= Len(s))
        <4>1. \A n \in Nat : \A m \in 1..n : ~(m + 1 <= n) => n - m = 0
          OBVIOUS
        <4>2. Len(s) - i = 0
          BY <1>0, <3>2, <4>1
        <4> QED BY <2>3, <3>2, <4>2
      <3> QED BY <3>1, <3>2
    <2>6. ASSUME NEW k \in 1..(Len(s) - i) PROVE v[k] = s[i + k]
      <3>1. v[k] = s[i + 1 + k - 1]
        BY <2>3, <2>4, <2>6
      <3>2. i + 1 + k - 1 = i + k
        BY <1>0, <2>6
      <3> QED BY <3>1, <3>2
    <2> QED BY <2>3, <2>5, <2>6
  <1>3. r = u \o v
    BY DEF RemoveAtIndex
  <1> HIDE DEF u, v
  <1>4. /\ r \in Seq(Nat) /\ Len(r) = Len(u) + Len(v)
        /\ \A k \in 1..(Len(u) + Len(v)) : r[k] = IF k <= Len(u) THEN u[k] ELSE v[k - Len(u)]
    <2>1. u \in Seq(Nat) /\ v \in Seq(Nat)
      BY <1>1, <1>2
    <2> QED BY <1>3, <2>1, ConcatProperties
  <1>5. Len(r) = Len(s) - 1
    BY <1>0, <1>1, <1>2, <1>4
  <1>6. ASSUME NEW k \in 1..Len(r) PROVE r[k] = IF k < i THEN s[k] ELSE s[k + 1]
    <2>1. k \in 1..(Len(u) + Len(v)) /\ k \in Nat
      BY <1>0, <1>1, <1>2, <1>5, <1>6
    <2>2. CASE k < i
      BY <1>0, <1>1, <1>4, <2>1, <2>2
    <2>3. CASE ~(k < i)
      <3>1. k - Len(u) \in 1..(Len(s) - i) /\ i + (k - Len(u)) = k + 1
        BY <1>0, <1>1, <1>5, <1>6, <2>3
      <3> QED BY <1>0, <1>1, <1>2, <1>4, <2>1, <2>3, <3>1
    <2> QED BY <2>2, <2>3
  <1> QED BY <1>0, <1>4, <1>5, <1>6

(* A commit takes one payload off the list and leaves the others in order. *)
LEMMA TakeOut ==
    ASSUME NEW s \in Seq(Nat), NamedRise(s), NEW i \in 1..Len(s), NEW r, r = RemoveAtIndex(s, i)
    PROVE  /\ NamedRise(r) /\ Named(r) \subseteq Named(s)
           /\ \A k \in 1..Len(r) : \E m \in 1..Len(s) : m # i /\ r[k] = s[m]
           /\ 0 \notin Elems(s) => Elems(r) = Elems(s) \ {s[i]}
  <1>1. /\ r \in Seq(Nat) /\ Len(r) = Len(s) - 1 /\ Len(s) \in Nat
        /\ \A k \in 1..Len(r) : r[k] = IF k < i THEN s[k] ELSE s[k + 1]
    BY Removal
  <1>2. \A k \in 1..Len(s) : s[k] \in Nat /\ s[k] \in Elems(s)
    BY ElementOfSeq DEF Elems
  <1> DEFINE At(k) == IF k < i THEN k ELSE k + 1
  <1>3. ASSUME NEW k \in 1..Len(r)
        PROVE  At(k) \in 1..Len(s) /\ At(k) # i /\ r[k] = s[At(k)]
    <2>1. CASE k < i
      <3>1. At(k) = k /\ k \in 1..Len(s) /\ k # i
        BY <1>1, <2>1
      <3>2. r[k] = s[k]
        BY <1>1, <2>1
      <3> QED BY <3>1, <3>2
    <2>2. CASE ~(k < i)
      <3>1. At(k) = k + 1 /\ k + 1 \in 1..Len(s) /\ k + 1 # i
        BY <1>1, <2>2, SMTT(30)
      <3>2. r[k] = s[k + 1]
        BY <1>1, <2>2
      <3> QED BY <3>1, <3>2
    <2> QED BY <2>1, <2>2
  <1>4. ASSUME NEW k \in 1..Len(r), NEW j \in 1..Len(r), k < j PROVE At(k) < At(j)
    BY <1>1, <1>4, SMTT(30)
  <1>5. ASSUME NEW m \in 1..Len(s), m # i PROVE \E k \in 1..Len(r) : At(k) = m
    <2>1. CASE m < i
      <3>1. m \in 1..Len(r) /\ At(m) = m
        BY <1>1, <2>1
      <3> QED BY <3>1
    <2>2. CASE ~(m < i)
      <3>1. m - 1 \in 1..Len(r) /\ At(m - 1) = m
        BY <1>1, <1>5, <2>2
      <3> QED BY <3>1
    <2> QED BY <2>1, <2>2
  <1> HIDE DEF At
  <1>6. NamedRise(r)
    <2>1. SUFFICES ASSUME NEW k \in 1..Len(r), NEW j \in 1..Len(r), k < j, r[k] # 0, r[j] # 0
                   PROVE  r[k] < r[j]
      BY DEF NamedRise
    <2>2. At(k) < At(j)
      BY <1>4, <2>1
    <2> QED BY <1>3, <2>1, <2>2 DEF NamedRise
  <1>7. Named(r) \subseteq Named(s)
    BY <1>3 DEF Named, Elems
  <1>8. ASSUME 0 \notin Elems(s), NEW m \in 1..Len(s), m # i PROVE s[m] # s[i]
    <2>1. m < i \/ i < m
      BY <1>1, <1>8
    <2>2. s[m] # 0 /\ s[i] # 0
      BY <1>2, <1>8
    <2>3. s[m] < s[i] \/ s[i] < s[m]
      BY <2>1, <2>2 DEF NamedRise
    <2> QED BY <1>2, <2>3
  <1>9. ASSUME 0 \notin Elems(s), NEW x \in Elems(r) PROVE x \in Elems(s) \ {s[i]}
    <2>1. PICK k \in 1..Len(r) : x = r[k]
      BY <1>9 DEF Elems
    <2>2. At(k) \in 1..Len(s) /\ At(k) # i /\ x = s[At(k)]
      BY <1>3, <2>1
    <2> QED BY <1>8, <1>9, <2>2 DEF Elems
  <1>10. ASSUME NEW x \in Elems(s), x # s[i] PROVE x \in Elems(r)
    <2>1. PICK m \in 1..Len(s) : x = s[m]
      BY <1>10 DEF Elems
    <2>2. PICK k \in 1..Len(r) : At(k) = m
      BY <1>5, <1>10, <2>1
    <2>3. x = r[k]
      BY <1>3, <2>1, <2>2
    <2> QED BY <2>3 DEF Elems
  <1> QED BY <1>3, <1>6, <1>7, <1>9, <1>10

(***************************************************************************)
(* The channel.  Without faults, and while a page takes in the buffer, the *)
(* transport never gets out of step, and expect counts the payloads that   *)
(* were completed: each of them is on the list of the handler or in the    *)
(* outgoing buffer of its account, never in both.                          *)
(***************************************************************************)
Routed ==
    /\ expect # 0 /\ expect <= Len(sent) + 1
    /\ NamedRise(done) /\ Elems(done) \subseteq 1..(expect - 1)
    /\ \A a \in Accounts : Elems(got[a]) \subseteq 1..(expect - 1) \ Elems(done)
    /\ \A id \in 1..(expect - 1) : id \in Elems(done) \cup Elems(got[sent[id].to])

(* In step, the alignment computes what expect is already. *)
LEMMA StaysInStep ==
    ASSUME Base', NEW e, InStep(e), PipeFrom(e)'
    PROVE  expect' = e
  <1>1. CASE Aligned'
    <2>1. /\ cpc' = "idle" /\ net' = <<>> /\ spc' = "idle" /\ inbuf' = <<>>
          /\ page' = <<>> /\ pending' = <<>>
      BY <1>1 DEF Aligned, Base, PhaseOK
    <2>2. Held' = <<>> /\ Flow' = <<>>
      BY <2>1, HeldAndFlowNext
    <2>3. Chain(sent', End(Start(e), Held'), Flow', BufferCursor')
      BY DEF PipeFrom
    <2>4. Start(e) = BufferCursor'
      BY <2>2, <2>3, LinkedEmpty, ChainEmpty
    <2>5. BufferCursor'.id = NextUncut'
      BY DEF BufferCursor, NextUncut, Start
    <2> QED BY <1>1, <2>4, <2>5 DEF InStep, Start
  <1>2. CASE ~Aligned'
    BY <1>2 DEF InStep
  <1> QED BY <1>1, <1>2

(* What a step without faults may do to expect, done and got. *)
LEMMA CleanStep ==
    ASSUME UplinkInv, Base', expect # 0, FitsPage, Faults = {}, Next
    PROVE  \/ /\ expect' = expect /\ done' = done /\ got' = got
              /\ \/ \E len \in Lengths, a \in Accounts : Submit(len, a)
                 \/ sent' = sent
           \/ /\ CompletePayload /\ expect' = expect + 1 /\ expect \in 1..Len(sent)
              /\ done' = Append(done, expect) /\ got' = got /\ sent' = sent
           \/ /\ \E i \in 1..Len(done), a \in Accounts : CommitPayload(i, a)
              /\ expect' = expect /\ sent' = sent
  <1>0. PICK e : e = expect
    OBVIOUS
  <1>1. Base /\ PipeFrom(e) /\ AssemblesNextPayload
    <2>1. Base /\ AssemblesNextPayload
      BY InvAssembles DEF UplinkInv, Base
    <2>2. PipeFrom(expect)
      BY DEF UplinkInv, Pipe
    <2> QED BY <1>0, <2>1, <2>2
  <1>k. ASSUME InStep(expect), PipeFrom(e)' PROVE expect' = expect
    <2>1. InStep(e)
      BY <1>0, <1>k DEF InStep
    <2> QED BY <1>0, <1>k, <2>1, StaysInStep
  <1>2. CASE Client
    <2>1. InStep(expect) /\ done' = done /\ got' = got
      BY <1>2 DEF Client, Submit, StartRequest, NextPart, Fill, PutFinal, PutData, PutDummy,
                  Put, SendRequest, ReceiveResponse, serverVars
    <2>2. \/ \E len \in Lengths, a \in Accounts : Submit(len, a)
          \/ sent' = sent
      BY <1>2 DEF Client, StartRequest, NextPart, Fill, PutFinal, PutData, PutDummy,
                  Put, SendRequest, ReceiveResponse
    <2> QED BY <1>1, <1>2, <1>k, <2>1, <2>2, PipeClient
  <1>3. CASE AcceptRequest \/ EnqueueChunk \/ HoldData \/ RequeueChunk
    <2>1. InStep(expect) /\ done' = done /\ got' = got /\ sent' = sent
      BY <1>3 DEF AcceptRequest, EnqueueChunk, HoldData, RequeueChunk, clientVars
    <2>2. PipeFrom(e)'
      BY <1>1, <1>3, PipeAccept, PipeEnqueue, PipeHold, PipeRequeue
    <2> QED BY <1>k, <2>1, <2>2
  <1>4. CASE NoFinal \/ RequestDone
    <2>1. /\ spc # "idle" /\ spc' = "idle" /\ request = <<>> /\ UNCHANGED clientVars
          /\ net' = net /\ inbuf' = inbuf /\ pending' = pending /\ page' = page
          /\ InStep(expect) /\ done' = done /\ got' = got
      BY <1>1, <1>4 DEF NoFinal, RequestDone, EndRequest, Base, PhaseOK
    <2>2. PipeFrom(e)'
      BY <1>1, <2>1, PipeEndRequest
    <2> QED BY <1>k, <2>1, <2>2 DEF clientVars
  <1>5. CASE DequeuePage
    <2>0. inbuf \in Seq(Chunk) /\ PageSize \in Nat /\ Len(inbuf) \in Nat
      BY <1>1, LenProperties, UplinkAssumption DEF Base, TypeOK
    <2>1. ~(Len(inbuf) > PageSize)
      BY <2>0 DEF FitsPage
    <2>2. InStep(expect) /\ done' = done /\ got' = got /\ sent' = sent
      BY <1>5, <2>1 DEF DequeuePage, LoseStepIf, InStep, clientVars
    <2> QED BY <1>1, <1>5, <1>k, <2>1, <2>2, PipeDequeue
  <1>6. CASE CompletePayload
    <2>1. Head(page).id = e /\ PipeFrom(e + 1)'
      BY <1>1, <1>6, PipeComplete
    <2>2. PICK f : f = e + 1
      OBVIOUS
    <2>3. InStep(f)
      BY <1>0, <1>6, <2>1, <2>2 DEF CompletePayload, InStep
    <2>4. PipeFrom(f)'
      BY <2>1, <2>2 DEF PipeFrom
    <2>5. expect' = expect + 1
      BY <1>0, <2>2, <2>3, <2>4, StaysInStep
    <2>6. done' = Append(done, expect) /\ got' = got /\ sent' = sent
      BY <1>0, <1>6, <2>1 DEF CompletePayload, clientVars
    <2>7. expect \in 1..Len(sent)
      <3>1. CutAt(sent, End(Start(e), pending), Head(page))
        BY <1>1, <1>6, AtHeadOfPage DEF CompletePayload
      <3> QED BY <1>0, <2>1, <3>1 DEF CutAt
    <2> QED BY <1>6, <2>5, <2>6, <2>7
  <1>7. CASE RefuseGarbage \/ DecodeGarbage
    BY <1>1, <1>7 DEF AssemblesNextPayload, RefuseGarbage, DecodeGarbage
  <1>8. CASE PageDone \/ FlushDone \/ Route
    <2>1. InStep(expect) /\ done' = done /\ got' = got /\ sent' = sent
      BY <1>8 DEF PageDone, FlushDone, Route, clientVars
    <2> QED BY <1>1, <1>8, <1>k, <2>1, PipePageDone
  <1>9. ASSUME NEW i \in 1..Len(done), NEW a \in Accounts, CommitPayload(i, a)
        PROVE  expect' = expect /\ sent' = sent
    <2>1. /\ spc # "idle" /\ spc' \notin {"idle", "assemble"} /\ UNCHANGED clientVars
          /\ net' = net /\ request' = request /\ inbuf' = inbuf
          /\ pending' = pending /\ page' = page /\ InStep(expect)
      BY <1>9 DEF CommitPayload
    <2>2. PipeFrom(e)'
      BY <1>1, <2>1, PipeSameChunks
    <2> QED BY <1>k, <2>1, <2>2 DEF clientVars
  <1>10. ~Fault
    BY DEF Fault, ClientCrash, ResendRequest, Disconnect, RejectRequest, HandlerError,
           ServerAbort, Unroutable
  <1> QED BY <1>2, <1>3, <1>4, <1>5, <1>6, <1>7, <1>8, <1>9, <1>10 DEF Next, Server

(* What one commit does: payload done[i] leaves the list for account a. *)
LEMMA CommitStep ==
    ASSUME TypeOK, Routed, NEW i \in 1..Len(done), NEW a \in Accounts, CommitPayload(i, a)
    PROVE  /\ done[i] \in Elems(done) /\ sent[done[i]].to = a
           /\ NamedRise(done') /\ Elems(done') = Elems(done) \ {done[i]}
           /\ got' = [got EXCEPT ![a] = Append(got[a], done[i])]
           /\ Elems(got'[a]) = Elems(got[a]) \cup {done[i]}
           /\ \A b \in Accounts : b # a => got'[b] = got[b]
  <1>1. done \in Seq(Nat) /\ got \in [Accounts -> Seq(Nat)] /\ got[a] \in Seq(Nat)
    BY DEF TypeOK
  <1>2. done[i] \in Elems(done) /\ done[i] \in Nat
    BY <1>1, ElementOfSeq DEF Elems
  <1>3. done[i] # 0 /\ sent[done[i]].to = a
    <2>1. done[i] # 0
      BY <1>2 DEF Routed
    <2> QED BY <2>1 DEF CommitPayload, GoesTo
  <1>4. /\ done' = RemoveAtIndex(done, i)
        /\ got' = [got EXCEPT ![a] = Append(got[a], done[i])]
    BY DEF CommitPayload
  <1>5. NamedRise(done') /\ Elems(done') = Elems(done) \ {done[i]}
    <2>1. NamedRise(done) /\ 0 \notin Elems(done)
      BY DEF Routed
    <2>2. PICK r : r = done'
      OBVIOUS
    <2>3. r = RemoveAtIndex(done, i)
      BY <1>4, <2>2
    <2>4. NamedRise(r) /\ Elems(r) = Elems(done) \ {done[i]}
      BY <1>1, <2>1, <2>3, TakeOut
    <2> QED BY <2>2, <2>4
  <1>6. got'[a] = Append(got[a], done[i]) /\ \A b \in Accounts : b # a => got'[b] = got[b]
    BY <1>1, <1>4
  <1>7. Elems(got'[a]) = Elems(got[a]) \cup {done[i]}
    BY <1>1, <1>2, <1>6, ElemsAppend
  <1> QED BY <1>2, <1>3, <1>4, <1>5, <1>6, <1>7

LEMMA RoutedStep ==
    ASSUME UplinkInv, Base', Routed, FitsPage, Faults = {}, Next
    PROVE  Routed'
  <1>0. /\ TypeOK /\ sent \in Seq(Payload) /\ done \in Seq(Nat) /\ expect \in Nat \ {0}
        /\ got \in [Accounts -> Seq(Nat)] /\ Len(sent) \in Nat
        /\ expect <= Len(sent) + 1
    BY LenProperties DEF UplinkInv, TypeOK, Payload, Routed
  <1>a. \A id \in 1..(expect - 1) : sent[id].to \in Accounts
    <2>1. \A id \in 1..(expect - 1) : id \in 1..Len(sent)
      BY <1>0
    <2>2. \A id \in 1..(expect - 1) : sent[id] \in Payload
      BY <1>0, <2>1, ElementOfSeq
    <2> QED BY <2>2 DEF Payload
  <1>1. ASSUME expect' = expect, done' = done, got' = got, Len(sent') \in Nat,
               Len(sent) <= Len(sent'), \A id \in 1..Len(sent) : sent'[id] = sent[id]
        PROVE  Routed'
    <2>0. \A id \in 1..(expect - 1) : id \in 1..Len(sent)
      BY <1>0
    <2>1. \A id \in 1..(expect - 1) : sent'[id] = sent[id]
      BY <1>1, <2>0
    <2>2. expect' <= Len(sent') + 1
      BY <1>0, <1>1
    <2>3. \A id \in 1..(expect' - 1) : id \in Elems(done') \cup Elems(got'[sent'[id].to])
      BY <1>1, <2>1 DEF Routed
    <2> QED BY <1>1, <2>2, <2>3 DEF Routed
  <1>2. ASSUME NEW len \in Lengths, NEW a \in Accounts, Submit(len, a),
               expect' = expect, done' = done, got' = got
        PROVE  Routed'
    <2>1. /\ Len(sent') = Len(sent) + 1
          /\ \A id \in 1..Len(sent) : sent'[id] = sent[id]
      <3>1. [len |-> len, to |-> a] \in Payload
        BY DEF Payload
      <3> QED BY <1>0, <1>2, <3>1, AppendProperties DEF Submit
    <2> QED BY <1>0, <1>1, <1>2, <2>1
  <1>3. ASSUME expect' = expect + 1, expect \in 1..Len(sent),
               done' = Append(done, expect), got' = got, sent' = sent
        PROVE  Routed'
    <2>1. expect' # 0 /\ expect' <= Len(sent') + 1 /\ 1..(expect' - 1) = 1..(expect - 1) \cup {expect}
      BY <1>0, <1>3
    <2>2. NamedRise(done) /\ Below(Named(done), {expect})
      BY <1>0 DEF Routed, Below, Named
    <2>3. NamedRise(done') /\ Elems(done') = Elems(done) \cup {expect}
      <3>1. expect \in Nat
        BY <1>0
      <3> QED BY <1>0, <1>3, <2>2, <3>1, PutAtEnd
    <2>4. expect \notin 1..(expect - 1)
      BY <1>0
    <2>5. \A b \in Accounts : Elems(got'[b]) \subseteq 1..(expect' - 1) \ Elems(done')
      BY <1>3, <2>1, <2>3, <2>4 DEF Routed
    <2>6. \A id \in 1..(expect' - 1) : id \in Elems(done') \cup Elems(got'[sent'[id].to])
      BY <1>3, <2>1, <2>3 DEF Routed
    <2>7. Elems(done') \subseteq 1..(expect' - 1)
      BY <2>1, <2>3 DEF Routed
    <2> QED BY <2>1, <2>3, <2>5, <2>6, <2>7 DEF Routed
  <1>4. ASSUME NEW i \in 1..Len(done), NEW a \in Accounts, CommitPayload(i, a),
               expect' = expect, sent' = sent
        PROVE  Routed'
    <2>1. /\ done[i] \in Elems(done) /\ sent[done[i]].to = a
          /\ NamedRise(done') /\ Elems(done') = Elems(done) \ {done[i]}
          /\ Elems(got'[a]) = Elems(got[a]) \cup {done[i]}
          /\ \A b \in Accounts : b # a => got'[b] = got[b]
      BY <1>0, <1>4, CommitStep
    <2>2. ASSUME NEW b \in Accounts
          PROVE  Elems(got'[b]) \subseteq 1..(expect - 1) \ Elems(done')
      BY <2>1 DEF Routed
    <2>3. ASSUME NEW id \in 1..(expect - 1)
          PROVE  id \in Elems(done') \cup Elems(got'[sent[id].to])
      <3>1. sent[id].to \in Accounts /\ id \in Elems(done) \cup Elems(got[sent[id].to])
        BY <1>a DEF Routed
      <3>2. CASE id = done[i]
        BY <2>1, <3>2
      <3>3. CASE id # done[i]
        BY <2>1, <3>1, <3>3
      <3> QED BY <3>2, <3>3
    <2>4. Elems(done') \subseteq 1..(expect - 1)
      BY <2>1 DEF Routed
    <2> QED BY <1>0, <1>4, <2>1, <2>2, <2>3, <2>4 DEF Routed
  <1>5. ASSUME sent' = sent, expect' = expect, done' = done, got' = got PROVE Routed'
    BY <1>5 DEF Routed
  <1>6. expect # 0
    BY <1>0
  <1> QED BY <1>2, <1>3, <1>4, <1>5, <1>6, CleanStep

LEMMA RoutedAtStart == Init => Routed
  <1> SUFFICES ASSUME Init PROVE Routed
    OBVIOUS
  <1>1. Elems(<<>>) = {} /\ NamedRise(<<>>) /\ Len(<<>>) = 0
    BY EmptySeq DEF Elems, NamedRise
  <1> QED BY <1>1 DEF Init, Routed

(* A step without faults is a step of the channel. *)
LEMMA StepChannel ==
    ASSUME UplinkInv, Base', Routed, FitsPage, Faults = {}, [Next]_vars
    PROVE  [Channel!Next]_(Channel!channelVars)
  <1>0. /\ TypeOK /\ expect \in Nat \ {0} /\ expect <= Len(sent) + 1 /\ sent \in Seq(Payload)
        /\ Len(sent) \in Nat /\ DOMAIN sent = 1..Len(sent) /\ Len(done) \in Nat
        /\ got \in [Accounts -> Seq(Nat)] /\ done \in Seq(Nat)
    BY LenProperties DEF UplinkInv, TypeOK, Payload, Routed
  <1>o. \A a \in Accounts : Channel!Out(a) = Elems(got[a])
    <2>1. \A a \in Accounts : DOMAIN got[a] = 1..Len(got[a])
      BY <1>0, LenProperties
    <2> QED BY <2>1 DEF Channel!Out, Elems
  <1>1. CASE UNCHANGED vars
    BY <1>1 DEF vars, clientVars, serverVars, Channel!channelVars
  <1>2. ASSUME NEW len \in Lengths, NEW a \in Accounts, Submit(len, a), got' = got
        PROVE  Channel!Submit(len, a)
    BY <1>2 DEF Submit, Channel!Submit
  <1>3. ASSUME NEW i \in 1..Len(done), NEW a \in Accounts, CommitPayload(i, a), sent' = sent
        PROVE  done[i] \in DOMAIN sent /\ Channel!Deliver(done[i], a)
    <2>1. /\ done[i] \in Elems(done) /\ sent[done[i]].to = a
          /\ got' = [got EXCEPT ![a] = Append(got[a], done[i])]
      BY <1>0, <1>3, CommitStep
    <2>2. done[i] \in 1..(expect - 1) /\ done[i] \in DOMAIN sent
      <3>1. done[i] \in 1..(expect - 1)
        BY <2>1 DEF Routed
      <3> QED BY <1>0, <3>1
    <2>3. done[i] \notin Channel!Out(a)
      BY <1>o, <2>1 DEF Routed
    <2>4. ASSUME NEW j \in 1..(done[i] - 1), sent[j].to = a PROVE j \in Channel!Out(a)
      <3>1. j \in 1..(expect - 1) /\ j < done[i] /\ j # 0
        BY <1>0, <2>2
      <3>2. j \notin Elems(done)
        <4>1. SUFFICES ASSUME NEW k \in 1..Len(done), done[k] = j PROVE FALSE
          BY DEF Elems
        <4>2. ~(i < k) /\ k # i
          <5>1. done[i] \in Nat \ {0} /\ done[k] \in Nat \ {0} /\ done[k] < done[i]
            BY <1>0, <2>2, <3>1, <4>1, SMTT(30)
          <5>2. NamedRise(done)
            BY DEF Routed
          <5>3. i < k => done[i] < done[k]
            BY <1>3, <4>1, <5>1, <5>2 DEF NamedRise
          <5> QED BY <5>1, <5>3
        <4>3. k \in 1..(i - 1)
          BY <1>0, <4>2
        <4>4. ~GoesTo(done[k], a)
          BY <1>3, <4>3 DEF CommitPayload
        <4> QED BY <2>4, <3>1, <4>1, <4>4 DEF GoesTo
      <3> QED BY <1>o, <2>4, <3>1, <3>2 DEF Routed
    <2> QED BY <1>3, <2>1, <2>2, <2>3, <2>4 DEF Channel!Deliver, Channel!IsNextFor
  <1>4. CASE Next
    <2>1. CASE \E len \in Lengths, a \in Accounts : Submit(len, a) /\ got' = got
      BY <1>2, <2>1 DEF Channel!Next
    <2>2. CASE sent' = sent /\ got' = got
      BY <2>2 DEF Channel!channelVars
    <2>3. CASE \E i \in 1..Len(done), a \in Accounts : CommitPayload(i, a) /\ sent' = sent
      BY <1>3, <2>3 DEF Channel!Next
    <2>4. expect # 0
      BY <1>0
    <2> QED BY <1>4, <2>1, <2>2, <2>3, <2>4, CleanStep
  <1> QED BY <1>1, <1>4

LEMMA InitChannel == Init => Channel!Init
  BY DEF Init, Channel!Init

(* Without faults, and while a page takes in the sender's buffer, the      *)
(* uplink is a DeniableChannel that never fails: for any number of         *)
(* payloads, accounts, lengths and message sizes, handle_receiving_chunks  *)
(* puts each payload in the outgoing buffer of its account whole, once and *)
(* in order.                                                               *)
THEOREM UplinkRefines ==
    ASSUME Faults = {}
    PROVE  Spec /\ []FitsPage => ImplementsChannel
  <1>1. UplinkInv /\ UplinkInv' /\ Routed /\ FitsPage /\ [Next]_vars => Routed'
    <2> SUFFICES ASSUME UplinkInv, UplinkInv', Routed, FitsPage, [Next]_vars PROVE Routed'
      OBVIOUS
    <2>0. Base'
      BY DEF UplinkInv, Base
    <2>1. CASE Next
      BY <2>0, <2>1, RoutedStep
    <2>2. CASE UNCHANGED vars
      BY <2>2 DEF vars, clientVars, serverVars, Routed
    <2> QED BY <2>1, <2>2
  <1>2. UplinkInv /\ UplinkInv' /\ Routed /\ FitsPage /\ [Next]_vars
           => [Channel!Next]_(Channel!channelVars)
    <2>1. UplinkInv' => Base'
      BY DEF UplinkInv, Base
    <2> QED BY <2>1, StepChannel
  <1>3. Spec => Channel!Init
    BY InitChannel DEF Spec
  <1>4. Spec /\ []FitsPage => [][Channel!Next]_(Channel!channelVars)
    BY <1>1, <1>2, PipeCorrect, RoutedAtStart, PTL DEF Spec
  <1> QED BY <1>3, <1>4 DEF ImplementsChannel, Channel!Spec

(***************************************************************************)
(* Losses.  No fault but a second send of a request can change the order   *)
(* of the Final chunks on their way, so whatever else is lost or garbled,  *)
(* payloads are completed and routed in the order they were cut up.        *)
(***************************************************************************)
Finals(s) == {s[i].id : i \in {k \in 1..Len(s) : IsFinal(s[k])}}
FinalsRise(s) ==
    \A i, j \in 1..Len(s) : i < j /\ IsFinal(s[i]) /\ IsFinal(s[j]) => s[i].id < s[j].id

(* The payloads the client has cut up entirely, and the Final chunks that  *)
(* are on their way.                                                       *)
CutUp == 1..(Len(sent) - Len(buffer))
OnTheWay == Finals(page) \cup Finals(inbuf) \cup Finals(Flow)

Ordered ==
    /\ Len(net) <= 1 /\ (net # <<>> => spc = "idle")
    /\ FinalsRise(page) /\ FinalsRise(inbuf) /\ FinalsRise(Flow)
    /\ Below(Finals(page), Finals(inbuf) \cup Finals(Flow))
    /\ Below(Finals(inbuf), Finals(Flow))
    /\ OnTheWay \subseteq CutUp
    /\ NamedRise(done) /\ Below(Named(done), OnTheWay) /\ Named(done) \subseteq CutUp
    /\ \A a \in Accounts :
         /\ NamedRise(got[a]) /\ Below(Named(got[a]), OnTheWay) /\ Named(got[a]) \subseteq CutUp
         /\ \A x \in Named(got[a]), y \in Named(done) : sent[y].to = a => x < y

LEMMA NoFinals ==
    /\ Finals(<<>>) = {} /\ FinalsRise(<<>>) /\ Named(<<>>) = {} /\ NamedRise(<<>>)
  BY EmptySeq DEF Finals, FinalsRise, Named, NamedRise, Elems

LEMMA FinalsAppend ==
    ASSUME NEW s \in Seq(Chunk), NEW c \in Chunk, FinalsRise(s)
    PROVE  /\ ~IsFinal(c) => Finals(Append(s, c)) = Finals(s) /\ FinalsRise(Append(s, c))
           /\ IsFinal(c) => Finals(Append(s, c)) = Finals(s) \cup {c.id}
           /\ IsFinal(c) /\ Below(Finals(s), {c.id}) => FinalsRise(Append(s, c))
  <1>0. PICK t : t = Append(s, c)
    OBVIOUS
  <1>1. /\ Len(s) \in Nat /\ Len(t) = Len(s) + 1
        /\ \A k \in 1..Len(s) : k \in 1..Len(t) /\ t[k] = s[k]
        /\ Len(s) + 1 \in 1..Len(t) /\ t[Len(s) + 1] = c
    BY <1>0, AppendIndex
  <1>2. \A k \in 1..Len(t) :
          (k \in 1..Len(s) /\ t[k] = s[k]) \/ (k = Len(s) + 1 /\ t[k] = c)
    BY <1>0, AppendIndex
  <1>5. Finals(s) \subseteq Finals(t)
    BY <1>1 DEF Finals
  <1>6. ~IsFinal(c) => Finals(t) \subseteq Finals(s)
    BY <1>2 DEF Finals
  <1>7. Finals(t) \subseteq Finals(s) \cup {c.id}
    BY <1>2 DEF Finals
  <1>8. IsFinal(c) => c.id \in Finals(t)
    BY <1>1 DEF Finals
  <1>9. ASSUME ~IsFinal(c) \/ Below(Finals(s), {c.id}) PROVE FinalsRise(t)
    <2>1. SUFFICES ASSUME NEW i \in 1..Len(t), NEW j \in 1..Len(t), i < j,
                          IsFinal(t[i]), IsFinal(t[j])
                   PROVE  t[i].id < t[j].id
      BY DEF FinalsRise
    <2>2. i \in 1..Len(s) /\ t[i] = s[i]
      BY <1>1, <1>2, <2>1
    <2>3. CASE j \in 1..Len(s)
      BY <1>1, <2>1, <2>2, <2>3 DEF FinalsRise
    <2>4. CASE j = Len(s) + 1
      <3>1. t[j] = c
        BY <1>1, <2>4
      <3>2. s[i].id \in Finals(s)
        BY <2>1, <2>2 DEF Finals
      <3> QED BY <1>9, <2>1, <2>2, <3>1, <3>2 DEF Below
    <2> QED BY <1>2, <2>3, <2>4
  <1> QED BY <1>0, <1>5, <1>6, <1>7, <1>8, <1>9

LEMMA FinalsTail ==
    ASSUME NEW s \in Seq(Chunk), s # <<>>, FinalsRise(s)
    PROVE  /\ FinalsRise(Tail(s)) /\ Finals(Tail(s)) \subseteq Finals(s)
           /\ IsFinal(Head(s)) => /\ Head(s).id \in Finals(s)
                                  /\ Below({Head(s).id}, Finals(Tail(s)))
  <1> DEFINE t == Tail(s)
  <1>1. /\ Len(s) \in Nat \ {0} /\ Head(s) = s[1] /\ Len(t) = Len(s) - 1
        /\ \A i \in 1..(Len(s) - 1) : t[i] = s[i + 1]
    BY TailIndex
  <1> HIDE DEF t
  <1>2. ASSUME NEW i \in 1..Len(t)
        PROVE  i + 1 \in 1..Len(s) /\ t[i] = s[i + 1] /\ 1 < i + 1
    BY <1>1
  <1>3. Finals(t) \subseteq Finals(s)
    BY <1>2 DEF Finals
  <1>4. FinalsRise(t)
    <2>1. SUFFICES ASSUME NEW i \in 1..Len(t), NEW j \in 1..Len(t), i < j,
                          IsFinal(t[i]), IsFinal(t[j])
                   PROVE  t[i].id < t[j].id
      BY DEF FinalsRise
    <2>2. i + 1 < j + 1
      BY <1>1, <2>1
    <2> QED BY <1>2, <2>1, <2>2 DEF FinalsRise
  <1>5. ASSUME IsFinal(Head(s)) PROVE Head(s).id \in Finals(s) /\ Below({Head(s).id}, Finals(t))
    <2>1. 1 \in 1..Len(s)
      BY <1>1
    <2>2. Head(s).id \in Finals(s)
      BY <1>1, <1>5, <2>1 DEF Finals
    <2>3. ASSUME NEW y \in Finals(t) PROVE Head(s).id < y
      <3>1. PICK i \in 1..Len(t) : IsFinal(t[i]) /\ y = t[i].id
        BY <2>3 DEF Finals
      <3> QED BY <1>1, <1>2, <1>5, <2>1, <3>1 DEF FinalsRise
    <2> QED BY <2>2, <2>3 DEF Below
  <1> QED BY <1>3, <1>4, <1>5 DEF t

(* Cutting a buffer in two where a page ends. *)
LEMMA FinalsSplit ==
    ASSUME NEW s \in Seq(Chunk), NEW n \in Nat, n <= Len(s), FinalsRise(s),
           NEW u, u = SubSeq(s, 1, n), NEW v, v = SubSeq(s, n + 1, Len(s))
    PROVE  /\ FinalsRise(u) /\ FinalsRise(v) /\ Below(Finals(u), Finals(v))
           /\ Finals(u) \subseteq Finals(s) /\ Finals(v) \subseteq Finals(s)
  <1>0. Len(s) \in Nat /\ \A k \in 1..Len(s) : s[k] \in Chunk
    BY LenProperties, ElementOfSeq
  <1>1. Len(u) = n /\ \A i \in 1..n : u[i] = s[i]
    <2>1. \A k \in 1..n : s[k] \in Chunk
      BY <1>0
    <2>2. /\ Len(u) = (IF 1 <= n THEN n - 1 + 1 ELSE 0)
          /\ \A k \in 1..(n - 1 + 1) : u[k] = s[1 + k - 1]
      BY <2>1, SubSeqProperties
    <2> QED BY <2>2
  <1>2. Len(v) = Len(s) - n /\ \A i \in 1..(Len(s) - n) : v[i] = s[n + i]
    <2>1. \A k \in (n + 1)..Len(s) : s[k] \in Chunk
      BY <1>0
    <2>2. /\ Len(v) = (IF n + 1 <= Len(s) THEN Len(s) - (n + 1) + 1 ELSE 0)
          /\ \A k \in 1..(Len(s) - (n + 1) + 1) : v[k] = s[n + 1 + k - 1]
      BY <1>0, <2>1, SubSeqProperties
    <2>3. Len(s) - (n + 1) + 1 = Len(s) - n /\ (~(n + 1 <= Len(s)) => Len(s) - n = 0)
      BY <1>0
    <2>4. Len(v) = Len(s) - n
      BY <2>2, <2>3
    <2>5. ASSUME NEW k \in 1..(Len(s) - n) PROVE v[k] = s[n + k]
      <3>1. n + 1 + k - 1 = n + k
        BY <1>0, <2>5
      <3> QED BY <2>2, <2>3, <2>5, <3>1
    <2> QED BY <2>4, <2>5
  <1>3. ASSUME NEW i \in 1..Len(u) PROVE i \in 1..Len(s) /\ u[i] = s[i] /\ i <= n
    BY <1>0, <1>1
  <1>4. ASSUME NEW i \in 1..Len(v) PROVE n + i \in 1..Len(s) /\ v[i] = s[n + i] /\ n < n + i
    BY <1>0, <1>2
  <1>5. Finals(u) \subseteq Finals(s) /\ Finals(v) \subseteq Finals(s)
    BY <1>3, <1>4 DEF Finals
  <1>6. FinalsRise(u)
    BY <1>3 DEF FinalsRise
  <1>7. FinalsRise(v)
    <2>1. SUFFICES ASSUME NEW i \in 1..Len(v), NEW j \in 1..Len(v), i < j,
                          IsFinal(v[i]), IsFinal(v[j])
                   PROVE  v[i].id < v[j].id
      BY DEF FinalsRise
    <2>2. n + i < n + j
      BY <1>0, <1>2, <2>1
    <2> QED BY <1>4, <2>1, <2>2 DEF FinalsRise
  <1>8. ASSUME NEW x \in Finals(u), NEW y \in Finals(v) PROVE x < y
    <2>1. PICK i \in 1..Len(u) : IsFinal(u[i]) /\ x = u[i].id
      BY <1>8 DEF Finals
    <2>2. PICK j \in 1..Len(v) : IsFinal(v[j]) /\ y = v[j].id
      BY <1>8 DEF Finals
    <2>3. i < n + j
      BY <1>0, <1>1, <1>2, <1>3, <2>1, <2>2
    <2> QED BY <1>3, <1>4, <2>1, <2>2, <2>3 DEF FinalsRise
  <1> QED BY <1>5, <1>6, <1>7, <1>8 DEF Below

(* Losing Final chunks or payloads, or cutting up more, keeps the order. *)
LEMMA OrderedLoss ==
    ASSUME Base, Base', Ordered,
           Len(net') <= 1, net' # <<>> => spc' = "idle",
           FinalsRise(page'), FinalsRise(inbuf'), FinalsRise(Flow'),
           Finals(page') \subseteq Finals(page), Finals(inbuf') \subseteq Finals(inbuf),
           Finals(Flow') \subseteq Finals(Flow),
           NamedRise(done'), Named(done') \subseteq Named(done), got' = got,
           CutUp \subseteq CutUp', \A y \in CutUp : sent'[y] = sent[y]
    PROVE  Ordered'
  <1>1. OnTheWay' \subseteq OnTheWay
    BY DEF OnTheWay
  <1>2. OnTheWay' \subseteq CutUp' /\ Named(done') \subseteq CutUp'
    BY <1>1 DEF Ordered
  <1>3. Below(Named(done'), OnTheWay')
    BY <1>1 DEF Ordered, Below
  <1>4. /\ Below(Finals(page'), Finals(inbuf') \cup Finals(Flow'))
        /\ Below(Finals(inbuf'), Finals(Flow'))
    BY DEF Ordered, Below
  <1>5. ASSUME NEW a \in Accounts
        PROVE  /\ NamedRise(got'[a]) /\ Below(Named(got'[a]), OnTheWay')
               /\ Named(got'[a]) \subseteq CutUp'
               /\ \A x \in Named(got'[a]), y \in Named(done') : sent'[y].to = a => x < y
    BY <1>1 DEF Ordered, Below
  <1> QED BY <1>2, <1>3, <1>4, <1>5 DEF Ordered

LEMMA OrderedClient ==
    ASSUME Base, Base', Ordered, Client
    PROVE  Ordered'
  <1>0. /\ page \in Seq(Chunk) /\ inbuf \in Seq(Chunk) /\ Flow \in Seq(Chunk)
        /\ sent \in Seq(Payload) /\ buffer \in Seq(Row) /\ net \in Seq(Seq(Chunk))
        /\ body \in Seq(Chunk) /\ part \in Seq(Chunk)
        /\ Len(sent) \in Nat /\ Len(buffer) \in Nat /\ Len(buffer) <= Len(sent)
    BY HeldAndFlow, LenProperties DEF Base, TypeOK, BufferOK, Payload, Row
  <1>1. page' = page /\ inbuf' = inbuf /\ done' = done /\ got' = got /\ spc' = spc
    BY DEF Client, Submit, StartRequest, NextPart, Fill, PutFinal, PutData, PutDummy,
           Put, SendRequest, ReceiveResponse, serverVars
  <1>2. ASSUME Len(net') <= 1, net' # <<>> => spc = "idle", FinalsRise(Flow'),
               Finals(Flow') \subseteq Finals(Flow),
               CutUp \subseteq CutUp', \A y \in CutUp : sent'[y] = sent[y]
        PROVE  Ordered'
    BY <1>1, <1>2, OrderedLoss DEF Ordered
  <1>3. ASSUME net' = net, FinalsRise(Flow'), Finals(Flow') \subseteq Finals(Flow),
               sent' = sent, Len(buffer') = Len(buffer)
        PROVE  Ordered'
    <2>1. CutUp' = CutUp
      BY <1>3 DEF CutUp
    <2> QED BY <1>2, <1>3, <2>1 DEF Ordered
  <1>4. ASSUME NEW len \in Lengths, NEW a \in Accounts, Submit(len, a) PROVE Ordered'
    <2>1. /\ Len(sent') = Len(sent) + 1 /\ Len(buffer') = Len(buffer) + 1
          /\ \A y \in 1..Len(sent) : sent'[y] = sent[y]
      <3>1. [len |-> len, to |-> a] \in Payload
        BY DEF Payload
      <3>2. [id |-> Len(sent) + 1, off |-> 0, count |-> 0] \in Row
        BY <1>0 DEF Row
      <3>3. /\ sent' = Append(sent, [len |-> len, to |-> a])
            /\ buffer' = Append(buffer, [id |-> Len(sent) + 1, off |-> 0, count |-> 0])
        BY <1>4 DEF Submit
      <3>4. /\ Len(sent') = Len(sent) + 1 /\ \A y \in 1..Len(sent) : sent'[y] = sent[y]
        BY <1>0, <3>1, <3>3, AppendProperties
      <3>5. Len(buffer') = Len(buffer) + 1
        BY <1>0, <3>2, <3>3, AppendProperties
      <3> QED BY <3>4, <3>5
    <2>2. CutUp' = CutUp /\ \A y \in CutUp : sent'[y] = sent[y]
      BY <1>0, <2>1 DEF CutUp
    <2>3. net' = net /\ Flow' = Flow
      BY <1>1, <1>4 DEF Submit, Flow, serverVars
    <2> QED BY <1>2, <2>2, <2>3 DEF Ordered
  <1>5. ASSUME NEW b \in Budgets, StartRequest(b) PROVE Ordered'
    <2>1. Flow' = <<>> /\ net' = net /\ sent' = sent /\ buffer' = buffer
      <3>1. /\ cpc' = "filling" /\ body' = <<>> /\ part' = <<>>
            /\ net' = net /\ sent' = sent /\ buffer' = buffer
        BY <1>5 DEF StartRequest
      <3>2. <<>> \o <<>> = <<>>
        BY EmptySeq, ConcatEmptySeq
      <3> QED BY <3>1, <3>2, HeldAndFlowNext
    <2> QED BY <1>3, <2>1, NoFinals
  <1>6. ASSUME NEW c \in Chunk, Put(c), cpc = "filling"
        PROVE  Flow' = Append(Flow, c) /\ net' = net /\ sent' = sent
    <2>1. /\ part' = Append(part, c) /\ cpc' = "filling" /\ body' = body /\ sent' = sent
          /\ net' = net
      BY <1>6 DEF Put
    <2>2. Flow = body \o part /\ Flow' = body \o Append(part, c)
      BY <1>6, <2>1, HeldAndFlow, HeldAndFlowNext
    <2>3. <<c>> \in Seq(Chunk) /\ body \o part \in Seq(Chunk)
      BY <1>0, <2>2, SeqDef
    <2>4. Append(part, c) = part \o <<c>> /\ Append(body \o part, c) = (body \o part) \o <<c>>
      BY <1>0, <2>3, AppendIsConcat
    <2>5. body \o (part \o <<c>>) = (body \o part) \o <<c>>
      BY <1>0, <2>3, ConcatAssociative, SMTT(30)
    <2> QED BY <2>1, <2>2, <2>4, <2>5
  <1>7. CASE PutDummy \/ PutData
    <2>1. PICK c \in Chunk : Put(c) /\ ~IsFinal(c)
      <3>1. ChunkSize \in Nat
        BY <1>7, HeaderAssumption DEF PutDummy, PutData, Filling, ChunkSize, Base, TypeOK
      <3>2. CASE PutDummy
        <4>1. DummyChunk(ChunkSize) \in Chunk /\ ~IsFinal(DummyChunk(ChunkSize))
          BY <3>1, ChunkTypes DEF DummyChunk, IsFinal, DummyFlag, FinalFlag
        <4> QED BY <3>2, <4>1 DEF PutDummy
      <3>3. CASE PutData
        <4> DEFINE h == Head(buffer)
                   c == DataChunk(h.id, h.off + 1, h.off + ChunkSize, h.count)
        <4>1. buffer # <<>>
          BY <3>3 DEF PutData, HasPayload
        <4>2. h.id \in Nat /\ h.off \in Nat /\ h.count \in Int /\ h.count <= 0
          BY <4>1, HeadOfBuffer DEF Base
        <4>3. c \in Chunk /\ ~IsFinal(c)
          BY <3>1, <4>2, ChunkTypes DEF DataChunk, IsFinal, DataFlag, FinalFlag
        <4>4. Put(c)
          BY <3>3 DEF PutData
        <4> QED BY <4>3, <4>4
      <3> QED BY <1>7, <3>2, <3>3
    <2>2. cpc = "filling"
      BY <1>7 DEF PutDummy, PutData, Filling
    <2>3. Flow' = Append(Flow, c) /\ net' = net /\ sent' = sent
      BY <1>6, <2>1, <2>2
    <2>4. FinalsRise(Flow') /\ Finals(Flow') = Finals(Flow)
      BY <1>0, <2>1, <2>3, FinalsAppend DEF Ordered
    <2>5. Len(buffer') = Len(buffer)
      <3>1. CASE PutDummy
        BY <3>1 DEF PutDummy
      <3>2. CASE PutData
        <4>1. buffer # <<>>
          BY <3>2 DEF PutData, HasPayload
        <4>2. PICK r : buffer' = [buffer EXCEPT ![1] = r]
          BY <3>2 DEF PutData
        <4>3. buffer' \in Seq(Row)
          BY DEF Base, TypeOK, Row
        <4> QED BY <1>0, <4>2, <4>3, LenProperties
      <3> QED BY <1>7, <3>1, <3>2
    <2> QED BY <1>3, <2>3, <2>4, <2>5
  <1>8. CASE PutFinal
    <2> DEFINE h == Head(buffer)
               c == FinalChunk(h.id, h.off + 1, sent[h.id].len)
    <2>1. buffer # <<>> /\ cpc = "filling" /\ Put(c) /\ buffer' = Tail(buffer)
      BY <1>8 DEF PutFinal, HasPayload, Filling
    <2>2. /\ h.id = Len(sent) - Len(buffer) + 1 /\ h.id \in Nat \ {0} /\ h.off \in Nat
          /\ sent[h.id].len \in Nat
      BY <2>1, HeadOfBuffer DEF Base
    <2>3. c \in Chunk /\ IsFinal(c) /\ c.id = h.id
      <3>1. h.off + 1 \in Nat
        BY <2>2
      <3>2. c \in Chunk
        BY <2>2, <3>1, ChunkTypes
      <3> QED BY <3>2 DEF FinalChunk, IsFinal
    <2> HIDE DEF c, h
    <2>4. Flow' = Append(Flow, c) /\ net' = net /\ sent' = sent
      BY <1>6, <2>1, <2>3
    <2>5. Len(buffer') = Len(buffer) - 1
      BY <1>0, <2>1, HeadTailProperties
    <2>6. CutUp' = CutUp \cup {h.id} /\ \A y \in CutUp : y < h.id
      BY <1>0, <2>2, <2>4, <2>5, SMTT(30) DEF CutUp
    <2>7. Below(OnTheWay, {c.id}) /\ Below(Named(done), {c.id})
      BY <2>3, <2>6 DEF Ordered, Below
    <2>8. FinalsRise(Flow') /\ Finals(Flow') = Finals(Flow) \cup {c.id}
      <3>1. Below(Finals(Flow), {c.id})
        BY <2>7 DEF OnTheWay, Below
      <3> QED BY <1>0, <2>3, <2>4, <3>1, FinalsAppend DEF Ordered
    <2>9. OnTheWay' = OnTheWay \cup {c.id}
      BY <1>1, <2>8 DEF OnTheWay
    <2>10. /\ Below(Finals(page'), Finals(inbuf') \cup Finals(Flow'))
           /\ Below(Finals(inbuf'), Finals(Flow'))
      BY <1>1, <2>7, <2>8 DEF Ordered, Below, OnTheWay
    <2>11. OnTheWay' \subseteq CutUp' /\ Named(done') \subseteq CutUp'
      BY <1>1, <2>3, <2>6, <2>9 DEF Ordered
    <2>12. Below(Named(done'), OnTheWay')
      BY <1>1, <2>7, <2>9 DEF Ordered, Below
    <2>13. ASSUME NEW a \in Accounts
           PROVE  /\ NamedRise(got'[a]) /\ Below(Named(got'[a]), OnTheWay')
                  /\ Named(got'[a]) \subseteq CutUp'
                  /\ \A x \in Named(got'[a]), y \in Named(done') : sent'[y].to = a => x < y
      <3>1. Below(Named(got[a]), {c.id})
        BY <2>3, <2>6 DEF Ordered, Below
      <3> QED BY <1>1, <2>4, <2>6, <2>9, <3>1 DEF Ordered, Below
    <2> QED BY <1>1, <2>4, <2>8, <2>10, <2>11, <2>12, <2>13 DEF Ordered
  <1>9. ASSUME NEW b \in Budgets, NextPart(b) PROVE Ordered'
    <2>1. /\ cpc = "filling" /\ cpc' = cpc /\ body' = body \o part /\ part' = <<>>
          /\ net' = net /\ sent' = sent /\ buffer' = buffer
      BY <1>9 DEF NextPart, PartFull
    <2>2. Flow = body \o part /\ Flow' = (body \o part) \o <<>>
      BY <2>1, HeldAndFlow, HeldAndFlowNext
    <2>3. Flow' = Flow
      BY <1>0, <2>2, ConcatEmptySeq
    <2> QED BY <1>3, <2>1, <2>3 DEF Ordered
  <1>10. CASE SendRequest
    <2>1. /\ cpc = "filling" /\ cpc' = "waiting" /\ net' = Append(net, body \o part)
          /\ sent' = sent /\ buffer' = buffer
      BY <1>10 DEF SendRequest, PartFull
    <2>2. net = <<>> /\ spc = "idle" /\ Flow = body \o part
      BY <2>1, HeldAndFlow DEF Base, PhaseOK
    <2>3. Len(net') = 1 /\ net'[1] = Flow
      <3>1. Len(net) = 0 /\ Flow \in Seq(Chunk)
        BY <1>0, <2>2, EmptySeq
      <3> QED BY <1>0, <2>1, <2>2, <3>1, AppendProperties
    <2>4. net' # <<>>
      BY <2>3, EmptySeq
    <2>5. Flow' = Flow
      BY <1>1, <2>1, <2>2, <2>3, <2>4, HeldAndFlowNext
    <2>6. CutUp' = CutUp
      BY <2>1 DEF CutUp
    <2> QED BY <1>2, <2>1, <2>2, <2>3, <2>5, <2>6 DEF Ordered
  <1>11. CASE ReceiveResponse
    <2>1. Flow' = <<>> /\ net' = net /\ sent' = sent /\ buffer' = buffer
      BY <1>11, HeldAndFlowNext DEF ReceiveResponse, ForgetRequest, serverVars
    <2> QED BY <1>3, <2>1, NoFinals
  <1> QED BY <1>4, <1>5, <1>7, <1>8, <1>9, <1>10, <1>11 DEF Client, Fill

(* The handler's steps that end it or touch no Final chunk. *)
LEMMA OrderedQuiet ==
    ASSUME Base, Base', Ordered, sent' = sent, buffer' = buffer, got' = got,
           page' = page \/ page' = <<>>, Finals(inbuf') = Finals(inbuf), FinalsRise(inbuf'),
           NamedRise(done'), Named(done') \subseteq Named(done),
           \/ Flow' = Flow
           \/ Flow' = <<>>,
           \/ net' = <<>>
           \/ net' = net /\ spc' = spc
    PROVE  Ordered'
  <1>1. CutUp' = CutUp
    BY DEF CutUp
  <1>2. FinalsRise(page') /\ Finals(page') \subseteq Finals(page)
    BY NoFinals DEF Ordered
  <1>3. FinalsRise(Flow') /\ Finals(Flow') \subseteq Finals(Flow)
    BY NoFinals DEF Ordered
  <1>4. Len(net') <= 1 /\ (net' # <<>> => spc' = "idle")
    <2>1. Len(<<>>) = 0
      BY EmptySeq
    <2> QED BY <2>1 DEF Ordered
  <1> QED BY <1>1, <1>2, <1>3, <1>4, OrderedLoss

LEMMA OrderedServer ==
    ASSUME Base, Base', Ordered, Server
    PROVE  Ordered'
  <1>0. /\ page \in Seq(Chunk) /\ inbuf \in Seq(Chunk) /\ Flow \in Seq(Chunk)
        /\ pending \in Seq(Chunk) /\ request \in Seq(Chunk) /\ done \in Seq(Nat)
        /\ net \in Seq(Seq(Chunk)) /\ got \in [Accounts -> Seq(Nat)]
        /\ FinalsRise(page) /\ FinalsRise(inbuf) /\ FinalsRise(Flow) /\ NamedRise(done)
    BY HeldAndFlow DEF Base, TypeOK, Ordered
  <1>1. sent' = sent /\ buffer' = buffer /\ cpc' = cpc /\ CutUp' = CutUp
    BY DEF Server, AcceptRequest, EnqueueChunk, NoFinal, DequeuePage, HoldData, CompletePayload,
           RefuseGarbage, DecodeGarbage, PageDone, RequeueChunk, FlushDone, Route,
           CommitPayload, RequestDone, clientVars, CutUp
  <1>n. spc # "idle" => net = <<>> /\ cpc # "filling" /\ Flow = request
    BY NotFilling, HeldAndFlow DEF Ordered
  <1>e. ASSUME spc # "idle", spc' = "idle", net' = net PROVE Flow' = <<>>
    BY <1>1, <1>n, <1>e, HeldAndFlowNext
  <1>s. ASSUME spc # "idle", spc' # "idle", request' = request PROVE Flow' = Flow
    BY <1>1, <1>n, <1>s, HeldAndFlowNext
  <1>2. CASE AcceptRequest
    <2>1. /\ net # <<>> /\ spc = "idle" /\ net' = Tail(net) /\ spc' = "enqueue"
          /\ request' = Head(net) /\ inbuf' = inbuf /\ page' = page /\ done' = done /\ got' = got
      BY <1>2 DEF AcceptRequest
    <2>2. Len(net) = 1 /\ Head(net) = net[1]
      <3>1. Len(net) \in Nat \ {0} /\ Head(net) = net[1]
        BY <1>0, <2>1, EmptySeq
      <3>2. Len(net) <= 1
        BY DEF Ordered
      <3>3. \A n \in Nat \ {0} : n <= 1 => n = 1
        OBVIOUS
      <3> QED BY <3>1, <3>2, <3>3
    <2>3. net' = <<>>
      <3>1. net' \in Seq(Seq(Chunk)) /\ Len(net') = Len(net) - 1
        BY <1>0, <2>1, HeadTailProperties
      <3> QED BY <2>2, <3>1, EmptySeq
    <2>4. Flow' = Flow
      BY <1>1, <2>1, <2>2, NotFilling, HeldAndFlow, HeldAndFlowNext
    <2> QED BY <1>0, <1>1, <2>1, <2>3, <2>4, OrderedQuiet
  <1>3. CASE EnqueueChunk
    <2> DEFINE c == Head(request)
    <2>1. /\ spc = "enqueue" /\ spc' = spc /\ request # <<>> /\ request' = Tail(request)
          /\ inbuf' = (IF IsDummy(c) THEN inbuf ELSE Append(inbuf, c))
          /\ net' = net /\ page' = page /\ done' = done /\ got' = got
      BY <1>3 DEF EnqueueChunk
    <2>2. c \in Chunk /\ Flow = request /\ Flow' = Tail(request)
      BY <1>0, <1>1, <1>n, <2>1, HeadTailProperties, HeldAndFlowNext
    <2>3. /\ FinalsRise(Flow') /\ Finals(Flow') \subseteq Finals(Flow)
          /\ IsFinal(c) => c.id \in Finals(Flow) /\ Below({c.id}, Finals(Flow'))
      BY <1>0, <2>1, <2>2, FinalsTail
    <2> HIDE DEF c
    <2>4. CASE ~IsFinal(c)
      <3>1. FinalsRise(inbuf') /\ Finals(inbuf') = Finals(inbuf)
        BY <1>0, <2>1, <2>2, <2>4, FinalsAppend
      <3> QED BY <1>0, <1>1, <2>1, <2>3, <3>1, OrderedLoss DEF Ordered
    <2>5. CASE IsFinal(c)
      <3>1. inbuf' = Append(inbuf, c)
        BY <2>1, <2>5 DEF IsFinal, IsDummy, FinalFlag, DummyFlag
      <3>2. Below(Finals(inbuf), {c.id})
        BY <2>3, <2>5 DEF Ordered, Below
      <3>3. FinalsRise(inbuf') /\ Finals(inbuf') = Finals(inbuf) \cup {c.id}
        BY <1>0, <2>2, <2>5, <3>1, <3>2, FinalsAppend
      <3>4. OnTheWay' \subseteq OnTheWay
        BY <2>1, <2>3, <2>5, <3>3 DEF OnTheWay
      <3>5. Below(Finals(inbuf'), Finals(Flow'))
        BY <2>3, <2>5, <3>3 DEF Ordered, Below
      <3>6. Below(Finals(page'), Finals(inbuf') \cup Finals(Flow'))
        BY <2>1, <2>3, <2>5, <3>3 DEF Ordered, Below
      <3>7. /\ OnTheWay' \subseteq CutUp' /\ Named(done') \subseteq CutUp'
            /\ Below(Named(done'), OnTheWay')
        BY <1>1, <2>1, <3>4 DEF Ordered, Below
      <3>8. ASSUME NEW a \in Accounts
            PROVE  /\ NamedRise(got'[a]) /\ Below(Named(got'[a]), OnTheWay')
                   /\ Named(got'[a]) \subseteq CutUp'
                   /\ \A x \in Named(got'[a]), y \in Named(done') : sent'[y].to = a => x < y
        BY <1>1, <2>1, <3>4 DEF Ordered, Below
      <3>9. FinalsRise(page') /\ NamedRise(done') /\ Len(net') <= 1 /\ (net' # <<>> => spc' = "idle")
        BY <2>1 DEF Ordered
      <3> QED BY <2>3, <3>3, <3>5, <3>6, <3>7, <3>8, <3>9 DEF Ordered
    <2> QED BY <2>4, <2>5
  <1>4. CASE NoFinal \/ RequestDone
    <2>1. /\ spc # "idle" /\ spc' = "idle" /\ net' = net /\ inbuf' = inbuf /\ page' = page
          /\ done' = done /\ got' = got
      BY <1>4 DEF NoFinal, RequestDone, EndRequest
    <2> QED BY <1>0, <1>1, <1>e, <1>n, <2>1, OrderedQuiet
  <1>5. CASE DequeuePage
    <2>1. /\ spc = "enqueue" /\ spc' = "assemble" /\ request' = request /\ net' = net
          /\ done' = done /\ got' = got /\ page = <<>>
      BY <1>5 DEF DequeuePage, Base, PhaseOK
    <2>2. Flow' = Flow
      BY <1>s, <2>1
    <2>3. /\ FinalsRise(page') /\ FinalsRise(inbuf') /\ Below(Finals(page'), Finals(inbuf'))
          /\ Finals(page') \subseteq Finals(inbuf) /\ Finals(inbuf') \subseteq Finals(inbuf)
      <3>1. CASE Len(inbuf) <= PageSize
        BY <1>0, <1>5, <3>1, NoFinals DEF DequeuePage, Below
      <3>2. CASE ~(Len(inbuf) <= PageSize)
        <4>1. PageSize \in Nat /\ PageSize <= Len(inbuf)
          BY <1>0, <3>2, UplinkAssumption, LenProperties
        <4>2. page' = SubSeq(inbuf, 1, PageSize) /\ inbuf' = SubSeq(inbuf, PageSize + 1, Len(inbuf))
          BY <1>5, <3>2 DEF DequeuePage
        <4> QED BY <1>0, <4>1, <4>2, FinalsSplit
      <3> QED BY <3>1, <3>2
    <2>4. OnTheWay' \subseteq OnTheWay
      BY <2>2, <2>3 DEF OnTheWay
    <2>5. /\ Below(Finals(page'), Finals(inbuf') \cup Finals(Flow'))
          /\ Below(Finals(inbuf'), Finals(Flow'))
      BY <2>2, <2>3 DEF Ordered, Below
    <2>6. /\ OnTheWay' \subseteq CutUp' /\ Named(done') \subseteq CutUp'
          /\ Below(Named(done'), OnTheWay')
      BY <1>1, <2>1, <2>4 DEF Ordered, Below
    <2>7. ASSUME NEW a \in Accounts
          PROVE  /\ NamedRise(got'[a]) /\ Below(Named(got'[a]), OnTheWay')
                 /\ Named(got'[a]) \subseteq CutUp'
                 /\ \A x \in Named(got'[a]), y \in Named(done') : sent'[y].to = a => x < y
      BY <1>1, <2>1, <2>4 DEF Ordered, Below
    <2>8. FinalsRise(Flow') /\ NamedRise(done') /\ Len(net') <= 1 /\ net' = <<>>
      BY <1>n, <2>1, <2>2 DEF Ordered
    <2> QED BY <2>3, <2>5, <2>6, <2>7, <2>8 DEF Ordered
  <1>6. CASE HoldData
    <2>1. /\ spc = "assemble" /\ spc' = spc /\ page # <<>> /\ page' = Tail(page)
          /\ request' = request /\ net' = net /\ inbuf' = inbuf /\ done' = done /\ got' = got
      BY <1>6 DEF HoldData, Assembling
    <2>2. FinalsRise(page') /\ Finals(page') \subseteq Finals(page)
      BY <1>0, <2>1, FinalsTail
    <2>3. Flow' = Flow
      BY <1>s, <2>1
    <2> QED BY <1>0, <1>1, <2>1, <2>2, <2>3, OrderedLoss DEF Ordered
  <1>7. CASE CompletePayload
    <2> DEFINE c == Head(page)
    <2>1. /\ spc = "assemble" /\ spc' = spc /\ page # <<>> /\ page' = Tail(page) /\ IsFinal(c)
          /\ request' = request /\ net' = net /\ inbuf' = inbuf /\ got' = got
          /\ done' = Append(done, c.id)
      BY <1>7 DEF CompletePayload, Assembling
    <2>2. /\ FinalsRise(page') /\ Finals(page') \subseteq Finals(page)
          /\ c.id \in Finals(page) /\ Below({c.id}, Finals(page'))
      BY <1>0, <2>1, FinalsTail
    <2>3. Flow' = Flow
      BY <1>s, <2>1
    <2>4. c.id \in CutUp /\ c.id \in Nat \ {0}
      BY <2>2 DEF Ordered, OnTheWay, CutUp
    <2> HIDE DEF c
    <2>5. Below(Named(done), {c.id})
      BY <2>2 DEF Ordered, OnTheWay, Below
    <2>6. NamedRise(done') /\ Named(done') = Named(done) \cup {c.id}
      <3>1. PICK t : t = done'
        OBVIOUS
      <3>2. NamedRise(t) /\ Named(t) = Named(done) \cup ({c.id} \ {0})
        BY <1>0, <2>1, <2>4, <2>5, <3>1, PutAtEnd
      <3> QED BY <2>4, <3>1, <3>2
    <2>7. OnTheWay' \subseteq OnTheWay /\ Below({c.id}, OnTheWay')
      BY <2>1, <2>2, <2>3 DEF Ordered, OnTheWay, Below
    <2>8. /\ Below(Finals(page'), Finals(inbuf') \cup Finals(Flow'))
          /\ Below(Finals(inbuf'), Finals(Flow'))
      BY <2>1, <2>2, <2>3 DEF Ordered, Below
    <2>9. /\ OnTheWay' \subseteq CutUp' /\ Named(done') \subseteq CutUp'
          /\ Below(Named(done'), OnTheWay')
      BY <1>1, <2>4, <2>6, <2>7 DEF Ordered, Below
    <2>10. ASSUME NEW a \in Accounts
           PROVE  /\ NamedRise(got'[a]) /\ Below(Named(got'[a]), OnTheWay')
                  /\ Named(got'[a]) \subseteq CutUp'
                  /\ \A x \in Named(got'[a]), y \in Named(done') : sent'[y].to = a => x < y
      <3>1. \A x \in Named(got[a]) : x < c.id
        BY <2>2 DEF Ordered, OnTheWay, Below
      <3> QED BY <1>1, <2>1, <2>6, <2>7, <3>1 DEF Ordered, Below
    <2>11. FinalsRise(inbuf') /\ FinalsRise(Flow') /\ Len(net') <= 1 /\ net' = <<>>
      BY <1>n, <2>1, <2>3 DEF Ordered
    <2> QED BY <2>2, <2>6, <2>8, <2>9, <2>10, <2>11 DEF Ordered
  <1>8. CASE RefuseGarbage
    <2>1. /\ spc # "idle" /\ spc' = "idle" /\ net' = net /\ inbuf' = inbuf /\ page' = <<>>
          /\ done' = <<>> /\ got' = got
      BY <1>8 DEF RefuseGarbage, Assembling, EndRequest
    <2>2. NamedRise(done') /\ Named(done') \subseteq Named(done)
      BY <2>1, NoFinals
    <2> QED BY <1>0, <1>1, <1>e, <1>n, <2>1, <2>2, OrderedQuiet
  <1>9. CASE DecodeGarbage
    <2>1. /\ spc = "assemble" /\ spc' = spc /\ page # <<>> /\ page' = Tail(page)
          /\ request' = request /\ net' = net /\ inbuf' = inbuf /\ got' = got
          /\ done' = done \/ done' = Append(done, 0)
      BY <1>9 DEF DecodeGarbage, Assembling
    <2>2. FinalsRise(page') /\ Finals(page') \subseteq Finals(page)
      BY <1>0, <2>1, FinalsTail
    <2>3. NamedRise(done') /\ Named(done') \subseteq Named(done)
      <3>1. PICK t : t = Append(done, 0)
        OBVIOUS
      <3>2. NamedRise(t) /\ Named(t) = Named(done) \cup ({0} \ {0})
        BY <1>0, <3>1, PutAtEnd
      <3>3. CASE done' = done
        BY <1>0, <3>3
      <3>4. CASE done' = t
        BY <3>2, <3>4
      <3> QED BY <2>1, <3>1, <3>3, <3>4
    <2>4. Flow' = Flow
      BY <1>s, <2>1
    <2> QED BY <1>0, <1>1, <2>1, <2>2, <2>3, <2>4, OrderedLoss DEF Ordered
  <1>10. CASE PageDone \/ FlushDone \/ Route
    <2>1. /\ spc # "idle" /\ spc' # "idle" /\ request' = request /\ net' = net
          /\ inbuf' = inbuf /\ page' = page /\ done' = done /\ got' = got
      BY <1>10 DEF PageDone, FlushDone, Route
    <2> QED BY <1>0, <1>1, <1>n, <1>s, <2>1, OrderedQuiet
  <1>11. CASE RequeueChunk
    <2>1. /\ spc = "requeue" /\ spc' = spc /\ request' = request /\ net' = net /\ pending # <<>>
          /\ inbuf' = Append(inbuf, Head(pending)) /\ page' = page /\ done' = done /\ got' = got
      BY <1>11 DEF RequeueChunk
    <2>2. Head(pending) \in Chunk /\ ~IsFinal(Head(pending))
      BY <1>0, <2>1, TailIndex, HeadTailProperties DEF Base, PhaseOK, AllData
    <2>3. FinalsRise(inbuf') /\ Finals(inbuf') = Finals(inbuf)
      BY <1>0, <2>1, <2>2, FinalsAppend
    <2> QED BY <1>0, <1>1, <1>n, <1>s, <2>1, <2>3, OrderedQuiet
  <1>12. ASSUME NEW i \in 1..Len(done), NEW a \in Accounts, CommitPayload(i, a)
         PROVE  Ordered'
    <2> DEFINE id == done[i]
    <2>1. /\ spc = "commit" /\ spc' = spc /\ request' = request /\ net' = net /\ inbuf' = inbuf
          /\ page' = page /\ done' = RemoveAtIndex(done, i)
          /\ got' = [got EXCEPT ![a] = Append(got[a], id)]
          /\ GoesTo(id, a) /\ \A j \in 1..(i - 1) : ~GoesTo(done[j], a)
      BY <1>12 DEF CommitPayload
    <2>2. Flow' = Flow
      BY <1>s, <2>1
    <2>3. /\ NamedRise(done') /\ Named(done') \subseteq Named(done)
          /\ \A k \in 1..Len(done') : \E m \in 1..Len(done) : m # i /\ done'[k] = done[m]
      <3>1. PICK r : r = done'
        OBVIOUS
      <3>2. r = RemoveAtIndex(done, i)
        BY <2>1, <3>1
      <3>3. /\ NamedRise(r) /\ Named(r) \subseteq Named(done)
            /\ \A k \in 1..Len(r) : \E m \in 1..Len(done) : m # i /\ r[k] = done[m]
        <4>1. done \in Seq(Nat) /\ NamedRise(done)
          BY <1>0
        <4> QED BY <1>12, <3>2, <4>1, TakeOut
      <3> QED BY <3>1, <3>3
    <2>4. id \in Nat /\ (id # 0 => id \in Named(done) /\ sent[id].to = a)
      <3>1. id \in Nat
        BY <1>0, ElementOfSeq
      <3>2. id # 0 => id \in Named(done)
        BY DEF Named, Elems
      <3> QED BY <2>1, <3>1, <3>2 DEF GoesTo
    <2>5. got[a] \in Seq(Nat) /\ got'[a] = Append(got[a], id)
          /\ \A b \in Accounts : b # a => got'[b] = got[b]
      BY <1>0, <2>1
    <2>6. ASSUME id # 0, NEW y \in Named(done'), sent[y].to = a PROVE id < y
      <3>1. PICK k \in 1..Len(done') : y = done'[k]
        BY <2>6 DEF Named, Elems
      <3>2. PICK m \in 1..Len(done) : m # i /\ y = done[m]
        BY <2>3, <3>1
      <3>3. y # 0
        BY <2>6 DEF Named
      <3>4. ~(m < i)
        <4>1. SUFFICES ASSUME m < i PROVE FALSE
          OBVIOUS
        <4>2. m \in 1..(i - 1)
          BY <4>1
        <4>3. ~GoesTo(done[m], a)
          BY <2>1, <4>2
        <4> QED BY <2>6, <3>2, <3>3, <4>3 DEF GoesTo
      <3>5. i < m
        BY <3>2, <3>4
      <3> QED BY <1>0, <2>6, <3>2, <3>3, <3>5 DEF NamedRise
    <2>7. /\ NamedRise(got'[a])
          /\ Named(got'[a]) \subseteq Named(got[a]) \cup ({id} \ {0})
      <3>1. NamedRise(got[a])
        BY DEF Ordered
      <3>2. CASE id = 0
        <4>1. PICK t : t = Append(got[a], 0)
          OBVIOUS
        <4>2. NamedRise(t) /\ Named(t) = Named(got[a]) \cup ({0} \ {0})
          BY <2>5, <3>1, <4>1, PutAtEnd
        <4> QED BY <2>5, <3>2, <4>1, <4>2
      <3>3. CASE id # 0
        <4>1. Below(Named(got[a]), {id})
          BY <2>4, <3>3 DEF Ordered, Below
        <4> QED BY <2>4, <2>5, <3>1, <3>3, <4>1, PutAtEnd
      <3> QED BY <3>2, <3>3
    <2> HIDE DEF id
    <2>8. OnTheWay' = OnTheWay
      BY <2>1, <2>2 DEF OnTheWay
    <2>9. ASSUME NEW b \in Accounts
          PROVE  /\ NamedRise(got'[b]) /\ Below(Named(got'[b]), OnTheWay')
                 /\ Named(got'[b]) \subseteq CutUp'
                 /\ \A x \in Named(got'[b]), y \in Named(done') : sent'[y].to = b => x < y
      <3>1. CASE b # a
        BY <1>1, <2>3, <2>5, <2>8, <3>1 DEF Ordered
      <3>2. CASE b = a
        <4>1. Below(Named(got'[b]), OnTheWay')
          BY <2>4, <2>7, <2>8, <3>2 DEF Ordered, Below
        <4>2. Named(got'[b]) \subseteq CutUp'
          BY <1>1, <2>4, <2>7, <3>2 DEF Ordered
        <4>3. ASSUME NEW x \in Named(got'[b]), NEW y \in Named(done'), sent'[y].to = b
              PROVE  x < y
          <5>1. sent[y].to = a /\ y \in Named(done)
            BY <1>1, <2>3, <3>2, <4>3
          <5>2. CASE x \in Named(got[a])
            BY <5>1, <5>2 DEF Ordered
          <5>3. CASE x = id /\ id # 0
            BY <2>6, <5>1, <5>3
          <5> QED BY <2>7, <3>2, <5>2, <5>3
        <4> QED BY <2>7, <3>2, <4>1, <4>2, <4>3
      <3> QED BY <3>1, <3>2
    <2>10. /\ Below(Named(done'), OnTheWay') /\ Named(done') \subseteq CutUp'
           /\ OnTheWay' \subseteq CutUp'
      BY <1>1, <2>3, <2>8 DEF Ordered, Below
    <2>11. /\ FinalsRise(page') /\ FinalsRise(inbuf') /\ FinalsRise(Flow')
           /\ Below(Finals(page'), Finals(inbuf') \cup Finals(Flow'))
           /\ Below(Finals(inbuf'), Finals(Flow'))
           /\ Len(net') <= 1 /\ net' = <<>>
      BY <1>n, <2>1, <2>2 DEF Ordered
    <2> QED BY <2>3, <2>9, <2>10, <2>11 DEF Ordered
  <1> QED BY <1>2, <1>3, <1>4, <1>5, <1>6, <1>7, <1>8, <1>9, <1>10, <1>11, <1>12 DEF Server

LEMMA OrderedFault ==
    ASSUME Base, Base', Ordered, Fault, ~ResendRequest
    PROVE  Ordered'
  <1>0. /\ FinalsRise(inbuf) /\ NamedRise(done) /\ NamedRise(<<>>) /\ Named(<<>>) = {}
    BY NoFinals DEF Ordered
  <1>1. /\ sent' = sent /\ buffer' = buffer /\ inbuf' = inbuf /\ got' = got
        /\ page' = page \/ page' = <<>>
        /\ done' = done \/ done' = <<>>
        /\ (net' = net /\ (spc' = spc \/ spc' = "idle")) \/ net' = <<>> \/ RejectRequest
    BY DEF Fault, ClientCrash, Disconnect, RejectRequest, HandlerError, ServerAbort, Unroutable,
           DropAll, EndRequest, clientVars, serverVars
  <1>2. NamedRise(done') /\ Named(done') \subseteq Named(done)
    BY <1>0, <1>1
  <1>k. ASSUME Flow' = Flow \/ Flow' = <<>>, net' = <<>> \/ (net' = net /\ spc' = spc)
        PROVE  Ordered'
    BY <1>0, <1>1, <1>2, <1>k, OrderedQuiet
  <1>3. CASE ClientCrash
    <2>1. /\ cpc # "idle" /\ cpc' = "idle" /\ net' = net /\ spc' = spc /\ request' = request
      BY <1>3 DEF ClientCrash, ForgetRequest, serverVars
    <2>2. CASE cpc = "filling"
      <3>1. net = <<>> /\ spc = "idle"
        BY <2>2 DEF Base, PhaseOK
      <3> QED BY <1>k, <2>1, <3>1, HeldAndFlowNext
    <2>3. CASE cpc # "filling"
      <3>1. Flow' = Flow
        BY <2>1, <2>3 DEF Flow
      <3> QED BY <1>k, <2>1, <3>1
    <2> QED BY <2>2, <2>3
  <1>4. CASE Disconnect
    <2>1. /\ cpc = "waiting" /\ cpc' = "idle" /\ net' = <<>> /\ spc' = spc /\ request' = request
      BY <1>4 DEF Disconnect, ForgetRequest, serverVars
    <2>2. Flow' = Flow \/ Flow' = <<>>
      BY <2>1 DEF Flow
    <2> QED BY <1>k, <2>1, <2>2
  <1>5. CASE RejectRequest
    <2>1. /\ net # <<>> /\ spc = "idle" /\ net' = Tail(net) /\ spc' = spc /\ cpc' = cpc
      BY <1>5 DEF RejectRequest, clientVars, serverVars
    <2>2. net \in Seq(Seq(Chunk)) /\ Len(net) = 1
      <3>1. net \in Seq(Seq(Chunk))
        BY DEF Base, TypeOK
      <3>2. Len(net) \in Nat \ {0}
        BY <2>1, <3>1, EmptySeq
      <3>3. Len(net) <= 1
        BY DEF Ordered
      <3>4. \A n \in Nat \ {0} : n <= 1 => n = 1
        OBVIOUS
      <3> QED BY <3>1, <3>2, <3>3, <3>4
    <2>3. net' = <<>>
      <3>1. net' \in Seq(Seq(Chunk)) /\ Len(net') = Len(net) - 1
        BY <2>1, <2>2, HeadTailProperties
      <3> QED BY <2>2, <3>1, EmptySeq
    <2>4. Flow' = <<>>
      BY <2>1, <2>3, NotFilling, HeldAndFlowNext
    <2> QED BY <1>k, <2>3, <2>4
  <1>6. CASE HandlerError \/ ServerAbort \/ Unroutable
    <2>1. /\ spc # "idle" /\ spc' = "idle" /\ (net' = net \/ net' = <<>>)
      BY <1>6 DEF HandlerError, ServerAbort, Unroutable, DropAll, EndRequest
    <2>2. net = <<>> /\ cpc # "filling"
      BY <2>1, NotFilling DEF Ordered
    <2>3. cpc' # "filling"
      BY <1>6, <2>2 DEF HandlerError, ServerAbort, Unroutable, ForgetRequest, clientVars
    <2>4. net' = <<>> /\ Flow' = <<>>
      BY <2>1, <2>2, <2>3, HeldAndFlowNext
    <2> QED BY <1>k, <2>4
  <1> QED BY <1>3, <1>4, <1>5, <1>6 DEF Fault

LEMMA OrderedStep ==
    ASSUME Base, Base', Ordered, [Next]_vars, ~ResendRequest
    PROVE  Ordered'
  <1>1. CASE UNCHANGED vars
    BY <1>1 DEF vars, clientVars, serverVars, Ordered, CutUp, OnTheWay, Flow
  <1> QED BY <1>1, OrderedClient, OrderedServer, OrderedFault DEF Next

LEMMA OrderedAtStart == Init => Ordered
  <1> SUFFICES ASSUME Init PROVE Ordered
    OBVIOUS
  <1>1. Len(<<>>) = 0 /\ Flow = <<>>
    BY EmptySeq DEF Init, Flow
  <1>2. OnTheWay = {}
    BY <1>1, NoFinals DEF Init, OnTheWay
  <1>3. \A a \in Accounts : got[a] = <<>>
    BY DEF Init
  <1> QED BY <1>1, <1>2, <1>3, NoFinals DEF Init, Ordered, Below

(* Whatever is lost (a stopped client, a broken socket, a refused request, *)
(* an error or an abort of the handler, a flush that does not see the      *)
(* whole buffer) and whatever bincode makes of the pieces: unless          *)
(* send_message sends a request twice, no account gets a payload twice or  *)
(* after a later one.                                                      *)
THEOREM LossCorrect == MCSpec => []LossesKeepOrder
  <1> DEFINE OrdInv == ~resent => Ordered
  <1>1. MCInit => OrdInv
    BY OrderedAtStart DEF MCInit
  <1>2. Base /\ Base' /\ OrdInv /\ [MCNext]_<<vars, resent>> => OrdInv'
    <2> SUFFICES ASSUME Base, Base', ~resent => Ordered, [MCNext]_<<vars, resent>>, ~resent'
                 PROVE  Ordered'
      OBVIOUS
    <2>1. ~resent /\ [Next]_vars /\ ~ResendRequest
      <3>1. CASE MCNext
        BY <3>1 DEF MCNext, ResendRequest
      <3>2. CASE UNCHANGED <<vars, resent>>
        BY <3>2 DEF ResendRequest, vars, clientVars
      <3> QED BY <3>1, <3>2
    <2> QED BY <2>1, OrderedStep
  <1>3. Base /\ OrdInv => LossesKeepOrder
    <2> SUFFICES ASSUME Base, Ordered PROVE InOrder
      BY DEF LossesKeepOrder
    <2>1. \A a \in Accounts : DOMAIN got[a] = 1..Len(got[a])
      BY LenProperties DEF Base, TypeOK
    <2> QED BY <2>1 DEF InOrder, Ordered, NamedRise
  <1>4. MCSpec => Spec
    <2>1. MCInit => Init
      BY DEF MCInit
    <2>2. [MCNext]_<<vars, resent>> => [Next]_vars
      BY DEF MCNext
    <2> QED BY <2>1, <2>2, PTL DEF MCSpec, Spec
  <1> QED BY <1>1, <1>2, <1>3, <1>4, AlwaysBase, PTL DEF MCSpec

(***************************************************************************)
(* The size of a message.                                                  *)
(***************************************************************************)
(* q times the content leaves room for an empty vector of chunks, and the  *)
(* result is a usize: the subtraction of FreeSpaceInBytes does not wrap.   *)
NoWrap ==
    \A size \in Sizes :
        /\ EmptyVecSize <= TotalFreeSpace(size)
        /\ TotalFreeSpace(size) - EmptyVecSize < 2^UsizeBits

LEMMA Unwrapped ==
    ASSUME NoWrap, NEW size \in Sizes
    PROVE  /\ FreeSpaceInBytes(size) = TotalFreeSpace(size) - EmptyVecSize
           /\ TotalFreeSpace(size) \in Int
<1>1. TotalFreeSpace(size) \in Int
    BY FreeSpaceAssumption DEF TotalFreeSpace
<1>2. PICK a \in Int : a = TotalFreeSpace(size) - EmptyVecSize
    BY <1>1, FreeSpaceAssumption
<1>3. a >= 0
    BY <1>1, <1>2, FreeSpaceAssumption DEF NoWrap
<1>4. PICK m \in Int : m = 2^UsizeBits
    BY FreeSpaceAssumption
<1>5. a < m
    BY <1>2, <1>4 DEF NoWrap
<1>6. a % m = a
    BY <1>3, <1>5
<1> QED BY <1>1, <1>2, <1>4, <1>6 DEF FreeSpaceInBytes

SizeInd ==
    cpc = "filling" => SizeOfAll(part) + free = budget /\ budget \in Budgets

LEMMA SizePut ==
    ASSUME Base, SizeInd, NEW c \in Chunk, Put(c), cpc = "filling"
    PROVE  SizeInd'
  <1>1. /\ part' = Append(part, c) /\ free' = free - SizeOf(c) /\ cpc' = cpc /\ budget' = budget
        /\ part \in Seq(Chunk) /\ free \in Nat /\ budget \in Nat
    BY DEF Put, Base, TypeOK
  <1>2. SizeOfAll(part') = SizeOfAll(part) + SizeOf(c)
    BY <1>1, SizeAppend
  <1>3. SizeOf(c) \in Int
    BY HeaderAssumption DEF SizeOf, Chunk
  <1>4. SizeOfAll(part) \in Int
    BY <1>1, SizeType
  <1>5. SizeOfAll(part') + free' = budget
    BY <1>1, <1>2, <1>3, <1>4 DEF SizeInd
  <1> QED BY <1>1, <1>5 DEF SizeInd

LEMMA SizeStep == Base /\ SizeInd /\ [Next]_vars => SizeInd'
  <1> SUFFICES ASSUME Base, SizeInd, [Next]_vars PROVE SizeInd'
    OBVIOUS
  <1>s. ASSUME cpc' = cpc, part' = part, free' = free, budget' = budget PROVE SizeInd'
    BY <1>s DEF SizeInd
  <1>n. ASSUME cpc' # "filling" PROVE SizeInd'
    BY <1>n DEF SizeInd
  <1>0. ASSUME NEW b \in Budgets, part' = <<>>, free' = b, budget' = b PROVE SizeInd'
    <2>1. b \in Nat
      BY UplinkAssumption
    <2> QED BY <1>0, <2>1, SizeEmpty DEF SizeInd
  <1>1. CASE Server \/ UNCHANGED vars
    BY <1>1, <1>s DEF Server, AcceptRequest, EnqueueChunk, NoFinal, DequeuePage, HoldData,
           CompletePayload, RefuseGarbage, DecodeGarbage, PageDone, RequeueChunk, FlushDone,
           Route, CommitPayload, RequestDone, clientVars, vars
  <1>2. CASE \E len \in Lengths, a \in Accounts : Submit(len, a)
    BY <1>2, <1>s DEF Submit
  <1>3. CASE \E b \in Budgets : StartRequest(b) \/ NextPart(b)
    BY <1>3, <1>0 DEF StartRequest, NextPart
  <1>4. CASE Fill
    <2>1. cpc = "filling" /\ ChunkSize \in Nat
      <3>1. cpc = "filling" /\ free >= EmptyDenimChunkSize
        BY <1>4 DEF Fill, PutFinal, PutData, PutDummy, Filling
      <3>2. free \in Nat
        BY DEF Base, TypeOK
      <3> QED BY <3>1, <3>2, HeaderAssumption DEF ChunkSize
    <2> DEFINE h == Head(buffer)
               fin == FinalChunk(h.id, h.off + 1, sent[h.id].len)
               data == DataChunk(h.id, h.off + 1, h.off + ChunkSize, h.count)
    <2>2. ASSUME buffer # <<>> PROVE fin \in Chunk /\ data \in Chunk
      <3>1. /\ h.id \in Nat /\ h.off \in Nat /\ h.count \in Int /\ h.count <= 0
            /\ sent[h.id].len \in Nat
        BY <2>2, HeadOfBuffer DEF Base
      <3>2. h.off + 1 \in Nat /\ h.off + ChunkSize \in Nat
        BY <2>1, <3>1
      <3> QED BY <3>1, <3>2, ChunkTypes
    <2>3. CASE PutFinal
      <3>1. buffer # <<>> /\ Put(fin)
        BY <2>3 DEF PutFinal, HasPayload
      <3> HIDE DEF fin
      <3> QED BY <2>1, <2>2, <3>1, SizePut
    <2>4. CASE PutData
      <3>1. buffer # <<>> /\ Put(data)
        BY <2>4 DEF PutData, HasPayload
      <3> HIDE DEF data
      <3> QED BY <2>1, <2>2, <3>1, SizePut
    <2>5. CASE PutDummy
      <3>1. Put(DummyChunk(ChunkSize)) /\ DummyChunk(ChunkSize) \in Chunk
        BY <2>1, <2>5, ChunkTypes DEF PutDummy
      <3> QED BY <2>1, <3>1, SizePut
    <2> QED BY <1>4, <2>3, <2>4, <2>5 DEF Fill
  <1>5. CASE SendRequest \/ ReceiveResponse \/ ClientCrash \/ Disconnect
    BY <1>5, <1>n DEF SendRequest, ReceiveResponse, ClientCrash, Disconnect, ForgetRequest
  <1>6. CASE ResendRequest \/ RejectRequest \/ HandlerError \/ Unroutable
    BY <1>6, <1>s DEF ResendRequest, RejectRequest, HandlerError, Unroutable, clientVars
  <1>7. CASE ServerAbort
    BY <1>7, <1>s, <1>n DEF ServerAbort, ForgetRequest
  <1> QED BY <1>1, <1>2, <1>3, <1>4, <1>5, <1>6, <1>7 DEF Next, Client, Fault

(* For any sizes of regular content, q and header sizes, and whatever the  *)
(* deniable buffer holds: at every point of the loop of create_chunks the  *)
(* chunks of a message and the room that is left make up exactly what its  *)
(* regular content allows.                                                 *)
THEOREM SizeCorrect ==
    ASSUME Budgets = MessageBudgets, NoWrap
    PROVE  Spec => []SizeIndependentOfBuffer
  <1>1. Init => SizeInd
    BY DEF Init, SizeInd
  <1>2. Base /\ SizeInd => SizeIndependentOfBuffer
    <2> SUFFICES ASSUME Base, SizeInd, cpc = "filling"
                 PROVE  /\ SizeOfAll(part) + free = budget
                        /\ \E size \in Sizes :
                              EmptyVecSize + SizeOfAll(part) + free = TotalFreeSpace(size)
      BY DEF SizeIndependentOfBuffer
    <2>1. SizeOfAll(part) + free = budget /\ budget \in MessageBudgets
      BY DEF SizeInd
    <2>2. PICK size \in Sizes : budget = TotalFreeSpace(size) - EmptyVecSize
      BY <2>1, Unwrapped DEF MessageBudgets
    <2>3. /\ TotalFreeSpace(size) \in Int /\ EmptyVecSize \in Int /\ free \in Int
          /\ SizeOfAll(part) \in Int
      BY FreeSpaceAssumption, SizeType DEF TotalFreeSpace, Base, TypeOK
    <2>4. EmptyVecSize + SizeOfAll(part) + free = TotalFreeSpace(size)
      BY <2>1, <2>2, <2>3
    <2> QED BY <2>1, <2>4
  <1> QED BY <1>1, <1>2, AlwaysBase, SizeStep, PTL DEF Spec
=============================================================================
