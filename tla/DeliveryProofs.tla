--------------------------- MODULE DeliveryProofs ---------------------------
(***************************************************************************)
(* Proofs about MessageDelivery, for any number of messages and any set of *)
(* faults: no message leaves the cache unsent and unstored (DeliveryInv),  *)
(* and those the persister does not touch are written once and in order    *)
(* (WrittenOnceInOrder).  Below, the queues of redis.rs this rests on, for *)
(* any queues, callers, pages, payloads and bounds: as long as no insert   *)
(* overlaps the deletion of an empty queue and no counter starts again     *)
(* under a remove, inserted values are kept, taken in order and not sent   *)
(* twice.                                                                  *)
(***************************************************************************)
EXTENDS MessageDelivery, RedisQueue, SequenceTheorems, FiniteSetTheorems,
        WellFoundedInduction, TLAPS

(* What is being deleted was sent, and what will be acknowledged too. *)
SentFirst ==
    /\ spc \in {"delCache", "delDb"} => batch # <<>> /\ Head(batch) \in Range(written)
    /\ spc \in {"idle", "fetch", "ackDb"} => batch = <<>>
    /\ acks \subseteq Range(written)

(* What the persister is about to remove it has stored or will have. *)
StoredFirst ==
    /\ Range(db) \subseteq persisted
    /\ Range(toRemove) \subseteq persisted \cup Range(toPush)

(* A queue that is not in the index is empty, or the persister has it. *)
IndexOrPersister ==
    "persister" \notin failed /\ cache # <<>> /\ ppc \in {"idle", "unlock"} => indexed

(* The queue is in the order of insertion. *)
CacheInOrder == \A i, j \in DOMAIN cache : i < j => cache[i] < cache[j]

(* What was written comes before what is in the cache, other than the      *)
(* message that was just sent and has still to be deleted.                 *)
WrittenBeforeCached ==
    \A w \in Range(written) \ persisted, c \in Range(cache) \ persisted :
        w < c \/ (spc = "delCache" /\ w = Head(batch) /\ w = c)

(* What is left to send is in the cache, in order ... *)
BatchInCache ==
    /\ spc = "delDb" => Head(batch) \notin Range(cache)
    /\ \A i \in DOMAIN batch :
        batch[i] \notin persisted /\ ~(spc = "delDb" /\ i = 1) => batch[i] \in Range(cache)
    /\ \A i, j \in DOMAIN batch :
        i < j /\ batch[i] \notin persisted /\ batch[j] \notin persisted => batch[i] < batch[j]

(* ... and before anything else there, as long as the socket works: once   *)
(* it does not, messages are passed over.                                  *)
BatchFirst ==
    up => \A c \in Range(cache) \ persisted, i \in DOMAIN batch :
            batch[i] \notin persisted => c \in Range(batch) \/ batch[i] < c

OrderInd ==
    "delete" \notin failed =>
        WrittenOnceInOrder /\ WrittenBeforeCached /\ BatchInCache /\ BatchFirst

DeliveryInd ==
    /\ TypeOK /\ LeavesCacheSafely /\ IndexOrPersister
    /\ SentFirst /\ StoredFirst /\ CacheInOrder /\ OrderInd
-----------------------------------------------------------------------------
(* What is left of a sequence without its i-th element. *)
LEMMA RemoveAtIs ==
    ASSUME NEW S, NEW s \in Seq(S), NEW i \in 1..Len(s)
    PROVE  /\ RemoveAt(s, i) \in Seq(S)
           /\ Len(RemoveAt(s, i)) = Len(s) - 1
           /\ \A j \in 1..(Len(s) - 1) :
                RemoveAt(s, i)[j] = IF j < i THEN s[j] ELSE s[j + 1]
<1> DEFINE a == SubSeq(s, 1, i - 1)
           b == SubSeq(s, i + 1, Len(s))
<1>1. a \in Seq(S) /\ Len(a) = i - 1 /\ \A j \in 1..(i - 1) : a[j] = s[j]
    OBVIOUS
<1>2. b \in Seq(S) /\ Len(b) = Len(s) - i /\ \A j \in 1..(Len(s) - i) : b[j] = s[i + j]
    OBVIOUS
<1> HIDE DEF a, b
<1>3. RemoveAt(s, i) = a \o b
    BY DEF RemoveAt, a, b
<1>4. a \o b \in Seq(S) /\ Len(a \o b) = Len(s) - 1
    <2>1. Len(s) \in Nat /\ i \in Nat
        OBVIOUS
    <2>2. a \o b \in Seq(S) /\ Len(a \o b) = Len(a) + Len(b)
        BY <1>1, <1>2, ConcatProperties
    <2> QED BY <1>1, <1>2, <2>1, <2>2
<1>5. ASSUME NEW j \in 1..(Len(s) - 1)
      PROVE  (a \o b)[j] = IF j < i THEN s[j] ELSE s[j + 1]
    <2>1. CASE j < i
        BY <1>1, <1>2, <2>1
    <2>2. CASE ~(j < i)
        <3>1. j - (i - 1) \in 1..(Len(s) - i) /\ i + (j - (i - 1)) = j + 1
            BY <2>2
        <3>2. (a \o b)[j] = b[j - (i - 1)]
            BY <1>1, <1>2, <2>2, <3>1
        <3> QED BY <1>2, <2>2, <3>1, <3>2
    <2> QED BY <2>1, <2>2
<1> QED BY <1>3, <1>4, <1>5

(* redis::remove takes out the message and keeps the order of the others. *)
LEMMA CacheAfterRemove ==
    ASSUME TypeOK, CacheInOrder, NEW m, RemoveFromCache(m)
    PROVE  /\ cache' \in Seq(Msgs) /\ Range(cache') = Range(cache) \ {m}
           /\ CacheInOrder' /\ (cache' # <<>> => cache # <<>>)
           /\ indexed' \in BOOLEAN /\ (indexed' <=> indexed /\ cache' # <<>>)
<1>0. indexed' \in BOOLEAN /\ (indexed' <=> indexed /\ cache' # <<>>)
    BY DEF RemoveFromCache
<1>1. CASE m \notin Range(cache)
    <2>1. cache' = cache
        BY <1>1 DEF RemoveFromCache
    <2> QED BY <1>0, <1>1, <2>1 DEF TypeOK, CacheInOrder
<1>2. CASE m \in Range(cache)
    <2> DEFINE i == CHOOSE i \in DOMAIN cache : cache[i] = m
    <2>1. i \in DOMAIN cache /\ cache[i] = m
        BY <1>2 DEF Range
    <2>2. cache' = RemoveAt(cache, i)
        BY <1>2 DEF RemoveFromCache
    <2> HIDE DEF i
    <2>3. cache \in Seq(Msgs) /\ DOMAIN cache = 1..Len(cache) /\ Len(cache) \in Nat
        BY DEF TypeOK
    <2>4. /\ cache' \in Seq(Msgs) /\ Len(cache') = Len(cache) - 1
          /\ \A j \in 1..(Len(cache) - 1) : cache'[j] = IF j < i THEN cache[j] ELSE cache[j + 1]
        BY <2>1, <2>2, <2>3, RemoveAtIs
    <2>5. DOMAIN cache' = 1..(Len(cache) - 1)
        BY <2>3, <2>4
    <2>6. ASSUME NEW j \in DOMAIN cache, NEW k \in DOMAIN cache, j # k
          PROVE  cache[j] # cache[k]
        <3>1. cache[j] \in Int /\ cache[k] \in Int /\ (j < k \/ k < j)
            BY <2>3, <2>6 DEF Msgs, TypeOK
        <3> QED BY <3>1, <2>3 DEF CacheInOrder
    <2>7. Range(cache') \subseteq Range(cache) \ {m}
        <3>1. ASSUME NEW j \in DOMAIN cache' PROVE cache'[j] \in Range(cache) \ {m}
            <4>1. CASE j < i
                <5>1. j \in DOMAIN cache /\ j # i /\ cache'[j] = cache[j]
                    BY <2>1, <2>3, <2>4, <2>5, <4>1
                <5> QED BY <2>1, <2>6, <5>1 DEF Range
            <4>2. CASE ~(j < i)
                <5>1. j + 1 \in DOMAIN cache /\ j + 1 # i /\ cache'[j] = cache[j + 1]
                    BY <2>1, <2>3, <2>4, <2>5, <4>2
                <5> QED BY <2>1, <2>6, <5>1 DEF Range
            <4> QED BY <4>1, <4>2
        <3> QED BY <3>1 DEF Range
    <2>8. Range(cache) \ {m} \subseteq Range(cache')
        <3>1. ASSUME NEW j \in DOMAIN cache, cache[j] # m PROVE cache[j] \in Range(cache')
            <4>1. CASE j < i
                <5>1. j \in DOMAIN cache' /\ cache'[j] = cache[j]
                    BY <2>1, <2>3, <2>4, <2>5, <4>1
                <5> QED BY <5>1 DEF Range
            <4>2. CASE j > i
                <5>1. j - 1 \in DOMAIN cache' /\ cache'[j - 1] = cache[j]
                    BY <2>1, <2>3, <2>4, <2>5, <4>2
                <5> QED BY <5>1 DEF Range
            <4>3. j # i
                BY <2>1, <3>1
            <4> QED BY <2>1, <2>3, <4>1, <4>2, <4>3
        <3> QED BY <3>1 DEF Range
    <2>9. CacheInOrder'
        <3> SUFFICES ASSUME NEW j \in DOMAIN cache', NEW k \in DOMAIN cache', j < k
                     PROVE  cache'[j] < cache'[k]
            BY DEF CacheInOrder
        <3>1. /\ cache'[j] = IF j < i THEN cache[j] ELSE cache[j + 1]
              /\ cache'[k] = IF k < i THEN cache[k] ELSE cache[k + 1]
            BY <2>4, <2>5
        <3>2. j \in 1..Len(cache) /\ j + 1 \in 1..Len(cache) /\ k \in 1..Len(cache)
              /\ k + 1 \in 1..Len(cache)
            BY <2>3, <2>5
        <3> QED BY <2>1, <2>3, <3>1, <3>2 DEF CacheInOrder
    <2>10. cache # <<>>
        BY <2>1, <2>3
    <2> QED BY <1>0, <2>4, <2>7, <2>8, <2>9, <2>10
<1> QED BY <1>1, <1>2

LEMMA HeadTailIs ==
    ASSUME NEW S, NEW s \in Seq(S), s # <<>>
    PROVE  /\ Head(s) = s[1] /\ Head(s) \in S /\ Tail(s) \in Seq(S)
           /\ Len(Tail(s)) = Len(s) - 1 /\ Len(s) \in Nat \ {0}
           /\ \A i \in 1..(Len(s) - 1) : Tail(s)[i] = s[i + 1]
           /\ Range(s) = {Head(s)} \cup Range(Tail(s))
<1>1. /\ Head(s) = s[1] /\ Head(s) \in S /\ Tail(s) \in Seq(S)
      /\ Len(Tail(s)) = Len(s) - 1 /\ Len(s) \in Nat \ {0}
      /\ \A i \in 1..(Len(s) - 1) : Tail(s)[i] = s[i + 1]
    OBVIOUS
<1>2. DOMAIN s = 1..Len(s) /\ DOMAIN Tail(s) = 1..(Len(s) - 1)
    BY <1>1
<1>3. ASSUME NEW i \in 1..Len(s) PROVE s[i] \in {Head(s)} \cup Range(Tail(s))
    <2>1. CASE i = 1
        BY <1>1, <2>1
    <2>2. CASE i # 1
        <3>1. i - 1 \in 1..(Len(s) - 1) /\ (i - 1) + 1 = i
            BY <1>1, <2>2
        <3>2. Tail(s)[i - 1] = s[i]
            BY <1>1, <3>1
        <3> QED BY <1>2, <3>1, <3>2 DEF Range
    <2> QED BY <2>1, <2>2
<1>4. ASSUME NEW i \in 1..(Len(s) - 1) PROVE Tail(s)[i] \in Range(s)
    <2>1. i + 1 \in 1..Len(s) /\ Tail(s)[i] = s[i + 1]
        BY <1>1
    <2> QED BY <1>2, <2>1 DEF Range
<1>5. Head(s) \in Range(s)
    BY <1>1, <1>2 DEF Range
<1> QED BY <1>1, <1>2, <1>3, <1>4, <1>5 DEF Range

LEMMA AppendIs ==
    ASSUME NEW S, NEW s \in Seq(S), NEW x \in S
    PROVE  /\ Append(s, x) \in Seq(S) /\ Range(Append(s, x)) = Range(s) \cup {x}
           /\ DOMAIN Append(s, x) = 1..(Len(s) + 1) /\ Len(s) \in Nat
           /\ \A i \in 1..Len(s) : Append(s, x)[i] = s[i]
           /\ Append(s, x)[Len(s) + 1] = x
<1>1. /\ Append(s, x) \in Seq(S) /\ Len(s) \in Nat /\ DOMAIN s = 1..Len(s)
      /\ DOMAIN Append(s, x) = 1..(Len(s) + 1)
      /\ \A i \in 1..Len(s) : Append(s, x)[i] = s[i]
      /\ Append(s, x)[Len(s) + 1] = x
    OBVIOUS
<1>2. \A i \in 1..(Len(s) + 1) : i \in 1..Len(s) \/ i = Len(s) + 1
    BY <1>1
<1>3. \A i \in 1..Len(s) : i \in 1..(Len(s) + 1)
    BY <1>1
<1>4. Len(s) + 1 \in 1..(Len(s) + 1)
    BY <1>1
<1> QED BY <1>1, <1>2, <1>3, <1>4 DEF Range

LEMMA StepInsert ==
    ASSUME DeliveryInd, Insert
    PROVE  DeliveryInd'
<1> USE DeliveryAssumption DEF DeliveryInd, Insert, storeVars, connVars, persisterVars
<1> DEFINE n == inserted + 1
<1>a. Msgs' = Msgs \cup {n} /\ n \in Nat /\ \A x \in Msgs : x \in Nat /\ x < n
    BY DEF TypeOK, Msgs
<1>b. cache \in Seq(Msgs') /\ cache' = Append(cache, n)
    BY <1>a DEF TypeOK
<1> HIDE DEF n
<1>c. /\ Range(cache') = Range(cache) \cup {n} /\ DOMAIN cache' = 1..(Len(cache) + 1)
      /\ Len(cache) \in Nat /\ \A i \in 1..Len(cache) : cache'[i] = cache[i]
      /\ cache'[Len(cache) + 1] = n
    BY <1>a, <1>b, AppendIs
<1>d. /\ Range(cache) \subseteq Msgs /\ Range(written) \subseteq Msgs
      /\ DOMAIN cache = 1..Len(cache) /\ \A i \in DOMAIN batch : batch[i] \in Msgs
    BY DEF TypeOK, Range
<1> HIDE DEF Insert
<1>e. UNCHANGED <<db, conn, up, spc, batch, acks, written, persisted, failed>>
    BY DEF Insert
<1> USE DEF Insert
<1>1. TypeOK'
    BY SMTT(30) DEF TypeOK, Msgs
<1>2. LeavesCacheSafely'
    BY <1>a, <1>c DEF LeavesCacheSafely
<1>3. IndexOrPersister'
    BY DEF TypeOK, IndexOrPersister
<1>4. SentFirst'
    BY DEF TypeOK, SentFirst
<1>5. StoredFirst'
    BY DEF TypeOK, StoredFirst
<1>6. CacheInOrder'
    <2> SUFFICES ASSUME NEW i \in DOMAIN cache', NEW j \in DOMAIN cache', i < j
                 PROVE  cache'[i] < cache'[j]
        BY DEF CacheInOrder
    <2>1. i \in 1..Len(cache) /\ (j \in 1..Len(cache) \/ j = Len(cache) + 1)
        BY <1>c
    <2>2. cache[i] \in Msgs
        BY <1>d, <2>1 DEF Range
    <2> QED BY <1>a, <1>c, <1>d, <2>1, <2>2 DEF CacheInOrder
<1>7. OrderInd'
    <2> HIDE DEF Insert
    <2> SUFFICES ASSUME "delete" \notin failed
                 PROVE  (WrittenOnceInOrder /\ WrittenBeforeCached /\ BatchInCache /\ BatchFirst)'
        BY <1>e DEF OrderInd
    <2>1. WrittenOnceInOrder'
        BY <1>e DEF OrderInd, WrittenOnceInOrder
    <2>2. WrittenBeforeCached'
        BY <1>a, <1>c, <1>d, <1>e DEF OrderInd, WrittenBeforeCached
    <2>3. BatchInCache'
        <3>1. spc = "delDb" => Head(batch) \in Msgs
            BY HeadTailIs DEF SentFirst, TypeOK
        <3> QED BY <1>a, <1>c, <1>e, <3>1 DEF OrderInd, BatchInCache
    <2>4. BatchFirst'
        BY <1>a, <1>c, <1>d, <1>e DEF OrderInd, BatchFirst
    <2> QED BY <2>1, <2>2, <2>3, <2>4
<1> QED BY <1>1, <1>2, <1>3, <1>4, <1>5, <1>6, <1>7

LEMMA StepPayloadInserted ==
    ASSUME DeliveryInd, PayloadInserted
    PROVE  DeliveryInd'
<1> USE DeliveryAssumption DEF DeliveryInd, PayloadInserted, storeVars, connVars, persisterVars
<1>1. TypeOK'
    BY DEF TypeOK, Msgs
<1>2. LeavesCacheSafely'
    BY DEF TypeOK, LeavesCacheSafely, Msgs
<1>3. IndexOrPersister'
    BY DEF TypeOK, IndexOrPersister
<1>4. SentFirst'
    BY DEF TypeOK, SentFirst
<1>5. StoredFirst'
    BY DEF TypeOK, StoredFirst
<1>6. CacheInOrder'
    BY DEF TypeOK, CacheInOrder
<1>7. OrderInd'
    BY DEF TypeOK, OrderInd, WrittenOnceInOrder, WrittenBeforeCached, BatchInCache, BatchFirst
<1> QED BY <1>1, <1>2, <1>3, <1>4, <1>5, <1>6, <1>7

LEMMA StepConnect ==
    ASSUME DeliveryInd, Connect
    PROVE  DeliveryInd'
<1> USE DeliveryAssumption DEF DeliveryInd, Connect, storeVars, connVars, persisterVars
<1>1. TypeOK'
    BY DEF TypeOK, Msgs
<1>2. LeavesCacheSafely'
    BY DEF TypeOK, LeavesCacheSafely, Msgs
<1>3. IndexOrPersister'
    BY DEF TypeOK, IndexOrPersister
<1>4. SentFirst'
    BY DEF TypeOK, SentFirst
<1>5. StoredFirst'
    BY DEF TypeOK, StoredFirst
<1>6. CacheInOrder'
    BY DEF TypeOK, CacheInOrder
<1>7. OrderInd'
    <2>1. batch = <<>> /\ DOMAIN batch = {}
        BY DEF SentFirst
    <2> QED BY <2>1 DEF OrderInd, WrittenOnceInOrder, WrittenBeforeCached, BatchInCache, BatchFirst
<1> QED BY <1>1, <1>2, <1>3, <1>4, <1>5, <1>6, <1>7

LEMMA StepAddListener ==
    ASSUME DeliveryInd, AddListener
    PROVE  DeliveryInd'
<1> USE DeliveryAssumption DEF DeliveryInd, AddListener, storeVars, connVars, persisterVars
<1>1. TypeOK'
    BY DEF TypeOK, Msgs
<1>2. LeavesCacheSafely'
    BY DEF TypeOK, LeavesCacheSafely, Msgs
<1>3. IndexOrPersister'
    BY DEF TypeOK, IndexOrPersister
<1>4. SentFirst'
    BY DEF TypeOK, SentFirst
<1>5. StoredFirst'
    BY DEF TypeOK, StoredFirst
<1>6. CacheInOrder'
    BY DEF TypeOK, CacheInOrder
<1>7. OrderInd'
    BY DEF TypeOK, OrderInd, WrittenOnceInOrder, WrittenBeforeCached, BatchInCache, BatchFirst
<1> QED BY <1>1, <1>2, <1>3, <1>4, <1>5, <1>6, <1>7

LEMMA StepNotifyNobody ==
    ASSUME DeliveryInd, NotifyNobody
    PROVE  DeliveryInd'
<1> USE DeliveryAssumption DEF DeliveryInd, NotifyNobody, storeVars, connVars, persisterVars
<1>1. TypeOK'
    BY DEF TypeOK, Msgs
<1>2. LeavesCacheSafely'
    BY DEF TypeOK, LeavesCacheSafely, Msgs
<1>3. IndexOrPersister'
    BY DEF TypeOK, IndexOrPersister
<1>4. SentFirst'
    BY DEF TypeOK, SentFirst
<1>5. StoredFirst'
    BY DEF TypeOK, StoredFirst
<1>6. CacheInOrder'
    BY DEF TypeOK, CacheInOrder
<1>7. OrderInd'
    BY DEF TypeOK, OrderInd, WrittenOnceInOrder, WrittenBeforeCached, BatchInCache, BatchFirst
<1> QED BY <1>1, <1>2, <1>3, <1>4, <1>5, <1>6, <1>7

LEMMA StepNotifyCached ==
    ASSUME DeliveryInd, NotifyCached
    PROVE  DeliveryInd'
<1> USE DeliveryAssumption DEF DeliveryInd, NotifyCached, storeVars, connVars, persisterVars
<1>1. TypeOK'
    <2>1. wake' \in Nat
        BY DEF TypeOK
    <2> QED BY <2>1 DEF TypeOK, Msgs
<1>2. LeavesCacheSafely'
    BY DEF TypeOK, LeavesCacheSafely, Msgs
<1>3. IndexOrPersister'
    BY DEF TypeOK, IndexOrPersister
<1>4. SentFirst'
    BY DEF TypeOK, SentFirst
<1>5. StoredFirst'
    BY DEF TypeOK, StoredFirst
<1>6. CacheInOrder'
    BY DEF TypeOK, CacheInOrder
<1>7. OrderInd'
    BY DEF TypeOK, OrderInd, WrittenOnceInOrder, WrittenBeforeCached, BatchInCache, BatchFirst
<1> QED BY <1>1, <1>2, <1>3, <1>4, <1>5, <1>6, <1>7

LEMMA StepNotifyPersisted ==
    ASSUME DeliveryInd, NotifyPersisted
    PROVE  DeliveryInd'
<1> USE DeliveryAssumption DEF DeliveryInd, NotifyPersisted, storeVars, connVars, persisterVars
<1>1. TypeOK'
    BY DEF TypeOK, Msgs
<1>2. LeavesCacheSafely'
    BY DEF TypeOK, LeavesCacheSafely, Msgs
<1>3. IndexOrPersister'
    BY DEF TypeOK, IndexOrPersister
<1>4. SentFirst'
    BY DEF TypeOK, SentFirst
<1>5. StoredFirst'
    BY DEF TypeOK, StoredFirst
<1>6. CacheInOrder'
    BY DEF TypeOK, CacheInOrder
<1>7. OrderInd'
    BY DEF TypeOK, OrderInd, WrittenOnceInOrder, WrittenBeforeCached, BatchInCache, BatchFirst
<1> QED BY <1>1, <1>2, <1>3, <1>4, <1>5, <1>6, <1>7

LEMMA StepFetchCached ==
    ASSUME DeliveryInd, FetchCached
    PROVE  DeliveryInd'
<1> USE DeliveryAssumption DEF DeliveryInd, FetchCached, storeVars, connVars, persisterVars
<1>a. batch' = <<>> \/ batch' = cache
    OBVIOUS
<1>b. spc' \in {"fetchDb", "send"}
    OBVIOUS
<1>1. TypeOK'
    <2>1. batch' \in Seq(Msgs)
        BY <1>a DEF TypeOK
    <2> QED BY <1>b, <2>1 DEF TypeOK, Msgs
<1>2. LeavesCacheSafely'
    BY DEF TypeOK, LeavesCacheSafely, Msgs
<1>3. IndexOrPersister'
    BY DEF TypeOK, IndexOrPersister
<1>4. SentFirst'
    BY DEF TypeOK, SentFirst
<1>5. StoredFirst'
    BY DEF TypeOK, StoredFirst
<1>6. CacheInOrder'
    BY DEF TypeOK, CacheInOrder
<1>7. OrderInd'
    <2> SUFFICES ASSUME "delete" \notin failed
                 PROVE  (WrittenOnceInOrder /\ WrittenBeforeCached /\ BatchInCache /\ BatchFirst)'
        BY DEF OrderInd
    <2>1. (WrittenOnceInOrder /\ WrittenBeforeCached)'
        BY DEF OrderInd, WrittenOnceInOrder, WrittenBeforeCached
    <2>2. CASE batch' = <<>>
        BY <1>b, <2>1, <2>2 DEF BatchInCache, BatchFirst
    <2>3. CASE batch' = cache
        BY <1>b, <2>1, <2>3 DEF BatchInCache, BatchFirst, CacheInOrder, Range
    <2> QED BY <1>a, <2>2, <2>3
<1> QED BY <1>1, <1>2, <1>3, <1>4, <1>5, <1>6, <1>7

LEMMA StepFetchPersisted ==
    ASSUME DeliveryInd, FetchPersisted
    PROVE  DeliveryInd'
<1> USE DeliveryAssumption DEF DeliveryInd, FetchPersisted, storeVars, connVars, persisterVars
<1>1. TypeOK'
    BY DEF TypeOK, Msgs
<1>2. LeavesCacheSafely'
    BY DEF TypeOK, LeavesCacheSafely, Msgs
<1>3. IndexOrPersister'
    BY DEF TypeOK, IndexOrPersister
<1>4. SentFirst'
    BY DEF TypeOK, SentFirst
<1>5. StoredFirst'
    BY DEF TypeOK, StoredFirst
<1>6. CacheInOrder'
    BY DEF TypeOK, CacheInOrder
<1>7. OrderInd'
    <2> SUFFICES ASSUME "delete" \notin failed
                 PROVE  (WrittenOnceInOrder /\ WrittenBeforeCached /\ BatchInCache /\ BatchFirst)'
        BY DEF OrderInd
    <2>1. (WrittenOnceInOrder /\ WrittenBeforeCached)'
        BY DEF OrderInd, WrittenOnceInOrder, WrittenBeforeCached
    <2>2. /\ DOMAIN batch = 1..Len(batch) /\ Len(batch) \in Nat /\ Len(db) \in Nat
          /\ DOMAIN batch' = 1..(Len(batch) + Len(db))
          /\ \A i \in 1..Len(batch) : batch'[i] = batch[i]
          /\ \A i \in 1..Len(db) : batch'[Len(batch) + i] = db[i]
        BY DEF TypeOK
    <2>3. ASSUME NEW i \in DOMAIN batch', batch'[i] \notin persisted
          PROVE  i \in DOMAIN batch /\ batch'[i] = batch[i]
        <3>1. CASE i \in 1..Len(batch)
            BY <2>2, <3>1
        <3>2. CASE i \notin 1..Len(batch)
            <4>1. i - Len(batch) \in 1..Len(db) /\ Len(batch) + (i - Len(batch)) = i
                BY <2>2, <3>2
            <4>2. batch'[i] = db[i - Len(batch)]
                BY <2>2, <4>1
            <4>3. db[i - Len(batch)] \in Range(db)
                BY <4>1 DEF Range, TypeOK
            <4> QED BY <2>3, <4>2, <4>3 DEF StoredFirst
        <3> QED BY <3>1, <3>2
    <2>4. Range(batch) \subseteq Range(batch')
        BY <2>2 DEF Range
    <2>5. BatchInCache'
        BY <2>3 DEF OrderInd, BatchInCache
    <2>6. BatchFirst'
        BY <2>3, <2>4 DEF OrderInd, BatchFirst
    <2> QED BY <2>1, <2>5, <2>6
<1> QED BY <1>1, <1>2, <1>3, <1>4, <1>5, <1>6, <1>7

LEMMA StepSendMessage ==
    ASSUME DeliveryInd, SendMessage
    PROVE  DeliveryInd'
<1> USE DeliveryAssumption DEF DeliveryInd, SendMessage, storeVars, connVars, persisterVars
<1> DEFINE b == Head(batch)
<1>a. b \in Msgs /\ b = batch[1] /\ 1 \in DOMAIN batch /\ b \in Range(batch)
    BY HeadTailIs DEF TypeOK
<1>b. /\ written' \in Seq(Msgs) /\ Range(written') = Range(written) \cup {b}
      /\ DOMAIN written' = 1..(Len(written) + 1) /\ DOMAIN written = 1..Len(written)
      /\ Len(written) \in Nat
      /\ \A i \in 1..Len(written) : written'[i] = written[i]
      /\ written'[Len(written) + 1] = b
    BY <1>a, AppendIs DEF TypeOK
<1>c. spc' = "delCache" /\ acks' = acks \cup {b} /\ spc = "send" /\ up
    OBVIOUS
<1>d. UNCHANGED <<inserted, failed, cache, db, up, batch, persisted>>
    OBVIOUS
<1>1. TypeOK'
    BY <1>a, <1>b DEF TypeOK, Msgs
<1>2. LeavesCacheSafely'
    BY <1>b, <1>d DEF LeavesCacheSafely, Msgs
<1>3. IndexOrPersister'
    BY DEF TypeOK, IndexOrPersister
<1>4. SentFirst'
    BY <1>b, <1>c, <1>d DEF SentFirst
<1>5. StoredFirst'
    BY DEF TypeOK, StoredFirst
<1>6. CacheInOrder'
    BY DEF TypeOK, CacheInOrder
<1>7. OrderInd'
    <2> HIDE DEF SendMessage, b
    <2> SUFFICES ASSUME "delete" \notin failed
                 PROVE  (WrittenOnceInOrder /\ WrittenBeforeCached /\ BatchInCache /\ BatchFirst)'
        BY <1>d DEF OrderInd
    <2>1. ASSUME b \notin persisted, NEW w \in Range(written), w \notin persisted PROVE w < b
        <3>1. b \in Range(cache)
            BY <1>a, <1>c, <2>1 DEF OrderInd, BatchInCache
        <3> QED BY <1>c, <2>1, <3>1 DEF OrderInd, WrittenBeforeCached
    <2>2. WrittenOnceInOrder'
        <3> SUFFICES ASSUME NEW i \in DOMAIN written', NEW j \in DOMAIN written', i < j,
                            written'[i] \notin persisted, written'[j] \notin persisted
                     PROVE  written'[i] < written'[j]
            BY <1>d DEF WrittenOnceInOrder
        <3>1. i \in 1..Len(written) /\ (j \in 1..Len(written) \/ j = Len(written) + 1)
            BY <1>b
        <3>2. written[i] \in Range(written) /\ written'[i] = written[i]
            BY <1>b, <3>1 DEF Range
        <3>3. CASE j \in 1..Len(written)
            BY <1>b, <3>1, <3>2, <3>3 DEF OrderInd, WrittenOnceInOrder
        <3>4. CASE j = Len(written) + 1
            BY <1>b, <2>1, <3>2, <3>4
        <3> QED BY <3>1, <3>3, <3>4
    <2>3. ASSUME b \notin persisted, NEW c \in Range(cache), c \notin persisted
          PROVE  b < c \/ b = c
        <3>1. c \in Range(batch) \/ b < c
            BY <1>a, <1>c, <2>3 DEF OrderInd, BatchFirst
        <3>2. ASSUME NEW k \in DOMAIN batch, batch[k] = c, k # 1 PROVE b < c
            <4>1. 1 < k
                BY <3>2 DEF TypeOK
            <4> QED BY <1>a, <2>3, <3>2, <4>1 DEF OrderInd, BatchInCache
        <3> QED BY <1>a, <3>1, <3>2 DEF Range
    <2>4. WrittenBeforeCached'
        BY <1>b, <1>c, <1>d, <2>3 DEF OrderInd, WrittenBeforeCached, b
    <2>5. BatchInCache' /\ BatchFirst'
        BY <1>c, <1>d DEF OrderInd, BatchInCache, BatchFirst
    <2> QED BY <2>2, <2>4, <2>5
<1> QED BY <1>1, <1>2, <1>3, <1>4, <1>5, <1>6, <1>7

LEMMA StepSendFails ==
    ASSUME DeliveryInd, SendFails
    PROVE  DeliveryInd'
<1> USE DeliveryAssumption DEF DeliveryInd, SendFails, storeVars, connVars, persisterVars
<1> USE DEF StoreFault
<1>1. TypeOK'
    BY DEF TypeOK, Msgs
<1>2. LeavesCacheSafely'
    BY DEF TypeOK, LeavesCacheSafely, Msgs
<1>3. IndexOrPersister'
    BY DEF TypeOK, IndexOrPersister
<1>4. SentFirst'
    BY DEF TypeOK, SentFirst
<1>5. StoredFirst'
    BY DEF TypeOK, StoredFirst
<1>6. CacheInOrder'
    BY DEF TypeOK, CacheInOrder
<1>7. OrderInd'
    BY SMTT(30) DEF TypeOK, OrderInd, WrittenOnceInOrder, WrittenBeforeCached, BatchInCache, BatchFirst
<1> QED BY <1>1, <1>2, <1>3, <1>4, <1>5, <1>6, <1>7

LEMMA StepDeleteCached ==
    ASSUME DeliveryInd, DeleteCached
    PROVE  DeliveryInd'
<1> USE DeliveryAssumption DEF DeliveryInd, DeleteCached, storeVars, connVars, persisterVars
<1>a. /\ cache' \in Seq(Msgs) /\ Range(cache') = Range(cache) \ {Head(batch)}
      /\ CacheInOrder' /\ (cache' # <<>> => cache # <<>>)
      /\ indexed' \in BOOLEAN /\ (indexed' <=> indexed /\ cache' # <<>>)
    BY CacheAfterRemove
<1>b. UNCHANGED <<inserted, failed, up, batch, written, persisted>>
    OBVIOUS
<1>c. spc = "delCache" /\ spc' = "delDb" /\ batch # <<>> /\ Head(batch) \in Range(written)
    BY DEF SentFirst
<1>d. Head(batch) = batch[1] /\ DOMAIN batch = 1..Len(batch)
    BY <1>c, HeadTailIs DEF TypeOK
<1>1. TypeOK'
    BY <1>a DEF TypeOK, Msgs
<1>2. LeavesCacheSafely'
    BY <1>a, <1>b, <1>c DEF LeavesCacheSafely, Msgs
<1>3. IndexOrPersister'
    BY <1>a DEF IndexOrPersister
<1>4. SentFirst'
    BY DEF TypeOK, SentFirst
<1>5. StoredFirst'
    BY DEF TypeOK, StoredFirst
<1>6. CacheInOrder'
    BY <1>a
<1>7. OrderInd'
    <2> HIDE DEF DeleteCached
    <2> SUFFICES ASSUME "delete" \notin failed
                 PROVE  (WrittenOnceInOrder /\ WrittenBeforeCached /\ BatchInCache /\ BatchFirst)'
        BY <1>b DEF OrderInd
    <2>1. WrittenOnceInOrder'
        BY <1>b DEF OrderInd, WrittenOnceInOrder
    <2>2. WrittenBeforeCached'
        BY <1>a, <1>b, <1>c DEF OrderInd, WrittenBeforeCached
    <2>3. BatchInCache'
        <3>1. ASSUME NEW i \in DOMAIN batch, batch[i] \notin persisted, i # 1
              PROVE  batch[i] \in Range(cache')
            <4>1. batch[i] \in Range(cache)
                BY <1>c, <3>1 DEF OrderInd, BatchInCache
            <4>2. CASE batch[1] \in persisted
                BY <1>a, <1>d, <3>1, <4>1, <4>2
            <4>3. CASE batch[1] \notin persisted
                <5>1. 1 \in DOMAIN batch /\ 1 < i
                    BY <1>c, <1>d, <3>1 DEF TypeOK
                <5>2. batch[1] < batch[i] /\ batch[1] \in Nat /\ batch[i] \in Nat
                    BY <3>1, <4>3, <5>1 DEF OrderInd, BatchInCache, TypeOK, Msgs
                <5> QED BY <1>a, <1>d, <4>1, <5>2
            <4> QED BY <4>2, <4>3
        <3> QED BY <1>a, <1>b, <1>c, <3>1 DEF OrderInd, BatchInCache
    <2>4. BatchFirst'
        BY <1>a, <1>b DEF OrderInd, BatchFirst
    <2> QED BY <2>1, <2>2, <2>3, <2>4
<1> QED BY <1>1, <1>2, <1>3, <1>4, <1>5, <1>6, <1>7

LEMMA StepDeletePersisted ==
    ASSUME DeliveryInd, DeletePersisted
    PROVE  DeliveryInd'
<1> USE DeliveryAssumption DEF DeliveryInd, DeletePersisted, storeVars, connVars, persisterVars
<1>a. batch # <<>> /\ spc = "delDb" /\ spc' = "send" /\ db' = <<>>
    BY DEF SentFirst, WipeTable
<1>b. /\ Head(batch) = batch[1] /\ batch' \in Seq(Msgs)
      /\ DOMAIN batch' = 1..(Len(batch) - 1) /\ DOMAIN batch = 1..Len(batch) /\ Len(batch) \in Nat
      /\ \A i \in 1..(Len(batch) - 1) : batch'[i] = batch[i + 1]
      /\ Range(batch) = {Head(batch)} \cup Range(batch')
    BY <1>a, HeadTailIs DEF TypeOK
<1>1. TypeOK'
    BY <1>a, <1>b DEF TypeOK, Msgs
<1>2. LeavesCacheSafely'
    BY DEF TypeOK, LeavesCacheSafely, Msgs
<1>3. IndexOrPersister'
    BY DEF TypeOK, IndexOrPersister
<1>4. SentFirst'
    BY DEF TypeOK, SentFirst
<1>5. StoredFirst'
    BY <1>a DEF StoredFirst, Range
<1>6. CacheInOrder'
    BY DEF TypeOK, CacheInOrder
<1>7. OrderInd'
    <2> SUFFICES ASSUME "delete" \notin failed
                 PROVE  (WrittenOnceInOrder /\ WrittenBeforeCached /\ BatchInCache /\ BatchFirst)'
        BY DEF OrderInd
    <2>0. UNCHANGED <<inserted, failed, cache, up, written, persisted>>
        OBVIOUS
    <2> HIDE DEF DeletePersisted
    <2>1. (WrittenOnceInOrder /\ WrittenBeforeCached)'
        BY <1>a, <2>0 DEF OrderInd, WrittenOnceInOrder, WrittenBeforeCached
    <2>2. ASSUME NEW i \in DOMAIN batch'
          PROVE  i + 1 \in DOMAIN batch /\ i + 1 # 1 /\ batch'[i] = batch[i + 1]
        BY <1>b
    <2>3. BatchInCache'
        <3>1. ASSUME NEW i \in DOMAIN batch', batch'[i] \notin persisted
              PROVE  batch'[i] \in Range(cache)
            BY <2>2, <3>1 DEF OrderInd, BatchInCache
        <3>2. ASSUME NEW i \in DOMAIN batch', NEW j \in DOMAIN batch', i < j,
                     batch'[i] \notin persisted, batch'[j] \notin persisted
              PROVE  batch'[i] < batch'[j]
            <4>1. i + 1 < j + 1
                BY <1>b, <3>2
            <4> QED BY <2>2, <3>2, <4>1 DEF OrderInd, BatchInCache
        <3> QED BY <1>a, <2>0, <3>1, <3>2 DEF BatchInCache
    <2>4. BatchFirst'
        <3>1. Head(batch) \notin Range(cache)
            BY <1>a DEF OrderInd, BatchInCache
        <3> QED BY <1>b, <2>0, <2>2, <3>1 DEF OrderInd, BatchFirst
    <2> QED BY <2>1, <2>3, <2>4
<1> QED BY <1>1, <1>2, <1>3, <1>4, <1>5, <1>6, <1>7

LEMMA StepSendDone ==
    ASSUME DeliveryInd, SendDone
    PROVE  DeliveryInd'
<1> USE DeliveryAssumption DEF DeliveryInd, SendDone, storeVars, connVars, persisterVars
<1>1. TypeOK'
    BY DEF TypeOK, Msgs
<1>2. LeavesCacheSafely'
    BY DEF TypeOK, LeavesCacheSafely, Msgs
<1>3. IndexOrPersister'
    BY DEF TypeOK, IndexOrPersister
<1>4. SentFirst'
    BY DEF TypeOK, SentFirst
<1>5. StoredFirst'
    BY DEF TypeOK, StoredFirst
<1>6. CacheInOrder'
    BY DEF TypeOK, CacheInOrder
<1>7. OrderInd'
    BY DEF TypeOK, OrderInd, WrittenOnceInOrder, WrittenBeforeCached, BatchInCache, BatchFirst
<1> QED BY <1>1, <1>2, <1>3, <1>4, <1>5, <1>6, <1>7

LEMMA StepAcknowledge ==
    ASSUME DeliveryInd, NEW m \in acks, Acknowledge(m)
    PROVE  DeliveryInd'
<1> USE DeliveryAssumption DEF DeliveryInd, Acknowledge, storeVars, connVars, persisterVars
<1>a. /\ cache' \in Seq(Msgs) /\ Range(cache') = Range(cache) \ {m}
      /\ CacheInOrder' /\ (cache' # <<>> => cache # <<>>)
      /\ indexed' \in BOOLEAN /\ (indexed' <=> indexed /\ cache' # <<>>)
    BY CacheAfterRemove
<1>b. UNCHANGED <<inserted, failed, up, batch, written, persisted>> /\ m \in Range(written)
    BY DEF SentFirst
<1>c. spc = "idle" /\ spc' = "ackDb" /\ batch = <<>> /\ DOMAIN batch = {}
    BY DEF SentFirst
<1>1. TypeOK'
    BY <1>a DEF TypeOK, Msgs
<1>2. LeavesCacheSafely'
    BY <1>a, <1>b DEF LeavesCacheSafely, Msgs
<1>3. IndexOrPersister'
    BY <1>a DEF IndexOrPersister
<1>4. SentFirst'
    BY DEF TypeOK, SentFirst
<1>5. StoredFirst'
    BY DEF TypeOK, StoredFirst
<1>6. CacheInOrder'
    BY <1>a
<1>7. OrderInd'
    <2> HIDE DEF Acknowledge
    <2> QED BY <1>a, <1>b, <1>c DEF OrderInd, WrittenOnceInOrder, WrittenBeforeCached, BatchInCache,
               BatchFirst
<1> QED BY <1>1, <1>2, <1>3, <1>4, <1>5, <1>6, <1>7

LEMMA StepAcknowledgePersisted ==
    ASSUME DeliveryInd, AcknowledgePersisted
    PROVE  DeliveryInd'
<1> USE DeliveryAssumption DEF DeliveryInd, AcknowledgePersisted, storeVars, connVars, persisterVars
<1>a. db' = <<>> /\ db' \in Seq(Msgs)
    BY DEF WipeTable
<1>1. TypeOK'
    BY <1>a DEF TypeOK, Msgs
<1>2. LeavesCacheSafely'
    BY DEF TypeOK, LeavesCacheSafely, Msgs
<1>3. IndexOrPersister'
    BY DEF TypeOK, IndexOrPersister
<1>4. SentFirst'
    BY DEF TypeOK, SentFirst
<1>5. StoredFirst'
    BY <1>a DEF StoredFirst, Range
<1>6. CacheInOrder'
    BY DEF TypeOK, CacheInOrder
<1>7. OrderInd'
    BY DEF TypeOK, OrderInd, WrittenOnceInOrder, WrittenBeforeCached, BatchInCache, BatchFirst
<1> QED BY <1>1, <1>2, <1>3, <1>4, <1>5, <1>6, <1>7

LEMMA StepClose ==
    ASSUME DeliveryInd, Close
    PROVE  DeliveryInd'
<1> USE DeliveryAssumption DEF DeliveryInd, Close, storeVars, connVars, persisterVars
<1>1. TypeOK'
    BY DEF TypeOK, Msgs
<1>2. LeavesCacheSafely'
    BY DEF TypeOK, LeavesCacheSafely, Msgs
<1>3. IndexOrPersister'
    BY DEF TypeOK, IndexOrPersister
<1>4. SentFirst'
    BY DEF TypeOK, SentFirst
<1>5. StoredFirst'
    BY DEF TypeOK, StoredFirst
<1>6. CacheInOrder'
    BY DEF TypeOK, CacheInOrder
<1>7. OrderInd'
    BY DEF TypeOK, OrderInd, WrittenOnceInOrder, WrittenBeforeCached, BatchInCache, BatchFirst
<1> QED BY <1>1, <1>2, <1>3, <1>4, <1>5, <1>6, <1>7

LEMMA StepPick ==
    ASSUME DeliveryInd, Pick
    PROVE  DeliveryInd'
<1> USE DeliveryAssumption DEF DeliveryInd, Pick, storeVars, connVars, persisterVars
<1>1. TypeOK'
    BY DEF TypeOK, Msgs
<1>2. LeavesCacheSafely'
    BY DEF TypeOK, LeavesCacheSafely, Msgs
<1>3. IndexOrPersister'
    BY DEF TypeOK, IndexOrPersister
<1>4. SentFirst'
    BY DEF TypeOK, SentFirst
<1>5. StoredFirst'
    BY DEF TypeOK, StoredFirst
<1>6. CacheInOrder'
    BY DEF TypeOK, CacheInOrder
<1>7. OrderInd'
    BY DEF TypeOK, OrderInd, WrittenOnceInOrder, WrittenBeforeCached, BatchInCache, BatchFirst
<1> QED BY <1>1, <1>2, <1>3, <1>4, <1>5, <1>6, <1>7

LEMMA StepLockQueue ==
    ASSUME DeliveryInd, LockQueue
    PROVE  DeliveryInd'
<1> USE DeliveryAssumption DEF DeliveryInd, LockQueue, storeVars, connVars, persisterVars
<1>1. TypeOK'
    BY DEF TypeOK, Msgs
<1>2. LeavesCacheSafely'
    BY DEF TypeOK, LeavesCacheSafely, Msgs
<1>3. IndexOrPersister'
    BY DEF TypeOK, IndexOrPersister
<1>4. SentFirst'
    BY DEF TypeOK, SentFirst
<1>5. StoredFirst'
    BY DEF TypeOK, StoredFirst
<1>6. CacheInOrder'
    BY DEF TypeOK, CacheInOrder
<1>7. OrderInd'
    BY DEF TypeOK, OrderInd, WrittenOnceInOrder, WrittenBeforeCached, BatchInCache, BatchFirst
<1> QED BY <1>1, <1>2, <1>3, <1>4, <1>5, <1>6, <1>7

LEMMA StepReadQueue ==
    ASSUME DeliveryInd, ReadQueue
    PROVE  DeliveryInd'
<1> USE DeliveryAssumption DEF DeliveryInd, ReadQueue, storeVars, connVars, persisterVars
<1>1. TypeOK'
    BY DEF TypeOK, Msgs
<1>2. LeavesCacheSafely'
    BY DEF TypeOK, LeavesCacheSafely, Msgs
<1>3. IndexOrPersister'
    BY DEF TypeOK, IndexOrPersister
<1>4. SentFirst'
    BY DEF TypeOK, SentFirst
<1>5. StoredFirst'
    BY DEF TypeOK, StoredFirst
<1>6. CacheInOrder'
    BY DEF TypeOK, CacheInOrder
<1>7. OrderInd'
    BY DEF TypeOK, OrderInd, WrittenOnceInOrder, WrittenBeforeCached, BatchInCache, BatchFirst
<1> QED BY <1>1, <1>2, <1>3, <1>4, <1>5, <1>6, <1>7

LEMMA StepPushMessage ==
    ASSUME DeliveryInd, PushMessage
    PROVE  DeliveryInd'
<1> USE DeliveryAssumption DEF DeliveryInd, PushMessage, storeVars, connVars, persisterVars
<1>a. /\ Head(toPush) \in Msgs /\ toPush' \in Seq(Msgs)
      /\ Range(toPush) = {Head(toPush)} \cup Range(toPush')
    BY HeadTailIs DEF TypeOK
<1>b. db' \in Seq(Msgs) /\ Range(db') = Range(db) \cup {Head(toPush)}
    BY <1>a, AppendIs DEF TypeOK
<1>1. TypeOK'
    BY <1>a, <1>b DEF TypeOK, Msgs
<1>2. LeavesCacheSafely'
    BY DEF TypeOK, LeavesCacheSafely, Msgs
<1>3. IndexOrPersister'
    BY DEF TypeOK, IndexOrPersister
<1>4. SentFirst'
    BY DEF TypeOK, SentFirst
<1>5. StoredFirst'
    BY <1>a, <1>b DEF StoredFirst
<1>6. CacheInOrder'
    BY DEF TypeOK, CacheInOrder
<1>7. OrderInd'
    BY DEF TypeOK, OrderInd, WrittenOnceInOrder, WrittenBeforeCached, BatchInCache, BatchFirst
<1> QED BY <1>1, <1>2, <1>3, <1>4, <1>5, <1>6, <1>7

LEMMA StepRemoveMessage ==
    ASSUME DeliveryInd, RemoveMessage
    PROVE  DeliveryInd'
<1> USE DeliveryAssumption DEF DeliveryInd, RemoveMessage, storeVars, connVars, persisterVars
<1>a. /\ cache' \in Seq(Msgs) /\ Range(cache') = Range(cache) \ {Head(toRemove)}
      /\ CacheInOrder' /\ (cache' # <<>> => cache # <<>>)
      /\ indexed' \in BOOLEAN /\ (indexed' <=> indexed /\ cache' # <<>>)
    BY CacheAfterRemove
<1>b. toRemove' \in Seq(Msgs) /\ Range(toRemove) = {Head(toRemove)} \cup Range(toRemove')
    BY HeadTailIs DEF TypeOK
<1>c. Head(toRemove) \in persisted
    <2>1. Range(toPush) = {}
        BY DEF Range
    <2> QED BY <1>b, <2>1 DEF StoredFirst
<1>d. UNCHANGED <<inserted, failed, up, spc, batch, written, persisted, toPush, db>>
    OBVIOUS
<1>1. TypeOK'
    BY <1>a, <1>b DEF TypeOK, Msgs
<1>2. LeavesCacheSafely'
    BY <1>a, <1>c, <1>d DEF LeavesCacheSafely, Msgs
<1>3. IndexOrPersister'
    BY <1>a DEF IndexOrPersister
<1>4. SentFirst'
    BY DEF TypeOK, SentFirst
<1>5. StoredFirst'
    BY <1>b, <1>d DEF StoredFirst
<1>6. CacheInOrder'
    BY <1>a
<1>7. OrderInd'
    <2> HIDE DEF RemoveMessage
    <2>1. Range(cache') \ persisted = Range(cache) \ persisted
        BY <1>a, <1>c
    <2> SUFFICES ASSUME "delete" \notin failed
                 PROVE  (WrittenOnceInOrder /\ WrittenBeforeCached /\ BatchInCache /\ BatchFirst)'
        BY <1>d DEF OrderInd
    <2>2. WrittenOnceInOrder' /\ WrittenBeforeCached' /\ BatchFirst'
        BY <1>d, <2>1 DEF OrderInd, WrittenOnceInOrder, WrittenBeforeCached, BatchFirst
    <2>3. BatchInCache'
        BY <1>a, <1>d, <2>1 DEF OrderInd, BatchInCache
    <2> QED BY <2>2, <2>3
<1> QED BY <1>1, <1>2, <1>3, <1>4, <1>5, <1>6, <1>7

LEMMA StepBatchDone ==
    ASSUME DeliveryInd, BatchDone
    PROVE  DeliveryInd'
<1> USE DeliveryAssumption DEF DeliveryInd, BatchDone, storeVars, connVars, persisterVars
<1>1. TypeOK'
    BY DEF TypeOK, Msgs
<1>2. LeavesCacheSafely'
    BY DEF TypeOK, LeavesCacheSafely, Msgs
<1>3. IndexOrPersister'
    BY DEF TypeOK, IndexOrPersister
<1>4. SentFirst'
    BY DEF TypeOK, SentFirst
<1>5. StoredFirst'
    BY DEF TypeOK, StoredFirst
<1>6. CacheInOrder'
    BY DEF TypeOK, CacheInOrder
<1>7. OrderInd'
    BY DEF TypeOK, OrderInd, WrittenOnceInOrder, WrittenBeforeCached, BatchInCache, BatchFirst
<1> QED BY <1>1, <1>2, <1>3, <1>4, <1>5, <1>6, <1>7

LEMMA StepUnlockQueue ==
    ASSUME DeliveryInd, UnlockQueue
    PROVE  DeliveryInd'
<1> USE DeliveryAssumption DEF DeliveryInd, UnlockQueue, storeVars, connVars, persisterVars
<1>1. TypeOK'
    <2>1. wakeP' \in Nat
        BY DEF TypeOK
    <2> QED BY <2>1 DEF TypeOK, Msgs
<1>2. LeavesCacheSafely'
    BY DEF TypeOK, LeavesCacheSafely, Msgs
<1>3. IndexOrPersister'
    BY DEF TypeOK, IndexOrPersister
<1>4. SentFirst'
    BY DEF TypeOK, SentFirst
<1>5. StoredFirst'
    BY DEF TypeOK, StoredFirst
<1>6. CacheInOrder'
    BY DEF TypeOK, CacheInOrder
<1>7. OrderInd'
    BY DEF TypeOK, OrderInd, WrittenOnceInOrder, WrittenBeforeCached, BatchInCache, BatchFirst
<1> QED BY <1>1, <1>2, <1>3, <1>4, <1>5, <1>6, <1>7

LEMMA StepLockExpires ==
    ASSUME DeliveryInd, LockExpires
    PROVE  DeliveryInd'
<1> USE DeliveryAssumption DEF DeliveryInd, LockExpires, storeVars, connVars, persisterVars
<1>1. TypeOK'
    BY DEF TypeOK, Msgs
<1>2. LeavesCacheSafely'
    BY DEF TypeOK, LeavesCacheSafely, Msgs
<1>3. IndexOrPersister'
    BY DEF TypeOK, IndexOrPersister
<1>4. SentFirst'
    BY DEF TypeOK, SentFirst
<1>5. StoredFirst'
    BY DEF TypeOK, StoredFirst
<1>6. CacheInOrder'
    BY DEF TypeOK, CacheInOrder
<1>7. OrderInd'
    BY DEF TypeOK, OrderInd, WrittenOnceInOrder, WrittenBeforeCached, BatchInCache, BatchFirst
<1> QED BY <1>1, <1>2, <1>3, <1>4, <1>5, <1>6, <1>7

LEMMA StepBreak ==
    ASSUME DeliveryInd, Break
    PROVE  DeliveryInd'
<1> USE DeliveryAssumption DEF DeliveryInd, Break, storeVars, connVars, persisterVars
<1>1. TypeOK'
    BY ZenonT(40) DEF TypeOK, Msgs
<1>2. LeavesCacheSafely'
    BY DEF TypeOK, LeavesCacheSafely, Msgs
<1>3. IndexOrPersister'
    BY DEF TypeOK, IndexOrPersister
<1>4. SentFirst'
    BY DEF TypeOK, SentFirst
<1>5. StoredFirst'
    BY DEF TypeOK, StoredFirst
<1>6. CacheInOrder'
    BY DEF TypeOK, CacheInOrder
<1>7. OrderInd'
    BY DEF TypeOK, OrderInd, WrittenOnceInOrder, WrittenBeforeCached, BatchInCache, BatchFirst
<1> QED BY <1>1, <1>2, <1>3, <1>4, <1>5, <1>6, <1>7

LEMMA StepDeleteFails ==
    ASSUME DeliveryInd, DeleteFails
    PROVE  DeliveryInd'
<1> USE DeliveryAssumption DEF DeliveryInd, DeleteFails, storeVars, connVars, persisterVars
<1> USE DEF StoreFault
<1>a. batch' \in Seq(Msgs) /\ failed' = {"delete"}
    BY HeadTailIs DEF TypeOK, SentFirst
<1>1. TypeOK'
    BY <1>a DEF TypeOK, Msgs
<1>2. LeavesCacheSafely'
    BY DEF TypeOK, LeavesCacheSafely, Msgs
<1>3. IndexOrPersister'
    BY DEF TypeOK, IndexOrPersister
<1>4. SentFirst'
    BY DEF TypeOK, SentFirst
<1>5. StoredFirst'
    BY DEF TypeOK, StoredFirst
<1>6. CacheInOrder'
    BY DEF TypeOK, CacheInOrder
<1>7. OrderInd'
    BY DEF TypeOK, OrderInd, WrittenOnceInOrder, WrittenBeforeCached, BatchInCache, BatchFirst
<1> QED BY <1>1, <1>2, <1>3, <1>4, <1>5, <1>6, <1>7

LEMMA StepPersisterFails ==
    ASSUME DeliveryInd, PersisterFails
    PROVE  DeliveryInd'
<1> USE DeliveryAssumption DEF DeliveryInd, PersisterFails, storeVars, connVars, persisterVars
<1> USE DEF StoreFault
<1>1. TypeOK'
    BY DEF TypeOK, Msgs
<1>2. LeavesCacheSafely'
    BY DEF TypeOK, LeavesCacheSafely, Msgs
<1>3. IndexOrPersister'
    BY DEF TypeOK, IndexOrPersister
<1>4. SentFirst'
    BY DEF TypeOK, SentFirst
<1>5. StoredFirst'
    BY DEF TypeOK, StoredFirst
<1>6. CacheInOrder'
    BY DEF TypeOK, CacheInOrder
<1>7. OrderInd'
    BY DEF TypeOK, OrderInd, WrittenOnceInOrder, WrittenBeforeCached, BatchInCache, BatchFirst
<1> QED BY <1>1, <1>2, <1>3, <1>4, <1>5, <1>6, <1>7

LEMMA StepLockExpiresEarly ==
    ASSUME DeliveryInd, LockExpiresEarly
    PROVE  DeliveryInd'
<1> USE DeliveryAssumption DEF DeliveryInd, LockExpiresEarly, storeVars, connVars, persisterVars
<1> USE DEF StoreFault
<1>1. TypeOK'
    BY ZenonT(40) DEF TypeOK, Msgs
<1>2. LeavesCacheSafely'
    BY DEF TypeOK, LeavesCacheSafely, Msgs
<1>3. IndexOrPersister'
    BY DEF TypeOK, IndexOrPersister
<1>4. SentFirst'
    BY DEF TypeOK, SentFirst
<1>5. StoredFirst'
    BY DEF TypeOK, StoredFirst
<1>6. CacheInOrder'
    BY DEF TypeOK, CacheInOrder
<1>7. OrderInd'
    BY DEF TypeOK, OrderInd, WrittenOnceInOrder, WrittenBeforeCached, BatchInCache, BatchFirst
<1> QED BY <1>1, <1>2, <1>3, <1>4, <1>5, <1>6, <1>7

LEMMA InitDelivery == Init => DeliveryInd
<1> SUFFICES ASSUME Init PROVE DeliveryInd
    OBVIOUS
<1> USE DeliveryAssumption DEF Init
<1>1. TypeOK
    <2>1. <<>> \in Seq(Msgs)
        OBVIOUS
    <2>2. inserted \in 0..MaxMsgs
        OBVIOUS
    <2> QED BY <2>1, <2>2 DEF TypeOK
<1>2. LeavesCacheSafely /\ IndexOrPersister /\ SentFirst /\ StoredFirst /\ CacheInOrder
    BY DEF LeavesCacheSafely, IndexOrPersister, SentFirst, StoredFirst, CacheInOrder, Msgs, Range
<1>3. OrderInd
    BY DEF OrderInd, WrittenOnceInOrder, WrittenBeforeCached, BatchInCache, BatchFirst, Range
<1> QED BY <1>1, <1>2, <1>3 DEF DeliveryInd

(* DeliveryInd is inductive. *)
LEMMA NextDelivery == DeliveryInd /\ [Next]_vars => DeliveryInd'
<1> SUFFICES ASSUME DeliveryInd, [Next]_vars PROVE DeliveryInd'
    OBVIOUS
<1>1. CASE UNCHANGED vars
    BY <1>1 DEF DeliveryInd, TypeOK, LeavesCacheSafely, IndexOrPersister, SentFirst, StoredFirst,
        CacheInOrder, OrderInd, WrittenOnceInOrder, WrittenBeforeCached, BatchInCache, BatchFirst,
        Msgs, vars, storeVars, connVars, persisterVars
<1>2. CASE Insert \/ PayloadInserted \/ Connect \/ AddListener \/ Close
    BY <1>2, StepInsert, StepPayloadInserted, StepConnect, StepAddListener, StepClose
<1>3. CASE \E m \in acks : Acknowledge(m)
    BY <1>3, StepAcknowledge
<1>4. CASE Sending
    BY <1>4, StepFetchCached, StepFetchPersisted, StepSendMessage, StepSendFails,
       StepDeleteCached, StepDeletePersisted, StepSendDone, StepAcknowledgePersisted DEF Sending
<1>5. CASE Notifying
    BY <1>5, StepNotifyNobody, StepNotifyCached, StepNotifyPersisted DEF Notifying
<1>6. CASE Persister \/ LockExpires
    BY <1>6, StepPick, StepLockQueue, StepReadQueue, StepPushMessage, StepRemoveMessage,
       StepBatchDone, StepUnlockQueue, StepLockExpires DEF Persister
<1>7. CASE Fault
    BY <1>7, StepBreak, StepDeleteFails, StepPersisterFails, StepLockExpiresEarly DEF Fault
<1> QED BY <1>1, <1>2, <1>3, <1>4, <1>5, <1>6, <1>7 DEF Next

(* Whatever fails and in whatever order the connection, the persister and  *)
(* the notifications run, a message leaves the cache only after it was     *)
(* written to the socket or stored in the table, and until then it is      *)
(* where the persister looks (send_message, persist_messages,              *)
(* redis::remove).                                                         *)
THEOREM DeliveryCorrect == Spec => []DeliveryInv
<1>1. DeliveryInd => DeliveryInv
    BY DEF DeliveryInd, DeliveryInv, IndexOrPersister, IndexCoversQueue
<1> QED BY <1>1, InitDelivery, NextDelivery, PTL DEF Spec

(* Messages the persister did not touch are written at most once and in    *)
(* the order of their insertion, as long as no deletion fails              *)
(* (send_messages, MessagesManager::delete, handle_response).              *)
THEOREM InOrderOnce == Spec => []WrittenOnceInOrder
<1>1. DeliveryInd => WrittenOnceInOrder
    BY DEF DeliveryInd, OrderInd, WrittenOnceInOrder
<1> QED BY <1>1, InitDelivery, NextDelivery, PTL DEF Spec

-----------------------------------------------------------------------------
(***************************************************************************)
(* The queues of redis.rs.                                                 *)
(*                                                                         *)
(* The inductive invariant says which of a queue's keys hold a writer at   *)
(* each point of insert, what a taker that is in the middle of remove or   *)
(* update_value knows of the value it holds, and that the ids of all       *)
(* writers that are still somewhere in a queue (Live) differ and rise in   *)
(* the order of the inserts.  From that follow, in turn, what is gone, how *)
(* far each payload was taken, and that nothing is taken before what was   *)
(* inserted before it.                                                     *)
(***************************************************************************)
(* The four keys of a queue. *)
Z(q) == zset[QueueKey(q)]
C(q) == counter[MetadataKey(q)]
M(q) == ids[MetadataKey(q)]
R(q) == rev[RevKey(q)]

Removes(t) == tk[t].pc \in {"remove", "range", "zremrange", "hdel", "hdelrev"}
Updates(t) == tk[t].pc \in {"old", "zrem", "zadd"}

(* The value of w is in the hands of t: between ZREM and ZADD, between     *)
(* ZREMRANGEBYSCORE and HDEL of :rev, and from ZRANGE on.                  *)
Adding(t, w) == At(t, "zadd") /\ tk[t].held.guid = w
Removing(t, w) == tk[t].pc \in {"hdel", "hdelrev"} /\ tk[t].held.guid = w
Carrying(t, w) == tk[t].pc \in {"zremrange", "hdel", "hdelrev"} /\ tk[t].held.guid = w

(* The id of w is still in use somewhere. *)
Live(w) ==
    \/ Active(w) \/ w \in Stored(wq[w]) \/ w \in DOMAIN M(wq[w])
    \/ \E t \in Takers : (HoldsId(t) /\ Guid(t) = w) \/ Adding(t, w)

Taken == [guid : Writers, lo : Nat, hi : Nat, order : Int]
Pcs == {"idle", "picked", "lock", "page", "unlock", "old", "zrem", "zadd",
        "guid", "remove", "range", "zremrange", "hdel", "hdelrev", "card",
        "del", "delmeta", "unindex"}

(* Which takers are ever at a point. *)
RolesOf(pc) ==
    CASE pc \in {"picked", "lock", "unlock"} -> {"persist"}
      [] pc = "page" -> {"each", "persist"}
      [] pc \in {"old", "zrem", "zadd", "guid"} -> {"stream"}
      [] OTHER -> {"each", "persist", "stream", "page"}

StoreTypes ==
    /\ DOMAIN zset = {QueueKey(q) : q \in Queues}
    /\ DOMAIN counter = {MetadataKey(q) : q \in Queues}
    /\ DOMAIN ids = {MetadataKey(q) : q \in Queues}
    /\ DOMAIN rev = {RevKey(q) : q \in Queues}
    /\ DOMAIN index = {IndexKey(q) : q \in Queues}
    /\ lock \subseteq {LockKey(q) : q \in Queues}
    /\ \A q \in Queues :
         /\ Z(q) \subseteq Value /\ IsFiniteSet(Z(q))
         /\ C(q) \in Nat
         /\ DOMAIN M(q) \subseteq Writers
         /\ \A w \in DOMAIN M(q) : M(q)[w] \in Nat
         /\ \A i \in DOMAIN R(q) : R(q)[i] \in Writers
         /\ index[IndexKey(q)] \subseteq {QueueKey(p) : p \in Queues}

OtherTypes ==
    /\ wq \in [Writers -> Queues] /\ wid \in [Writers -> Nat]
    /\ wpc \in [Writers -> {"new", "number", "value", "guid", "rev", "done", "cut"}]
    /\ earlier \in [Writers -> SUBSET Writers]
    /\ out \in [Queues -> Seq(Taken)]
    /\ sent \subseteq Writers /\ answered \subseteq sent /\ cut \subseteq Writers
    /\ raced \subseteq {"drain", "stale", "early"}

TakerRecord ==
    [pc : Pcs, todo : Seq(Writers), id : Nat, held : Value \cup {NoValue}, amount : Nat]

(* A taker that removes has a guid to remove, one that updates a value has *)
(* read one that is longer than what it takes.                             *)
TakerTyped(t) ==
    /\ t[1] \in RolesOf(tk[t].pc)
    /\ Removes(t) \/ At(t, "zrem") => tk[t].todo # <<>>
    /\ Updates(t) \/ At(t, "guid") => tk[t].held \in Value
    /\ Updates(t) => tk[t].amount > 0 /\ tk[t].held.off + tk[t].amount < Length

TakerTypes == tk \in [Takers -> TakerRecord] /\ \A t \in Takers : TakerTyped(t)

Types == StoreTypes /\ OtherTypes /\ TakerTypes

(* The ids in use in a queue differ and are not above its counter. *)
Numbers ==
    /\ \A w \in Writers : Live(w) => 1 <= wid[w] /\ wid[w] <= C(wq[w])
    /\ \A u, w \in Writers :
         Live(u) /\ Live(w) /\ wq[u] = wq[w] /\ u # w => wid[u] # wid[w]

(* The values of a queue were inserted there, under the ids of their       *)
(* writers, once.                                                          *)
Values ==
    \A q \in Queues :
      /\ \A v \in Z(q) :
           /\ wq[v.guid] = q /\ v.id = wid[v.guid] /\ v.order <= 0
           /\ wpc[v.guid] \notin {"new", "number"}
      /\ \A u, v \in Z(q) : u.guid = v.guid => u = v

(* So were the fields of the two hashes. *)
Fields ==
    \A q \in Queues :
      /\ \A w \in DOMAIN M(q) :
           wq[w] = q /\ M(q)[w] = wid[w] /\ wpc[w] \notin {"new", "number", "value"}
      /\ \A i \in DOMAIN R(q) :
           wq[R(q)[i]] = q /\ wid[R(q)[i]] = i
           /\ wpc[R(q)[i]] \notin {"new", "number", "value", "guid"}

(* What a taker is to remove was in its queue. *)
TodoOK(t) ==
    \A i \in DOMAIN tk[t].todo :
        wq[tk[t].todo[i]] = Queue(t) /\ wpc[tk[t].todo[i]] \notin {"new", "number"}

(* remove holds the id of its guid, and then its value; after              *)
(* ZREMRANGEBYSCORE the value is not in the queue.                         *)
RemoveOK(t) ==
    /\ HoldsId(t) => tk[t].id = wid[Guid(t)] /\ wpc[Guid(t)] # "value"
    /\ HoldsId(t) /\ ~At(t, "range") => tk[t].held = NoValue \/ tk[t].held.guid = Guid(t)
    /\ At(t, "zremrange") /\ Guid(t) \in Stored(Queue(t)) => tk[t].held.guid = Guid(t)
    /\ tk[t].pc \in {"hdel", "hdelrev"} => Guid(t) \notin Stored(Queue(t))

(* update_value has the entry that is in the queue, until ZREM. *)
UpdateOK(t) ==
    /\ tk[t].pc \in {"old", "zrem", "guid"} =>
         tk[t].held \in Z(Queue(t)) /\ tk[t].id = tk[t].held.id
    /\ At(t, "zrem") => tk[t].todo = <<tk[t].held.guid>>
    /\ At(t, "zadd") =>
         /\ tk[t].held.guid \notin Stored(Queue(t))
         /\ wq[tk[t].held.guid] = Queue(t)
         /\ wpc[tk[t].held.guid] \notin {"new", "number"}
         /\ tk[t].held.id = wid[tk[t].held.guid] /\ tk[t].held.order <= 0

(* What is deleted as empty is empty. *)
DrainOK(t) == Draining(t) => Z(Queue(t)) = {}

TakerOK(t) == TodoOK(t) /\ RemoveOK(t) /\ UpdateOK(t) /\ DrainOK(t)

(* The fields that insert has written for w are there, and an inserted     *)
(* value is in the queue, in the hands of a taker, or gone.                *)
In(w) ==
    /\ wpc[w] \in {"guid", "rev", "done"} => w \in DOMAIN M(wq[w])
    /\ wpc[w] \in {"rev", "done"} => wid[w] \in DOMAIN R(wq[w]) /\ R(wq[w])[wid[w]] = w
Kept(w) ==
    \/ w \in Stored(wq[w]) /\ In(w)
    \/ In(w) /\ \E t \in Takers : Adding(t, w)
    \/ \E t \in Takers : Removing(t, w)
    \/ Gone(w)
AllKept ==
    \A w \in Writers \ cut : wpc[w] \in {"value", "guid", "rev", "done"} => Kept(w)

CutNoted == \A w \in Writers : wpc[w] = "cut" => w \in cut
SentIs == \A w \in sent : wpc[w] \notin {"new", "number"} /\ wq[w] \in MessageQueues

(* Ids rise: who was done when another began has the smaller id. *)
Rising ==
    \A u, w \in Writers :
        u \in earlier[w] /\ Live(u) /\ Live(w) /\ wq[u] = wq[w] => wid[u] < wid[w]
EarlierDone == \A w \in Writers : \A u \in earlier[w] : wpc[u] = "done"

KeysInd ==
    /\ Numbers /\ Rising /\ EarlierDone /\ Values /\ Fields
    /\ (\A t \in Takers : TakerOK(t)) /\ AllKept /\ CutNoted /\ SentIs

(* What was taken whole is not in the queue, and nobody brings it back. *)
GoneIs ==
    /\ \A q \in Queues : \A i \in DOMAIN out[q] :
         wq[out[q][i].guid] = q /\ wpc[out[q][i].guid] \notin {"new", "number"}
    /\ \A w \in Writers : Gone(w) =>
         /\ w \notin Stored(wq[w])
         /\ wq[w] \notin MessageQueues => \A t \in Takers : ~Adding(t, w) /\ ~Carrying(t, w)

(* A value that was taken in part starts where the last piece of it ended. *)
Reached(s, v) ==
    \/ v.off = 0
    \/ \E i \in 1..Len(s) :
         /\ s[i].guid = v.guid /\ s[i].hi = v.off /\ s[i].order = v.order + 1
         /\ \A k \in (i + 1)..Len(s) : s[k].guid # v.guid
Progress ==
    \A q \in Queues \ MessageQueues :
       /\ \A v \in Z(q) : Reached(out[q], v)
       /\ \A t \in Takers : Queue(t) = q /\ tk[t].held # NoValue => Reached(out[q], tk[t].held)

(* Everything inserted before w is gone, or was cut short; the same but    *)
(* for what comes before it in s.                                          *)
Settled(w) == \A y \in earlier[w] : wq[y] = wq[w] => y \in cut \/ Gone(y)
SettledBefore(s, i) ==
    \A y \in earlier[s[i]] :
        wq[y] = wq[s[i]] => y \in cut \/ Gone(y) \/ \E j \in 1..(i - 1) : s[j] = y

(* What a connection takes of payloads and chunks is at the front. *)
HeldSettled(t) == Updates(t) \/ At(t, "guid") => Settled(tk[t].held.guid)
TodoSettled(t) ==
    \A i \in DOMAIN tk[t].todo : Live(tk[t].todo[i]) => SettledBefore(tk[t].todo, i)
InFront ==
    \A t \in Takers : t[1] \in {"stream", "page"} => HeldSettled(t) /\ TodoSettled(t)
OutSettled ==
    \A q \in Queues \ MessageQueues : \A i \in DOMAIN out[q] : Settled(out[q][i].guid)

(* TakenInOrder, piece by piece. *)
Continues(s, j, p) ==
    p.lo = 1 \/ \E i \in 1..(j - 1) :
        /\ s[i].guid = p.guid /\ s[i].hi = p.lo - 1
        /\ p.order \in {s[i].order - 1, Final}
        /\ \A k \in (i + 1)..(j - 1) : s[k].guid # p.guid
PieceOK(q, j) ==
    /\ Continues(out[q], j, out[q][j])
    /\ \A i \in 1..(j - 1) :
         /\ out[q][j].guid \in earlier[out[q][i].guid] => out[q][j].guid \in cut
         /\ out[q][i].guid = out[q][j].guid => out[q][i].order # Final
Pieces == \A q \in Queues \ MessageQueues : \A j \in 1..Len(out[q]) : PieceOK(q, j)

TakingInd == GoneIs /\ Progress /\ InFront /\ OutSettled /\ Pieces

RedisInd == Types /\ (Sound => ~Drain /\ KeysInd /\ TakingInd) /\ IndexCovers /\ NotSentAgain

-----------------------------------------------------------------------------
(***************************************************************************)
(* What each command reads and writes, and the types (TypesStep).          *)
(***************************************************************************)
LEMMA KeysDiffer ==
    /\ \A p, q \in Queues : QueueKey(p) = QueueKey(q) => p = q
    /\ \A p, q \in Queues : MetadataKey(p) = MetadataKey(q) => p = q
    /\ \A p, q \in Queues : RevKey(p) = RevKey(q) => p = q
<1>1. ASSUME NEW p \in Queues, NEW q \in Queues,
             p.cache = q.cache, p.buffer = q.buffer, p.address = q.address
      PROVE  p = q
  <2>1. p \in [cache : {"user", "chunk", "payload"}, buffer : STRING, address : STRING]
    BY RedisAssumption
  <2>2. q \in [cache : {"user", "chunk", "payload"}, buffer : STRING, address : STRING]
    BY RedisAssumption
  <2> QED BY <1>1, <2>1, <2>2
<1>2. ASSUME NEW q \in Queues, q.cache = "user"
      PROVE  /\ QueueKey(q)[1] = q.cache /\ MetadataKey(q)[1] = q.cache
             /\ QueueKey(q)[3] = q.address /\ MetadataKey(q)[3] = q.address
             /\ q.buffer = ""
  <2>1. QueueKey(q) = <<"user", "queue", q.address>>
    BY <1>2, RedisAssumption DEF QueueKey, Keys, UserKeys
  <2>2. MetadataKey(q) = <<"user", "queue_metadata", q.address>>
    BY <1>2, RedisAssumption DEF MetadataKey, Keys, UserKeys
  <2>3. q.buffer = ""
    BY <1>2, RedisAssumption
  <2>4. QueueKey(q)[1] = "user" /\ QueueKey(q)[3] = q.address
    BY <2>1
  <2>5. MetadataKey(q)[1] = "user" /\ MetadataKey(q)[3] = q.address
    BY <2>2
  <2> QED BY <1>2, <2>3, <2>4, <2>5
<1>3. ASSUME NEW q \in Queues, q.cache # "user"
      PROVE  /\ QueueKey(q) = <<q.cache, q.buffer, "queue", q.address>>
             /\ MetadataKey(q) = <<q.cache, q.buffer, "queue_metadata", q.address>>
  <2>1. q.cache \in {"chunk", "payload"}
    BY <1>3, RedisAssumption
  <2> QED BY <1>3, <2>1 DEF QueueKey, MetadataKey, Keys, ChunkKeys, PayloadKeys
<1>4. ASSUME NEW q \in Queues
      PROVE  QueueKey(q)[1] = q.cache /\ MetadataKey(q)[1] = q.cache
  <2>1. CASE q.cache = "user"
    BY <1>2, <2>1
  <2>2. CASE q.cache # "user"
    BY <1>3, <2>2
  <2> QED BY <2>1, <2>2
<1>5. ASSUME NEW p \in Queues, NEW q \in Queues, QueueKey(p) = QueueKey(q)
      PROVE  p = q
  <2>1. p.cache = q.cache
    BY <1>4, <1>5
  <2>2. CASE p.cache = "user"
    <3>1. QueueKey(p)[3] = p.address /\ QueueKey(q)[3] = q.address
      BY <1>2, <2>1, <2>2
    <3>2. p.address = q.address
      BY <1>5, <3>1
    <3> QED BY <1>1, <1>2, <2>1, <2>2, <3>2
  <2>3. CASE p.cache # "user"
    <3>1. QueueKey(p)[2] = p.buffer /\ QueueKey(q)[2] = q.buffer
      BY <1>3, <2>1, <2>3
    <3>2. QueueKey(p)[4] = p.address /\ QueueKey(q)[4] = q.address
      BY <1>3, <2>1, <2>3
    <3> QED BY <1>1, <1>5, <2>1, <3>1, <3>2
  <2> QED BY <2>2, <2>3
<1>6. ASSUME NEW p \in Queues, NEW q \in Queues, MetadataKey(p) = MetadataKey(q)
      PROVE  p = q
  <2>1. p.cache = q.cache
    BY <1>4, <1>6
  <2>2. CASE p.cache = "user"
    <3>1. MetadataKey(p)[3] = p.address /\ MetadataKey(q)[3] = q.address
      BY <1>2, <2>1, <2>2
    <3>2. p.address = q.address
      BY <1>6, <3>1
    <3> QED BY <1>1, <1>2, <2>1, <2>2, <3>2
  <2>3. CASE p.cache # "user"
    <3>1. MetadataKey(p)[2] = p.buffer /\ MetadataKey(q)[2] = q.buffer
      BY <1>3, <2>1, <2>3
    <3>2. MetadataKey(p)[4] = p.address /\ MetadataKey(q)[4] = q.address
      BY <1>3, <2>1, <2>3
    <3> QED BY <1>1, <1>6, <2>1, <3>1, <3>2
  <2> QED BY <2>2, <2>3
<1>7. ASSUME NEW p \in Queues, NEW q \in Queues, RevKey(p) = RevKey(q)
      PROVE  p = q
  <2>1. RevKey(p)[1] = MetadataKey(p) /\ RevKey(q)[1] = MetadataKey(q)
    BY DEF RevKey
  <2> QED BY <1>6, <1>7, <2>1
<1> QED BY <1>5, <1>6, <1>7

LEMMA Bounds ==
    /\ Writers \subseteq Nat /\ 0 \notin Writers
    /\ PageSize \in Nat /\ PageSize > 0 /\ Length \in Nat /\ Length > 0
    /\ \A n \in Amounts : n \in Nat /\ n > 0
    /\ NoValue \notin Value
<1>1. /\ Writers \subseteq Nat \ {0} /\ Amounts \subseteq Nat \ {0}
      /\ PageSize \in Nat \ {0} /\ Length \in Nat \ {0}
  BY RedisAssumption
<1>2. NoValue.guid = 0 BY DEF NoValue, None
<1>3. \A v \in Value : v.guid \in Writers BY DEF Value
<1> QED BY <1>1, <1>2, <1>3

(* What the steps leave alone. *)
KeepZ == \A p \in Queues : Z(p)' = Z(p)
KeepC == \A p \in Queues : C(p)' = C(p)
KeepM == \A p \in Queues : M(p)' = M(p)
KeepR == \A p \in Queues : R(p)' = R(p)
Others(q) == Queues \ {q}

LEMMA KeepIs ==
    /\ zset' = zset => KeepZ
    /\ counter' = counter => KeepC
    /\ ids' = ids => KeepM
    /\ rev' = rev => KeepR
BY DEF KeepZ, KeepC, KeepM, KeepR, Z, C, M, R

(* ZADD, ZREM and DEL: the values of one queue change. *)
LEMMA ZsetMoves ==
    ASSUME StoreTypes, NEW q \in Queues, NEW S \in SUBSET Value, IsFiniteSet(S),
           zset' = [zset EXCEPT ![QueueKey(q)] = S],
           UNCHANGED <<counter, ids, rev, index, lock>>
    PROVE  /\ StoreTypes' /\ KeepC /\ KeepM /\ KeepR
           /\ Z(q)' = S /\ \A p \in Others(q) : Z(p)' = Z(p)
<1>1. DOMAIN zset' = {QueueKey(p) : p \in Queues}
  BY DEF StoreTypes
<1>2. Z(q)' = S /\ \A p \in Others(q) : Z(p)' = Z(p)
  BY KeysDiffer DEF StoreTypes, Z, Others
<1>3. KeepC /\ KeepM /\ KeepR
  BY KeepIs
<1>4. \A p \in Queues : Z(p)' \subseteq Value /\ IsFiniteSet(Z(p)')
  BY <1>2 DEF StoreTypes, Others
<1> QED BY <1>1, <1>2, <1>3, <1>4 DEF StoreTypes, KeepC, KeepM, KeepR

(* HSET, HDEL and DEL: the fields of one queue change. *)
LEMMA IdsMove ==
    ASSUME StoreTypes, NEW q \in Queues, NEW f, DOMAIN f \subseteq Writers,
           \A w \in DOMAIN f : f[w] \in Nat,
           ids' = [ids EXCEPT ![MetadataKey(q)] = f],
           counter' = counter \/ counter' = [counter EXCEPT ![MetadataKey(q)] = 0],
           UNCHANGED <<zset, rev, index, lock>>
    PROVE  /\ StoreTypes' /\ KeepZ /\ KeepR
           /\ M(q)' = f /\ \A p \in Others(q) : M(p)' = M(p) /\ C(p)' = C(p)
           /\ counter' = counter => KeepC
<1>1. /\ DOMAIN ids' = {MetadataKey(p) : p \in Queues}
      /\ DOMAIN counter' = {MetadataKey(p) : p \in Queues}
  BY DEF StoreTypes
<1>2. M(q)' = f /\ \A p \in Others(q) : M(p)' = M(p)
  BY KeysDiffer DEF StoreTypes, M, Others
<1>3. C(q)' \in {0, C(q)} /\ \A p \in Others(q) : C(p)' = C(p)
  BY KeysDiffer DEF StoreTypes, C, Others
<1>4. KeepZ /\ KeepR /\ (counter' = counter => KeepC)
  BY KeepIs
<1>5. \A p \in Queues : C(p)' \in Nat
  BY <1>3 DEF StoreTypes, Others
<1>6. \A p \in Queues : DOMAIN M(p)' \subseteq Writers /\ \A w \in DOMAIN M(p)' : M(p)'[w] \in Nat
  BY <1>2 DEF StoreTypes, Others
<1> QED BY <1>1, <1>2, <1>3, <1>4, <1>5, <1>6 DEF StoreTypes, KeepZ, KeepR

LEMMA RevMoves ==
    ASSUME StoreTypes, NEW q \in Queues, NEW f, \A i \in DOMAIN f : f[i] \in Writers,
           rev' = [rev EXCEPT ![RevKey(q)] = f],
           UNCHANGED <<zset, counter, ids, index, lock>>
    PROVE  /\ StoreTypes' /\ KeepZ /\ KeepC /\ KeepM
           /\ R(q)' = f /\ \A p \in Others(q) : R(p)' = R(p)
<1>1. DOMAIN rev' = {RevKey(p) : p \in Queues}
  BY DEF StoreTypes
<1>2. R(q)' = f /\ \A p \in Others(q) : R(p)' = R(p)
  BY KeysDiffer DEF StoreTypes, R, Others
<1>3. KeepZ /\ KeepC /\ KeepM
  BY KeepIs
<1>4. \A p \in Queues : \A i \in DOMAIN R(p)' : R(p)'[i] \in Writers
  BY <1>2 DEF StoreTypes, Others
<1> QED BY <1>1, <1>2, <1>3, <1>4 DEF StoreTypes, KeepZ, KeepC, KeepM

(* HINCRBY. *)
LEMMA CounterMoves ==
    ASSUME StoreTypes, NEW q \in Queues,
           counter' = [counter EXCEPT ![MetadataKey(q)] = @ + 1],
           UNCHANGED <<zset, ids, rev, index, lock>>
    PROVE  /\ StoreTypes' /\ KeepZ /\ KeepM /\ KeepR
           /\ C(q)' = C(q) + 1 /\ counter'[MetadataKey(q)] = C(q) + 1
           /\ \A p \in Others(q) : C(p)' = C(p)
<1>1. DOMAIN counter' = {MetadataKey(p) : p \in Queues}
  BY DEF StoreTypes
<1>2. /\ C(q)' = C(q) + 1 /\ counter'[MetadataKey(q)] = C(q) + 1
      /\ \A p \in Others(q) : C(p)' = C(p)
  BY KeysDiffer DEF StoreTypes, C, Others
<1>3. KeepZ /\ KeepM /\ KeepR
  BY KeepIs
<1>4. \A p \in Queues : C(p)' \in Nat
  BY <1>2 DEF StoreTypes, Others
<1> QED BY <1>1, <1>2, <1>3, <1>4 DEF StoreTypes, KeepZ, KeepM, KeepR

(* The index and the locks. *)
LEMMA IndexMoves ==
    ASSUME StoreTypes, UNCHANGED <<zset, counter, ids, rev>>,
           index' = index \/ (\E q \in Queues, S \in SUBSET {QueueKey(p) : p \in Queues} :
                                index' = [index EXCEPT ![IndexKey(q)] = S]),
           lock' \subseteq {LockKey(q) : q \in Queues}
    PROVE  StoreTypes' /\ KeepZ /\ KeepC /\ KeepM /\ KeepR
<1>1. KeepZ /\ KeepC /\ KeepM /\ KeepR
  BY KeepIs
<1>2. /\ DOMAIN index' = {IndexKey(q) : q \in Queues}
      /\ \A q \in Queues : index'[IndexKey(q)] \subseteq {QueueKey(p) : p \in Queues}
  <2>1. CASE index' = index
    BY <2>1 DEF StoreTypes
  <2>2. CASE \E q \in Queues, S \in SUBSET {QueueKey(p) : p \in Queues} :
               index' = [index EXCEPT ![IndexKey(q)] = S]
    <3>1. PICK q \in Queues, S \in SUBSET {QueueKey(p) : p \in Queues} :
            index' = [index EXCEPT ![IndexKey(q)] = S]
      BY <2>2
    <3>2. IndexKey(q) \in DOMAIN index
      BY DEF StoreTypes
    <3>3. \A p \in Queues : index'[IndexKey(p)] \in {index[IndexKey(p)], S}
      BY <3>1, <3>2 DEF StoreTypes
    <3> QED BY <3>1, <3>2, <3>3 DEF StoreTypes
  <2> QED BY <2>1, <2>2
<1> QED BY <1>1, <1>2 DEF StoreTypes, KeepZ, KeepC, KeepM, KeepR

LEMMA TakerIs ==
    /\ \A t \in Takers :
         /\ Queue(t) \in Queues /\ t[1] \in {"each", "persist", "stream", "page"}
         /\ Queue(t) \in MessageQueues <=> t[1] \in {"each", "persist"}
    /\ \A t, u \in Takers :
         Queue(t) = Queue(u) /\ t[1] \in {"stream", "page"} => t = u
    /\ \A q \in MessageQueues : <<"persist", q>> \in Takers /\ q \in Queues
<1>1. ASSUME NEW t \in Takers
      PROVE  \E k \in {"each", "persist", "stream", "page"}, q \in Queues :
               /\ t = <<k, q>>
               /\ k \in {"each", "persist"} <=> q.cache = "user"
               /\ k = "stream" <=> q.cache = "payload"
               /\ k = "page" <=> q.cache = "chunk"
  <2>1. CASE t \in {"each", "persist"} \X MessageQueues
    BY <2>1 DEF MessageQueues
  <2>2. CASE t \in {"stream"} \X PayloadQueues
    BY <2>2 DEF PayloadQueues
  <2>3. CASE t \in {"page"} \X ChunkQueues
    BY <2>3 DEF ChunkQueues
  <2> QED BY <1>1, <2>1, <2>2, <2>3 DEF Takers
<1>2. ASSUME NEW t \in Takers
      PROVE  /\ Queue(t) \in Queues /\ t[1] \in {"each", "persist", "stream", "page"}
             /\ t = <<t[1], Queue(t)>>
             /\ t[1] \in {"each", "persist"} <=> Queue(t).cache = "user"
             /\ t[1] = "stream" <=> Queue(t).cache = "payload"
             /\ t[1] = "page" <=> Queue(t).cache = "chunk"
  BY <1>1 DEF Queue
<1>3. ASSUME NEW t \in Takers
      PROVE  Queue(t) \in MessageQueues <=> t[1] \in {"each", "persist"}
  BY <1>2 DEF MessageQueues
<1>4. ASSUME NEW t \in Takers, NEW u \in Takers, Queue(t) = Queue(u),
             t[1] \in {"stream", "page"}
      PROVE  t = u
  <2>1. t[1] = u[1]
    BY <1>2, <1>4
  <2> QED BY <1>2, <1>4, <2>1
<1>5. \A q \in MessageQueues : <<"persist", q>> \in Takers /\ q \in Queues
  BY DEF Takers, MessageQueues
<1> QED BY <1>2, <1>3, <1>4, <1>5

(* One taker moves. *)
Moves(t) ==
    /\ tk' \in [Takers -> TakerRecord]
    /\ \A u \in Takers \ {t} : tk'[u] = tk[u]

LEMMA RecordIs ==
    ASSUME TakerTypes, NEW t \in Takers
    PROVE  /\ tk[t] \in TakerRecord /\ tk[t].pc \in Pcs /\ tk[t].todo \in Seq(Writers)
           /\ tk[t].id \in Nat /\ tk[t].held \in Value \cup {NoValue} /\ tk[t].amount \in Nat
           /\ TakerTyped(t)
BY DEF TakerTypes, TakerRecord

LEMMA MovesTo ==
    ASSUME TakerTypes, NEW t \in Takers, NEW r \in TakerRecord, tk' = [tk EXCEPT ![t] = r]
    PROVE  Moves(t) /\ tk'[t] = r
BY DEF TakerTypes, Moves

LEMMA GoIs ==
    ASSUME TakerTypes, NEW t \in Takers, NEW pc \in Pcs, Go(t, pc)
    PROVE  /\ Moves(t) /\ tk'[t].pc = pc /\ tk'[t].todo = tk[t].todo
           /\ tk'[t].id = tk[t].id /\ tk'[t].held = tk[t].held /\ tk'[t].amount = tk[t].amount
<1>1. PICK r : r = [tk[t] EXCEPT !.pc = pc]
  OBVIOUS
<1>2. /\ r \in TakerRecord /\ r.pc = pc /\ r.todo = tk[t].todo
      /\ r.id = tk[t].id /\ r.held = tk[t].held /\ r.amount = tk[t].amount
  BY <1>1, RecordIs DEF TakerRecord
<1>3. tk' = [tk EXCEPT ![t] = r]
  BY <1>1 DEF Go, TakerTypes
<1> QED BY <1>2, <1>3, MovesTo

LEMMA IdleIs ==
    /\ Idle \in TakerRecord
    /\ Idle.pc = "idle" /\ Idle.todo = <<>> /\ Idle.id = 0 /\ Idle.held = NoValue
BY DEF Idle, TakerRecord, Pcs

LEMMA StopIs ==
    ASSUME TakerTypes, NEW t \in Takers, tk' = [tk EXCEPT ![t] = Idle]
    PROVE  /\ Moves(t) /\ tk'[t].pc = "idle" /\ tk'[t].todo = <<>> /\ tk'[t].held = NoValue
BY IdleIs, MovesTo

LEMMA StartRemoveIs ==
    ASSUME TakerTypes, NEW t \in Takers, NEW guids \in Seq(Writers), StartRemove(t, guids)
    PROVE  /\ Moves(t) /\ tk'[t].pc = "remove" /\ tk'[t].todo = guids /\ tk'[t].held = NoValue
<1>1. PICK r : r = [Idle EXCEPT !.pc = "remove", !.todo = guids]
  OBVIOUS
<1>2. r \in TakerRecord /\ r.pc = "remove" /\ r.todo = guids /\ r.held = NoValue
  BY <1>1 DEF TakerRecord, Idle, Pcs
<1> QED BY <1>1, <1>2, MovesTo DEF StartRemove

LEMMA GuidDoneIs ==
    ASSUME TakerTypes, NEW t \in Takers, Removes(t), GuidDone(t)
    PROVE  /\ Moves(t) /\ tk'[t].todo = Tail(tk[t].todo) /\ tk'[t].held = NoValue
           /\ tk'[t].pc \in {"remove", "card"}
           /\ tk'[t].pc = "remove" => Tail(tk[t].todo) # <<>> /\ t[1] # "each"
<1>1. PICK r : r = [tk[t] EXCEPT !.todo = Tail(@), !.held = NoValue,
                      !.pc = IF t[1] = "each" \/ Len(tk[t].todo) = 1 THEN "card" ELSE "remove"]
  OBVIOUS
<1>2. tk[t].todo \in Seq(Writers) /\ tk[t].todo # <<>>
  BY RecordIs DEF TakerTyped
<1>3. /\ Tail(tk[t].todo) \in Seq(Writers)
      /\ Len(tk[t].todo) # 1 => Tail(tk[t].todo) # <<>>
  <2>1. Tail(tk[t].todo) \in Seq(Writers) /\ Len(Tail(tk[t].todo)) = Len(tk[t].todo) - 1
        /\ Len(tk[t].todo) \in Nat \ {0}
    BY <1>2, HeadTailIs
  <2>2. Len(tk[t].todo) # 1 => Len(Tail(tk[t].todo)) # 0
    BY <2>1
  <2>3. Len(<<>>) = 0
    OBVIOUS
  <2> QED BY <2>1, <2>2, <2>3
<1>4. /\ r \in TakerRecord /\ r.todo = Tail(tk[t].todo) /\ r.held = NoValue
      /\ r.pc = IF t[1] = "each" \/ Len(tk[t].todo) = 1 THEN "card" ELSE "remove"
  BY <1>1, <1>3, RecordIs DEF TakerRecord, Pcs
<1>5. tk' = [tk EXCEPT ![t] = r]
  BY <1>1 DEF GuidDone, TakerTypes
<1> QED BY <1>3, <1>4, <1>5, MovesTo

LEMMA CallDoneIs ==
    ASSUME TakerTypes, NEW t \in Takers, CallDone(t)
    PROVE  /\ Moves(t)
           /\ \/ tk'[t].pc = "remove" /\ tk[t].todo # <<>>
                 /\ tk'[t].todo = tk[t].todo /\ tk'[t].held = tk[t].held
              \/ tk'[t].pc = "page" /\ t[1] = "persist" /\ tk'[t].todo = <<>>
                 /\ tk'[t].held = NoValue
              \/ tk'[t].pc = "idle" /\ t[1] # "persist" /\ tk'[t].todo = <<>>
                 /\ tk'[t].held = NoValue
<1>1. PICK r : r = IF tk[t].todo # <<>> THEN [tk[t] EXCEPT !.pc = "remove"]
                   ELSE IF t[1] = "persist" THEN [Idle EXCEPT !.pc = "page"] ELSE Idle
  OBVIOUS
<1>2. /\ r \in TakerRecord
      /\ \/ r.pc = "remove" /\ tk[t].todo # <<>> /\ r.todo = tk[t].todo /\ r.held = tk[t].held
         \/ r.pc = "page" /\ t[1] = "persist" /\ r.todo = <<>> /\ r.held = NoValue
         \/ r.pc = "idle" /\ t[1] # "persist" /\ r.todo = <<>> /\ r.held = NoValue
  <2>1. CASE tk[t].todo # <<>>
    BY <1>1, <2>1, RecordIs DEF TakerRecord, Pcs
  <2>2. CASE tk[t].todo = <<>> /\ t[1] = "persist"
    <3>1. r = [Idle EXCEPT !.pc = "page"]
      BY <1>1, <2>2
    <3>2. r = [pc |-> "page", todo |-> <<>>, id |-> 0, held |-> NoValue, amount |-> 0]
      BY <3>1 DEF Idle
    <3>3. "page" \in Pcs /\ <<>> \in Seq(Writers)
      BY DEF Pcs
    <3>4. r \in TakerRecord /\ r.pc = "page" /\ r.todo = <<>> /\ r.held = NoValue
      BY <3>2, <3>3 DEF TakerRecord
    <3> QED BY <2>2, <3>4
  <2>3. CASE tk[t].todo = <<>> /\ t[1] # "persist"
    BY <1>1, <2>3, IdleIs
  <2> QED BY <2>1, <2>2, <2>3
<1>3. tk' = [tk EXCEPT ![t] = r]
  BY <1>1 DEF CallDone, TakerTypes
<1> QED BY <1>2, <1>3, MovesTo

LEMMA PageIs ==
    ASSUME NEW S, IsFiniteSet(S), S # {}, NEW page \in InOrder(S)
    PROVE  /\ page \in Seq(S) /\ page # <<>> /\ DOMAIN page = 1..Len(page)
           /\ Len(page) \in Nat
           /\ Range(page) = S
           /\ \A i, j \in DOMAIN page : i < j => Precedes(page[i], page[j])
<1>1. Cardinality(S) \in Nat /\ Cardinality(S) # 0
  BY FS_CardinalityType, FS_EmptySet
<1>2. /\ page \in [1..Cardinality(S) -> S] /\ Range(page) = S
      /\ \A i, j \in DOMAIN page : i < j => Precedes(page[i], page[j])
  BY DEF InOrder
<1>3. page \in Seq(S) /\ Len(page) = Cardinality(S)
  BY <1>1, <1>2
<1>4. Len(<<>>) = 0
  OBVIOUS
<1>5. DOMAIN page = 1..Len(page)
  BY <1>3
<1> QED BY <1>1, <1>2, <1>3, <1>4, <1>5

LEMMA FirstPageIs ==
    ASSUME StoreTypes, NEW q \in Queues, Z(q) # {}
    PROVE  /\ FirstPage(q) \subseteq Z(q) /\ FirstPage(q) # {}
           /\ \A v \in FirstPage(q), u \in Z(q) : Precedes(u, v) => u \in FirstPage(q)
<1>1. Z(q) \subseteq Value /\ IsFiniteSet(Z(q))
  BY DEF StoreTypes
<1>2. \A v \in Value : v.id \in Nat /\ v.guid \in Nat
  BY Bounds DEF Value
<1>3. FirstPage(q) = {v \in Z(q) : Cardinality({u \in Z(q) : Precedes(u, v)}) < PageSize}
  BY DEF FirstPage, Z
<1>4. FirstPage(q) # {}
  <2> DEFINE Down(v) == {u \in Z(q) : Precedes(u, v)}
             downs == {Down(v) : v \in Z(q)}
             S == StrictSubsetOrdering(Z(q))
  <2>1. IsWellFoundedOn(S, FiniteSubsetsOf(Z(q)))
    BY FS_StrictSubsetOrderingWellFounded
  <2>2. downs \subseteq FiniteSubsetsOf(Z(q))
    BY <1>1, FS_FiniteSubsetsOfFinite
  <2>3. PICK D \in downs : \A B \in downs : <<B, D>> \notin S
    <3>1. downs # {}
      OBVIOUS
    <3> HIDE DEF downs, S
    <3> QED BY <2>1, <2>2, <3>1, WFMin
  <2>4. PICK v \in Z(q) : D = Down(v)
    BY <2>3
  <2>5. ASSUME NEW u \in Z(q), Precedes(u, v) PROVE FALSE
    <3>1. u \notin Down(u) /\ u \in Down(v) /\ Down(u) \subseteq Down(v)
      BY <1>1, <1>2, <2>5 DEF Precedes
    <3>2. <<Down(u), D>> \in S
      BY <2>4, <3>1 DEF StrictSubsetOrdering
    <3> QED BY <2>3, <3>2
  <2>6. {u \in Z(q) : Precedes(u, v)} = {}
    BY <2>5
  <2>7. Cardinality({u \in Z(q) : Precedes(u, v)}) < PageSize
    BY <2>6, FS_EmptySet, Bounds
  <2> QED BY <1>3, <2>7
<1>5. ASSUME NEW v \in FirstPage(q), NEW u \in Z(q), Precedes(u, v)
      PROVE  u \in FirstPage(q)
  <2>1. v \in Z(q) /\ Cardinality({x \in Z(q) : Precedes(x, v)}) < PageSize
    BY <1>3
  <2>2. PICK A : A = {x \in Z(q) : Precedes(x, v)}
    OBVIOUS
  <2>3. PICK B : B = {x \in Z(q) : Precedes(x, u)}
    OBVIOUS
  <2>4. \A x \in Z(q) : Precedes(x, u) => Precedes(x, v)
    BY <1>1, <1>2, <1>5, <2>1 DEF Precedes
  <2>5. B \in SUBSET A
    BY <2>2, <2>3, <2>4
  <2>6. IsFiniteSet(A)
    BY <1>1, <2>2, FS_Subset
  <2>7. Cardinality(B) <= Cardinality(A) /\ Cardinality(A) \in Nat /\ Cardinality(B) \in Nat
    BY <2>5, <2>6, FS_Subset, FS_CardinalityType
  <2>8. Cardinality(B) < PageSize
    BY <2>1, <2>2, <2>7, Bounds
  <2> QED BY <1>3, <2>3, <2>8
<1> QED BY <1>3, <1>4, <1>5

(* What each step does to the taker that makes it. *)
LEMMA LookupGuidIs ==
    ASSUME TakerTypes, StoreTypes, NEW t \in Takers, LookupGuid(t)
    PROVE  /\ Moves(t) /\ tk[t].pc = "remove" /\ tk[t].todo # <<>>
           /\ \/ /\ Guid(t) \in DOMAIN M(Queue(t))
                 /\ tk'[t].pc = "range" /\ tk'[t].id = M(Queue(t))[Guid(t)]
                 /\ tk'[t].todo = tk[t].todo /\ tk'[t].held = tk[t].held
                 /\ sent' = sent
              \/ /\ Guid(t) \notin DOMAIN M(Queue(t)) /\ GuidDone(t)
                 /\ tk'[t].todo = Tail(tk[t].todo) /\ tk'[t].held = NoValue
                 /\ tk'[t].pc \in {"remove", "card"}
                 /\ tk'[t].pc = "remove" => Tail(tk[t].todo) # <<>> /\ t[1] # "each"
<1>1. tk[t].pc = "remove" /\ Removes(t) /\ tk[t].todo # <<>>
  BY RecordIs DEF LookupGuid, At, Removes, TakerTyped
<1>2. CASE Guid(t) \in DOMAIN M(Queue(t))
  <2>1. PICK r : r = [tk[t] EXCEPT !.pc = "range", !.id = M(Queue(t))[Guid(t)]]
    OBVIOUS
  <2>2. tk' = [tk EXCEPT ![t].pc = "range", ![t].id = M(Queue(t))[Guid(t)]] /\ sent' = sent
    BY <1>2 DEF LookupGuid, M, msgs
  <2>3. tk' = [tk EXCEPT ![t] = r]
    BY <2>1, <2>2 DEF TakerTypes
  <2>4. M(Queue(t))[Guid(t)] \in Nat
    BY <1>2, TakerIs DEF StoreTypes
  <2>5. /\ r \in TakerRecord /\ r.pc = "range" /\ r.id = M(Queue(t))[Guid(t)]
        /\ r.todo = tk[t].todo /\ r.held = tk[t].held
    BY <2>1, <2>4, RecordIs DEF TakerRecord, Pcs
  <2> QED BY <1>1, <1>2, <2>2, <2>3, <2>5, MovesTo
<1>3. CASE Guid(t) \notin DOMAIN M(Queue(t))
  <2>1. GuidDone(t)
    BY <1>3 DEF LookupGuid, M
  <2> QED BY <1>1, <1>3, <2>1, GuidDoneIs
<1> QED BY <1>2, <1>3

LEMMA RangeByIdIs ==
    ASSUME TakerTypes, StoreTypes, NEW t \in Takers, RangeById(t)
    PROVE  /\ Moves(t) /\ tk[t].pc = "range"
           /\ tk'[t].pc = "zremrange" /\ tk'[t].id = tk[t].id /\ tk'[t].todo = tk[t].todo
           /\ \/ tk'[t].held \in Z(Queue(t)) /\ tk'[t].held.id = tk[t].id
              \/ tk'[t].held = NoValue /\ \A u \in Z(Queue(t)) : u.id # tk[t].id
<1>1. Queue(t) \in Queues /\ Z(Queue(t)) \subseteq Value
  BY TakerIs DEF StoreTypes
<1>2. PICK v \in WithId(Queue(t), tk[t].id) \cup {NoValue} :
        /\ IF v = NoValue THEN WithId(Queue(t), tk[t].id) = {}
                          ELSE IsFirst(v, WithId(Queue(t), tk[t].id))
        /\ tk' = [tk EXCEPT ![t].pc = "zremrange", ![t].held = v]
  BY DEF RangeById
<1>3. \/ v \in Z(Queue(t)) /\ v.id = tk[t].id
      \/ v = NoValue /\ \A u \in Z(Queue(t)) : u.id # tk[t].id
  BY <1>2 DEF WithId, Z
<1>4. PICK r : r = [tk[t] EXCEPT !.pc = "zremrange", !.held = v]
  OBVIOUS
<1>5. tk' = [tk EXCEPT ![t] = r]
  BY <1>2, <1>4 DEF TakerTypes
<1>6. r \in TakerRecord /\ r.pc = "zremrange" /\ r.id = tk[t].id /\ r.todo = tk[t].todo /\ r.held = v
  BY <1>1, <1>3, <1>4, RecordIs DEF TakerRecord, Pcs
<1>7. tk[t].pc = "range"
  BY DEF RangeById, At
<1> QED BY <1>3, <1>5, <1>6, <1>7, MovesTo

LEMMA CardIs ==
    ASSUME TakerTypes, NEW t \in Takers, Card(t)
    PROVE  /\ Moves(t) /\ tk[t].pc = "card"
           /\ \/ /\ Z(Queue(t)) = {} /\ tk'[t].pc = "del"
                 /\ tk'[t].todo = tk[t].todo /\ tk'[t].held = tk[t].held
              \/ CallDone(t)
<1>1. tk[t].pc = "card" /\ ((Z(Queue(t)) = {} /\ Go(t, "del")) \/ CallDone(t))
  BY DEF Card, At, Z
<1>2. "del" \in Pcs
  BY DEF Pcs
<1>3. CASE Z(Queue(t)) = {} /\ Go(t, "del")
  BY <1>1, <1>2, <1>3, GoIs
<1>4. CASE CallDone(t)
  BY <1>1, <1>4, CallDoneIs
<1> QED BY <1>1, <1>3, <1>4

LEMMA ReadMessagesIs ==
    ASSUME TakerTypes, StoreTypes, NEW t \in Takers, ReadMessages(t)
    PROVE  /\ Moves(t) /\ tk[t].pc = "page" /\ t[1] \in {"each", "persist"}
           /\ \/ /\ Z(Queue(t)) = {} /\ t[1] = "persist" /\ tk'[t].pc = "unlock"
                 /\ tk'[t].todo = tk[t].todo /\ tk'[t].held = tk[t].held
              \/ /\ Z(Queue(t)) = {} /\ t[1] = "each" /\ tk'[t].pc = "idle"
                 /\ tk'[t].todo = <<>> /\ tk'[t].held = NoValue
              \/ /\ tk'[t].pc = "remove" /\ tk'[t].todo # <<>> /\ tk'[t].held = tk[t].held
                 /\ \A i \in DOMAIN tk'[t].todo : tk'[t].todo[i] \in Stored(Queue(t))
<1>1. tk[t].pc = "page"
  BY DEF ReadMessages, At
<1>2. t[1] \in {"each", "persist"}
  BY <1>1, RecordIs DEF TakerTyped, RolesOf
<1>3. "unlock" \in Pcs /\ "remove" \in Pcs
  BY DEF Pcs
<1>4. Queue(t) \in Queues /\ Z(Queue(t)) \subseteq Value /\ IsFiniteSet(Z(Queue(t)))
  BY TakerIs DEF StoreTypes
<1>5. CASE Z(Queue(t)) = {} /\ t[1] = "persist"
  <2>1. Go(t, "unlock")
    BY <1>5 DEF ReadMessages, Z, Go, TakerTypes
  <2> QED BY <1>1, <1>3, <1>5, <2>1, GoIs
<1>6. CASE Z(Queue(t)) = {} /\ t[1] = "each"
  <2>1. tk' = [tk EXCEPT ![t] = Idle]
    BY <1>6 DEF ReadMessages, Z
  <2> QED BY <1>1, <1>6, <2>1, StopIs
<1>7. CASE Z(Queue(t)) # {}
  <2>1. PICK page \in InOrder(FirstPage(Queue(t))) :
          tk' = [tk EXCEPT ![t].pc = "remove", ![t].todo = Guids(page)]
    BY <1>7 DEF ReadMessages, Z
  <2>2. FirstPage(Queue(t)) \subseteq Z(Queue(t)) /\ FirstPage(Queue(t)) # {}
    BY <1>4, <1>7, FirstPageIs
  <2>3. IsFiniteSet(FirstPage(Queue(t)))
    BY <1>4, <2>2, FS_Subset
  <2>4. /\ page # <<>> /\ DOMAIN page = 1..Len(page) /\ Len(page) \in Nat
        /\ page \in Seq(FirstPage(Queue(t)))
    BY <2>1, <2>2, <2>3, PageIs
  <2>5. \A i \in DOMAIN page : page[i] \in Z(Queue(t))
    BY <2>2, <2>4
  <2>6. PICK guids : guids = Guids(page)
    OBVIOUS
  <2>7. /\ DOMAIN guids = 1..Len(page)
        /\ \A i \in 1..Len(page) : guids[i] = page[i].guid
    BY <2>4, <2>6 DEF Guids
  <2>8. \A i \in DOMAIN guids : guids[i] \in Stored(Queue(t)) /\ guids[i] \in Writers
    BY <1>4, <2>4, <2>5, <2>7 DEF Stored, Z, Value
  <2>9. guids \in Seq(Writers) /\ guids # <<>>
    <3>1. guids \in [1..Len(page) -> Writers]
      BY <2>6, <2>7, <2>8 DEF Guids
    <3>2. Len(page) # 0
      BY <2>4
    <3> QED BY <2>4, <2>7, <3>1, <3>2
  <2>10. PICK r : r = [tk[t] EXCEPT !.pc = "remove", !.todo = guids]
    OBVIOUS
  <2>11. r \in TakerRecord /\ r.pc = "remove" /\ r.todo = guids /\ r.held = tk[t].held
    BY <1>3, <2>9, <2>10, RecordIs DEF TakerRecord
  <2>12. tk' = [tk EXCEPT ![t] = r]
    BY <2>1, <2>6, <2>10 DEF TakerTypes
  <2>13. Moves(t) /\ tk'[t] = r
    BY <2>11, <2>12, MovesTo
  <2> QED BY <1>1, <1>2, <2>8, <2>9, <2>11, <2>13
<1> QED BY <1>2, <1>5, <1>6, <1>7

LEMMA ReadFirstIs ==
    ASSUME TakerTypes, StoreTypes, NEW t \in Takers, NEW n \in Amounts, ReadFirst(t, n)
    PROVE  /\ Moves(t) /\ t[1] = "stream" /\ tk[t].pc = "idle"
           /\ tk'[t].held \in Z(Queue(t)) /\ tk'[t].id = tk'[t].held.id
           /\ \A u \in Z(Queue(t)) : tk'[t].held.id <= u.id
           /\ tk'[t].todo = tk[t].todo /\ tk'[t].amount > 0
           /\ tk'[t].pc \in {"old", "guid"}
           /\ tk'[t].pc = "old" => tk'[t].held.off + tk'[t].amount < Length
<1>1. Queue(t) \in Queues /\ Z(Queue(t)) \subseteq Value
  BY TakerIs DEF StoreTypes
<1>2. /\ t[1] = "stream" /\ tk[t].pc = "idle"
      /\ \E v \in Z(Queue(t)) :
         /\ IsFirst(v, Z(Queue(t)))
         /\ tk' = [tk EXCEPT ![t].held = v, ![t].id = v.id, ![t].amount = n,
                             ![t].pc = IF n < Length - v.off THEN "old" ELSE "guid"]
  BY DEF ReadFirst, At, Z
<1>3. PICK v \in Z(Queue(t)) :
         /\ IsFirst(v, Z(Queue(t)))
         /\ tk' = [tk EXCEPT ![t].held = v, ![t].id = v.id, ![t].amount = n,
                             ![t].pc = IF n < Length - v.off THEN "old" ELSE "guid"]
  BY <1>2
<1>4. v \in Value /\ v.id \in Nat /\ v.off \in Nat /\ n \in Nat /\ n > 0 /\ Length \in Nat
  BY <1>1, Bounds DEF Value
<1>5. ASSUME NEW u \in Z(Queue(t)) PROVE v.id <= u.id
  <2>1. u.id \in Nat
    BY <1>1 DEF Value
  <2> QED BY <1>3, <1>4, <2>1 DEF IsFirst, Precedes
<1>6. PICK r : r = [tk[t] EXCEPT !.held = v, !.id = v.id, !.amount = n,
                                 !.pc = IF n < Length - v.off THEN "old" ELSE "guid"]
  OBVIOUS
<1>7. tk' = [tk EXCEPT ![t] = r]
  BY <1>3, <1>6 DEF TakerTypes
<1>8. /\ r \in TakerRecord /\ r.held = v /\ r.id = v.id /\ r.amount = n /\ r.todo = tk[t].todo
      /\ r.pc = IF n < Length - v.off THEN "old" ELSE "guid"
  BY <1>4, <1>6, RecordIs DEF TakerRecord, Pcs
<1>9. Moves(t) /\ tk'[t] = r
  BY <1>7, <1>8, MovesTo
<1>10. r.pc \in {"old", "guid"} /\ (r.pc = "old" => v.off + n < Length)
  BY <1>4, <1>8
<1> QED BY <1>2, <1>4, <1>5, <1>8, <1>9, <1>10

LEMMA FindOldIs ==
    ASSUME TakerTypes, StoreTypes, NEW t \in Takers, FindOld(t)
    PROVE  /\ Moves(t) /\ tk[t].pc = "old" /\ t[1] = "stream"
           /\ \/ /\ tk'[t].pc = "idle" /\ tk'[t].todo = <<>> /\ tk'[t].held = NoValue
              \/ \E v \in Z(Queue(t)) :
                   /\ v.id = tk[t].id /\ tk'[t].pc = "zrem"
                   /\ tk'[t].todo = <<v.guid>> /\ tk'[t].id = tk[t].id
                   /\ tk'[t].held = [tk[t].held EXCEPT !.order = v.order]
                   /\ tk'[t].amount = tk[t].amount
<1>1. Queue(t) \in Queues /\ Z(Queue(t)) \subseteq Value
  BY TakerIs DEF StoreTypes
<1>2. tk[t].pc = "old" /\ t[1] = "stream" /\ tk[t].held \in Value
  <2>1. tk[t].pc = "old"
    BY DEF FindOld, At
  <2> QED BY <2>1, RecordIs DEF TakerTyped, RolesOf, Updates
<1>3. CASE WithId(Queue(t), tk[t].id) = {}
  <2>1. tk' = [tk EXCEPT ![t] = Idle]
    BY <1>3 DEF FindOld
  <2> QED BY <1>2, <2>1, StopIs
<1>4. CASE WithId(Queue(t), tk[t].id) # {}
  <2>1. PICK v \in WithId(Queue(t), tk[t].id) :
          tk' = [tk EXCEPT ![t].pc = "zrem", ![t].held.order = v.order, ![t].todo = <<v.guid>>]
    BY <1>4 DEF FindOld
  <2>2. v \in Z(Queue(t)) /\ v.id = tk[t].id
    BY <2>1 DEF WithId, Z
  <2>3. v.guid \in Writers /\ v.order \in Int
    BY <1>1, <2>2 DEF Value
  <2>4. PICK h : h = [tk[t].held EXCEPT !.order = v.order]
    OBVIOUS
  <2>5. h \in Value
    BY <1>2, <2>3, <2>4 DEF Value
  <2>6. PICK r : r = [tk[t] EXCEPT !.pc = "zrem", !.held = h, !.todo = <<v.guid>>]
    OBVIOUS
  <2>7. tk' = [tk EXCEPT ![t] = r]
    BY <2>1, <2>4, <2>6 DEF TakerTypes
  <2>8. <<v.guid>> \in Seq(Writers) /\ "zrem" \in Pcs
    BY <2>3 DEF Pcs
  <2>9. /\ r \in TakerRecord /\ r.pc = "zrem" /\ r.held = h /\ r.todo = <<v.guid>>
        /\ r.id = tk[t].id /\ r.amount = tk[t].amount
    BY <2>5, <2>6, <2>8, RecordIs DEF TakerRecord
  <2>10. Moves(t) /\ tk'[t] = r
    BY <2>7, <2>9, MovesTo
  <2> QED BY <1>2, <2>2, <2>4, <2>9, <2>10
<1> QED BY <1>3, <1>4

LEMMA ReadChunksIs ==
    ASSUME TakerTypes, StoreTypes, NEW t \in Takers, ReadChunks(t)
    PROVE  /\ Moves(t) /\ tk[t].pc = "idle" /\ t[1] = "page"
           /\ \/ tk'[t].pc = "card" /\ tk'[t].todo = tk[t].todo /\ tk'[t].held = tk[t].held
              \/ /\ tk'[t].pc = "remove" /\ tk'[t].todo # <<>> /\ tk'[t].held = NoValue
                 /\ \E page \in Seq(Z(Queue(t))) :
                      /\ DOMAIN page = DOMAIN tk'[t].todo
                      /\ \A i \in DOMAIN page :
                           /\ page[i] \in Z(Queue(t)) /\ page[i].id \in DOMAIN R(Queue(t))
                           /\ tk'[t].todo[i] = R(Queue(t))[page[i].id]
                           /\ \A u \in Z(Queue(t)) :
                                Precedes(u, page[i]) /\ u.id \in DOMAIN R(Queue(t)) =>
                                    \E j \in 1..(i - 1) : page[j] = u
<1> DEFINE q == Queue(t)
           found == {v \in FirstPage(q) : v.id \in DOMAIN R(q)}
<1>1. q \in Queues /\ Z(q) \subseteq Value /\ IsFiniteSet(Z(q))
  BY TakerIs DEF StoreTypes
<1>2. tk[t].pc = "idle" /\ t[1] = "page" /\ Z(q) # {}
  BY DEF ReadChunks, At, Z
<1>3. /\ FirstPage(q) \subseteq Z(q)
      /\ \A v \in FirstPage(q), u \in Z(q) : Precedes(u, v) => u \in FirstPage(q)
  BY <1>1, <1>2, FirstPageIs
<1>4. CASE found = {}
  <2>1. Go(t, "card") /\ "card" \in Pcs
    BY <1>4 DEF ReadChunks, R, Pcs
  <2> QED BY <1>2, <2>1, GoIs
<1>5. CASE found # {}
  <2>1. PICK page \in InOrder(found) : StartRemove(t, [i \in DOMAIN page |-> R(q)[page[i].id]])
    BY <1>5 DEF ReadChunks, R
  <2>2. IsFiniteSet(found) /\ found \subseteq Z(q)
    BY <1>1, <1>3, FS_Subset
  <2>3. /\ page \in Seq(found) /\ page # <<>> /\ DOMAIN page = 1..Len(page) /\ Len(page) \in Nat
        /\ Range(page) = found
        /\ \A i, j \in DOMAIN page : i < j => Precedes(page[i], page[j])
    <3> HIDE DEF found
    <3> QED BY <1>5, <2>1, <2>2, PageIs
  <2>4. page \in Seq(Z(q))
    BY <2>2, <2>3
  <2>5. \A i \in DOMAIN page : page[i] \in found
    BY <2>3 DEF Range
  <2>6. PICK guids : guids = [i \in DOMAIN page |-> R(q)[page[i].id]]
    OBVIOUS
  <2>7. \A i \in DOMAIN page : guids[i] = R(q)[page[i].id] /\ guids[i] \in Writers
    BY <1>1, <2>5, <2>6 DEF StoreTypes
  <2>8. DOMAIN guids = DOMAIN page /\ guids \in [1..Len(page) -> Writers]
    BY <2>3, <2>6, <2>7
  <2>9. guids \in Seq(Writers) /\ guids # <<>>
    BY <2>3, <2>8
  <2>10. Moves(t) /\ tk'[t].pc = "remove" /\ tk'[t].todo = guids /\ tk'[t].held = NoValue
    BY <2>1, <2>6, <2>9, StartRemoveIs
  <2>11. ASSUME NEW i \in DOMAIN page, NEW u \in Z(q), Precedes(u, page[i]), u.id \in DOMAIN R(q)
         PROVE  \E j \in 1..(i - 1) : page[j] = u
    <3>1. u \in found
      BY <1>3, <2>5, <2>11
    <3>2. PICK j \in DOMAIN page : page[j] = u
      BY <2>3, <3>1 DEF Range
    <3>3. page[i] \in Value /\ page[j] \in Value
      BY <1>1, <2>2, <2>5
    <3>4. page[i].id \in Nat /\ page[j].id \in Nat /\ page[i].guid \in Nat /\ page[j].guid \in Nat
      BY <3>3, Bounds DEF Value
    <3>5. ~Precedes(page[i], page[j]) /\ i # j
      BY <2>11, <3>2, <3>4 DEF Precedes
    <3>6. i \in Nat /\ j \in Nat /\ 1 <= j
      BY <2>3
    <3>7. j < i
      BY <2>3, <3>5, <3>6
    <3> QED BY <3>2, <3>6, <3>7
  <2> HIDE DEF q, found
  <2>12. \A i \in DOMAIN page : page[i] \in Z(q) /\ page[i].id \in DOMAIN R(q)
    BY <2>2, <2>5 DEF found
  <2> QED BY <1>2, <2>4, <2>7, <2>8, <2>9, <2>10, <2>11, <2>12 DEF q
<1> QED BY <1>4, <1>5

LEMMA FindGuidIs ==
    ASSUME TakerTypes, StoreTypes, NEW t \in Takers, FindGuid(t)
    PROVE  /\ Moves(t) /\ tk[t].pc = "guid" /\ t[1] = "stream"
           /\ \/ /\ tk'[t].pc = "idle" /\ tk'[t].todo = <<>> /\ tk'[t].held = NoValue
              \/ /\ tk[t].id \in DOMAIN R(Queue(t))
                 /\ tk'[t].pc = "remove" /\ tk'[t].todo = <<R(Queue(t))[tk[t].id]>>
                 /\ tk'[t].held = NoValue
<1>1. tk[t].pc = "guid" /\ t[1] = "stream"
  <2>1. tk[t].pc = "guid"
    BY DEF FindGuid, At
  <2> QED BY <2>1, RecordIs DEF TakerTyped, RolesOf
<1>2. CASE tk[t].id \in DOMAIN R(Queue(t))
  <2>1. StartRemove(t, <<R(Queue(t))[tk[t].id]>>)
    BY <1>2 DEF FindGuid, R
  <2>2. R(Queue(t))[tk[t].id] \in Writers
    BY <1>2, TakerIs DEF StoreTypes
  <2>3. <<R(Queue(t))[tk[t].id]>> \in Seq(Writers)
    BY <2>2
  <2> QED BY <1>1, <1>2, <2>1, <2>3, StartRemoveIs
<1>3. CASE tk[t].id \notin DOMAIN R(Queue(t))
  <2>1. tk' = [tk EXCEPT ![t] = Idle]
    BY <1>3 DEF FindGuid, R
  <2> QED BY <1>1, <2>1, StopIs
<1> QED BY <1>2, <1>3

(* The steps that only change pc. *)
LEMMA GoesIs ==
    ASSUME TakerTypes, NEW t \in Takers
    PROVE  /\ RemoveById(t) => At(t, "zremrange") /\ Go(t, "hdel")
           /\ DeleteGuid(t) => At(t, "hdel") /\ Go(t, "hdelrev")
           /\ DeleteQueue(t) => At(t, "del") /\ Go(t, "delmeta")
           /\ DeleteMetadata(t) => At(t, "delmeta") /\ Go(t, "unindex")
           /\ CheckLock(t) => At(t, "idle") /\ t[1] = "each" /\ Go(t, "page")
           /\ ReadIndex(t) => At(t, "idle") /\ t[1] = "persist" /\ Go(t, "picked")
           /\ PickQueue(t) => At(t, "picked") /\ t[1] = "persist" /\ Go(t, "lock")
           /\ SetLock(t) => At(t, "lock") /\ t[1] = "persist" /\ Go(t, "page")
           /\ ReleaseLock(t) => At(t, "unlock") /\ t[1] = "persist" /\ Go(t, "idle")
           /\ {"hdel", "hdelrev", "delmeta", "unindex", "page", "picked", "lock", "idle"}
                 \subseteq Pcs
BY RecordIs DEF RemoveById, DeleteGuid, DeleteQueue, DeleteMetadata, CheckLock, ReadIndex,
    PickQueue, SetLock, ReleaseLock, TakerTyped, RolesOf, At, Pcs

LEMMA RemoveOldIs ==
    ASSUME Types, NEW t \in Takers, RemoveOld(t)
    PROVE  /\ Moves(t) /\ tk[t].pc = "zrem" /\ t[1] = "stream"
           /\ \E old \in SUBSET Z(Queue(t)) :
                /\ old = {v \in Z(Queue(t)) : v.id = tk[t].id /\ v.guid = Guid(t)
                                              /\ v.order = tk[t].held.order}
                /\ zset' = [zset EXCEPT ![QueueKey(Queue(t))] = Z(Queue(t)) \ old]
                /\ \/ /\ old = {} /\ tk'[t].pc = "idle" /\ tk'[t].todo = <<>>
                      /\ tk'[t].held = NoValue
                   \/ /\ old # {} /\ tk'[t].pc = "zadd" /\ tk'[t].todo = tk[t].todo
                      /\ tk'[t].held = tk[t].held /\ tk'[t].id = tk[t].id
                      /\ tk'[t].amount = tk[t].amount
<1>1. tk[t].pc = "zrem" /\ t[1] = "stream" /\ "zadd" \in Pcs
  <2>1. tk[t].pc = "zrem"
    BY DEF RemoveOld, At
  <2> QED BY <2>1, RecordIs DEF TakerTyped, RolesOf, Types, Pcs
<1>2. PICK old : old = {v \in Z(Queue(t)) : v.id = tk[t].id /\ v.guid = Guid(t)
                                              /\ v.order = tk[t].held.order}
  OBVIOUS
<1>3. /\ zset' = [zset EXCEPT ![QueueKey(Queue(t))] = Z(Queue(t)) \ old]
      /\ IF old = {} THEN tk' = [tk EXCEPT ![t] = Idle] ELSE Go(t, "zadd")
  <2>1. QueueKey(Queue(t)) \in DOMAIN zset
    BY TakerIs DEF Types, StoreTypes
  <2> QED BY <1>2, <2>1 DEF RemoveOld, Z
<1>4. CASE old = {}
  BY <1>1, <1>2, <1>3, <1>4, StopIs DEF Types
<1>5. CASE old # {}
  BY <1>1, <1>2, <1>3, <1>5, GoIs DEF Types
<1> QED BY <1>4, <1>5

(* What each step does to the store. *)
LEMMA NumberIs ==
    ASSUME Types, NEW w \in Writers, Number(w)
    PROVE  /\ StoreTypes' /\ KeepZ /\ KeepM /\ KeepR
           /\ C(wq[w])' = C(wq[w]) + 1 /\ \A p \in Others(wq[w]) : C(p)' = C(p)
           /\ wid' = [wid EXCEPT ![w] = C(wq[w]) + 1]
           /\ wpc[w] = "new" /\ wpc' = [wpc EXCEPT ![w] = "number"]
           /\ earlier' = [earlier EXCEPT ![w] = {v \in Writers : wpc[v] = "done"}]
           /\ UNCHANGED <<wq, index, tk, sent, answered, out, cut>>
<1>1. PICK q \in Queues : q = wq[w]
  BY DEF Types, OtherTypes
<1>2. counter' = [counter EXCEPT ![MetadataKey(q)] = @ + 1]
  BY <1>1 DEF Number
<1>3. UNCHANGED <<zset, ids, rev, index, lock>>
  BY DEF Number
<1>4. /\ StoreTypes' /\ KeepZ /\ KeepM /\ KeepR
      /\ C(q)' = C(q) + 1 /\ counter'[MetadataKey(q)] = C(q) + 1
      /\ \A p \in Others(q) : C(p)' = C(p)
  BY <1>2, <1>3, CounterMoves DEF Types
<1> QED BY <1>1, <1>4 DEF Number, Step, msgs

LEMMA AddValueIs ==
    ASSUME Types, NEW w \in Writers, AddValue(w)
    PROVE  /\ StoreTypes' /\ KeepC /\ KeepM /\ KeepR
           /\ Z(wq[w])' = Z(wq[w]) \cup {[id |-> wid[w], guid |-> w, off |-> 0, order |-> 0]}
           /\ \A p \in Others(wq[w]) : Z(p)' = Z(p)
           /\ wpc[w] = "number" /\ wpc' = [wpc EXCEPT ![w] = "value"]
           /\ UNCHANGED <<wq, wid, earlier, index, tk, sent, answered, out, cut>>
<1>1. PICK q \in Queues : q = wq[w]
  BY DEF Types, OtherTypes
<1>2. PICK v : v = [id |-> wid[w], guid |-> w, off |-> 0, order |-> 0]
  OBVIOUS
<1>3. v \in Value
  BY <1>2, Bounds DEF Types, OtherTypes, Value
<1>4. Z(q) \cup {v} \in SUBSET Value /\ IsFiniteSet(Z(q) \cup {v})
  BY <1>3, FS_AddElement DEF Types, StoreTypes
<1>5. zset' = [zset EXCEPT ![QueueKey(q)] = Z(q) \cup {v}]
  BY <1>1, <1>2 DEF AddValue, Z, Types, StoreTypes
<1>6. UNCHANGED <<counter, ids, rev, index, lock>>
  BY DEF AddValue
<1>7. /\ StoreTypes' /\ KeepC /\ KeepM /\ KeepR
      /\ Z(q)' = Z(q) \cup {v} /\ \A p \in Others(q) : Z(p)' = Z(p)
  BY <1>4, <1>5, <1>6, ZsetMoves DEF Types
<1> QED BY <1>1, <1>2, <1>7 DEF AddValue, Step, msgs

LEMMA SetIs ==
    ASSUME NEW f, NEW x, NEW v
    PROVE  /\ DOMAIN Set(f, x, v) = DOMAIN f \cup {x} /\ Set(f, x, v)[x] = v
           /\ \A y \in DOMAIN f : y # x => Set(f, x, v)[y] = f[y]
BY DEF Set

LEMMA UnsetIs ==
    ASSUME NEW f, NEW x
    PROVE  /\ DOMAIN Unset(f, x) = DOMAIN f \ {x}
           /\ \A y \in DOMAIN f : y # x => Unset(f, x)[y] = f[y]
BY DEF Unset

LEMMA SetGuidIs ==
    ASSUME Types, NEW w \in Writers, SetGuid(w)
    PROVE  /\ StoreTypes' /\ KeepZ /\ KeepC /\ KeepR
           /\ M(wq[w])' = Set(M(wq[w]), w, wid[w]) /\ \A p \in Others(wq[w]) : M(p)' = M(p)
           /\ wpc[w] = "value" /\ wpc' = [wpc EXCEPT ![w] = "guid"]
           /\ UNCHANGED <<wq, wid, earlier, index, tk, sent, answered, out, cut>>
<1>1. PICK q \in Queues : q = wq[w]
  BY DEF Types, OtherTypes
<1>2. PICK f : f = Set(M(q), w, wid[w])
  OBVIOUS
<1>3. DOMAIN f \subseteq Writers /\ \A u \in DOMAIN f : f[u] \in Nat
  <2>1. DOMAIN M(q) \subseteq Writers /\ (\A u \in DOMAIN M(q) : M(q)[u] \in Nat) /\ wid[w] \in Nat
    BY DEF Types, StoreTypes, OtherTypes
  <2>2. /\ DOMAIN f = DOMAIN M(q) \cup {w} /\ f[w] = wid[w]
        /\ \A y \in DOMAIN M(q) : y # w => f[y] = M(q)[y]
    BY <1>2 DEF Set
  <2> QED BY <2>1, <2>2
<1>4. ids' = [ids EXCEPT ![MetadataKey(q)] = f]
  BY <1>1, <1>2 DEF SetGuid, M, Types, StoreTypes
<1>5. UNCHANGED <<zset, counter, rev, index, lock>>
  BY DEF SetGuid
<1>6. /\ StoreTypes' /\ KeepZ /\ KeepC /\ KeepR
      /\ M(q)' = f /\ \A p \in Others(q) : M(p)' = M(p)
  BY <1>3, <1>4, <1>5, IdsMove DEF Types
<1> QED BY <1>1, <1>2, <1>6 DEF SetGuid, Step, msgs

LEMMA SetRevIs ==
    ASSUME Types, NEW w \in Writers, SetRev(w)
    PROVE  /\ StoreTypes' /\ KeepZ /\ KeepC /\ KeepM
           /\ R(wq[w])' = Set(R(wq[w]), wid[w], w) /\ \A p \in Others(wq[w]) : R(p)' = R(p)
           /\ wpc[w] = "guid" /\ wpc' = [wpc EXCEPT ![w] = "rev"]
           /\ UNCHANGED <<wq, wid, earlier, index, tk, sent, answered, out, cut>>
<1>1. PICK q \in Queues : q = wq[w]
  BY DEF Types, OtherTypes
<1>2. PICK f : f = Set(R(q), wid[w], w)
  OBVIOUS
<1>3. \A i \in DOMAIN f : f[i] \in Writers
  <2>1. \A i \in DOMAIN R(q) : R(q)[i] \in Writers
    BY DEF Types, StoreTypes
  <2>2. /\ DOMAIN f = DOMAIN R(q) \cup {wid[w]} /\ f[wid[w]] = w
        /\ \A y \in DOMAIN R(q) : y # wid[w] => f[y] = R(q)[y]
    BY <1>2 DEF Set
  <2> QED BY <2>1, <2>2
<1>4. rev' = [rev EXCEPT ![RevKey(q)] = f]
  BY <1>1, <1>2 DEF SetRev, R, Types, StoreTypes
<1>5. UNCHANGED <<zset, counter, ids, index, lock>>
  BY DEF SetRev
<1>6. /\ StoreTypes' /\ KeepZ /\ KeepC /\ KeepM
      /\ R(q)' = f /\ \A p \in Others(q) : R(p)' = R(p)
  BY <1>3, <1>4, <1>5, RevMoves DEF Types
<1> QED BY <1>1, <1>2, <1>6 DEF SetRev, Step, msgs

LEMMA AddToIndexIs ==
    ASSUME Types, NEW w \in Writers, AddToIndex(w)
    PROVE  /\ StoreTypes' /\ KeepZ /\ KeepC /\ KeepM /\ KeepR
           /\ QueueKey(wq[w]) \in index'[IndexKey(wq[w])]
           /\ \A q \in Queues : index[IndexKey(q)] \subseteq index'[IndexKey(q)]
           /\ wpc[w] = "rev" /\ wpc' = [wpc EXCEPT ![w] = "done"]
           /\ UNCHANGED <<wq, wid, earlier, tk, sent, answered, out, cut>>
<1>1. PICK q \in Queues : q = wq[w]
  BY DEF Types, OtherTypes
<1>2. PICK S \in SUBSET {QueueKey(p) : p \in Queues} : S = index[IndexKey(q)] \cup {QueueKey(q)}
  BY DEF Types, StoreTypes
<1>3. IndexKey(q) \in DOMAIN index
  BY DEF Types, StoreTypes
<1>4. index' = [index EXCEPT ![IndexKey(q)] = S]
  BY <1>1, <1>2, <1>3 DEF AddToIndex
<1>5. UNCHANGED <<zset, counter, ids, rev>> /\ lock' \subseteq {LockKey(p) : p \in Queues}
  BY DEF AddToIndex, Types, StoreTypes
<1>6. StoreTypes' /\ KeepZ /\ KeepC /\ KeepM /\ KeepR
  BY <1>4, <1>5, IndexMoves DEF Types
<1>7. \A p \in Queues : index[IndexKey(p)] \subseteq index'[IndexKey(p)]
  BY <1>2, <1>3, <1>4 DEF Types, StoreTypes
<1> QED BY <1>1, <1>2, <1>3, <1>4, <1>6, <1>7 DEF AddToIndex, Step, msgs

LEMMA CutInsertIs ==
    ASSUME Types, NEW w \in Writers, CutInsert(w)
    PROVE  /\ StoreTypes' /\ KeepZ /\ KeepC /\ KeepM /\ KeepR
           /\ Active(w) /\ cut = {} /\ cut' = {w} /\ wpc' = [wpc EXCEPT ![w] = "cut"]
           /\ UNCHANGED <<wq, wid, earlier, index, tk, sent, answered, out>>
<1>1. UNCHANGED <<zset, counter, ids, rev>> /\ index' = index
      /\ lock' \subseteq {LockKey(p) : p \in Queues}
  BY DEF CutInsert, Types, StoreTypes, store
<1>2. StoreTypes' /\ KeepZ /\ KeepC /\ KeepM /\ KeepR
  BY <1>1, IndexMoves DEF Types
<1> QED BY <1>1, <1>2 DEF CutInsert, msgs

LEMMA RemoveByIdIs ==
    ASSUME Types, NEW t \in Takers, RemoveById(t)
    PROVE  /\ StoreTypes' /\ KeepC /\ KeepM /\ KeepR
           /\ Z(Queue(t))' = {v \in Z(Queue(t)) : v.id # tk[t].id}
           /\ \A p \in Others(Queue(t)) : Z(p)' = Z(p)
           /\ At(t, "zremrange") /\ Go(t, "hdel")
           /\ UNCHANGED <<wq, wid, wpc, earlier, index, sent, answered, out, cut>>
<1>1. PICK q \in Queues : q = Queue(t)
  BY TakerIs
<1>2. PICK S : S = {v \in Z(q) : v.id # tk[t].id}
  OBVIOUS
<1>3. S \in SUBSET Value /\ IsFiniteSet(S)
  BY <1>2, FS_Subset DEF Types, StoreTypes
<1>4. zset' = [zset EXCEPT ![QueueKey(q)] = S]
  BY <1>1, <1>2 DEF RemoveById, Z, Types, StoreTypes
<1>5. UNCHANGED <<counter, ids, rev, index, lock>>
  BY DEF RemoveById
<1>6. /\ StoreTypes' /\ KeepC /\ KeepM /\ KeepR
      /\ Z(q)' = S /\ \A p \in Others(q) : Z(p)' = Z(p)
  BY <1>3, <1>4, <1>5, ZsetMoves DEF Types
<1> QED BY <1>1, <1>2, <1>6 DEF RemoveById, writerVars, msgs

LEMMA DeleteGuidIs ==
    ASSUME Types, NEW t \in Takers, DeleteGuid(t)
    PROVE  /\ StoreTypes' /\ KeepZ /\ KeepC /\ KeepR
           /\ M(Queue(t))' = Unset(M(Queue(t)), Guid(t))
           /\ \A p \in Others(Queue(t)) : M(p)' = M(p)
           /\ At(t, "hdel") /\ Go(t, "hdelrev")
           /\ UNCHANGED <<wq, wid, wpc, earlier, index, sent, answered, out, cut>>
<1>1. PICK q \in Queues : q = Queue(t)
  BY TakerIs
<1>2. PICK f : f = Unset(M(q), Guid(t))
  OBVIOUS
<1>3. DOMAIN f \subseteq Writers /\ \A u \in DOMAIN f : f[u] \in Nat
  <2>1. DOMAIN M(q) \subseteq Writers /\ \A u \in DOMAIN M(q) : M(q)[u] \in Nat
    BY DEF Types, StoreTypes
  <2>2. /\ DOMAIN f = DOMAIN M(q) \ {Guid(t)}
        /\ \A y \in DOMAIN M(q) : y # Guid(t) => f[y] = M(q)[y]
    BY <1>2, UnsetIs
  <2> QED BY <2>1, <2>2
<1>4. ids' = [ids EXCEPT ![MetadataKey(q)] = f]
  BY <1>1, <1>2 DEF DeleteGuid, M, Types, StoreTypes
<1>5. UNCHANGED <<zset, counter, rev, index, lock>>
  BY DEF DeleteGuid
<1>6. /\ StoreTypes' /\ KeepZ /\ KeepC /\ KeepR
      /\ M(q)' = f /\ \A p \in Others(q) : M(p)' = M(p)
  BY <1>3, <1>4, <1>5, IdsMove DEF Types
<1> QED BY <1>1, <1>2, <1>6 DEF DeleteGuid, writerVars, msgs

LEMMA DeleteRevIs ==
    ASSUME Types, NEW t \in Takers, DeleteRev(t)
    PROVE  /\ StoreTypes' /\ KeepZ /\ KeepC /\ KeepM
           /\ R(Queue(t))' = Unset(R(Queue(t)), tk[t].id)
           /\ \A p \in Others(Queue(t)) : R(p)' = R(p)
           /\ At(t, "hdelrev") /\ GuidDone(t)
           /\ out' = [out EXCEPT ![Queue(t)] = IF tk[t].held = NoValue THEN @
                        ELSE Append(@, Piece(tk[t].held, Length, Final))]
           /\ UNCHANGED <<wq, wid, wpc, earlier, index, answered, cut>>
<1>1. PICK q \in Queues : q = Queue(t)
  BY TakerIs
<1>2. PICK f : f = Unset(R(q), tk[t].id)
  OBVIOUS
<1>3. \A i \in DOMAIN f : f[i] \in Writers
  <2>1. \A i \in DOMAIN R(q) : R(q)[i] \in Writers
    BY DEF Types, StoreTypes
  <2>2. /\ DOMAIN f = DOMAIN R(q) \ {tk[t].id}
        /\ \A y \in DOMAIN R(q) : y # tk[t].id => f[y] = R(q)[y]
    BY ZenonT(60), <1>2, UnsetIs
  <2> QED BY <2>1, <2>2
<1>4. rev' = [rev EXCEPT ![RevKey(q)] = f]
  BY <1>1, <1>2 DEF DeleteRev, R, Types, StoreTypes
<1>5. UNCHANGED <<zset, counter, ids, index, lock>>
  BY DEF DeleteRev
<1>6. /\ StoreTypes' /\ KeepZ /\ KeepC /\ KeepM
      /\ R(q)' = f /\ \A p \in Others(q) : R(p)' = R(p)
  BY <1>3, <1>4, <1>5, RevMoves DEF Types
<1> QED BY <1>1, <1>2, <1>6 DEF DeleteRev, writerVars, GuidDone

LEMMA DeleteQueueIs ==
    ASSUME Types, NEW t \in Takers, DeleteQueue(t)
    PROVE  /\ StoreTypes' /\ KeepC /\ KeepM /\ KeepR
           /\ Z(Queue(t))' = {} /\ \A p \in Others(Queue(t)) : Z(p)' = Z(p)
           /\ At(t, "del") /\ Go(t, "delmeta")
           /\ UNCHANGED <<wq, wid, wpc, earlier, index, sent, answered, out, cut>>
<1>1. PICK q \in Queues : q = Queue(t)
  BY TakerIs
<1>2. IsFiniteSet({})
  BY FS_EmptySet
<1>3. zset' = [zset EXCEPT ![QueueKey(q)] = {}] /\ UNCHANGED <<counter, ids, rev, index, lock>>
  BY <1>1 DEF DeleteQueue
<1>4. /\ StoreTypes' /\ KeepC /\ KeepM /\ KeepR
      /\ Z(q)' = {} /\ \A p \in Others(q) : Z(p)' = Z(p)
  BY <1>2, <1>3, ZsetMoves DEF Types
<1> QED BY <1>1, <1>4 DEF DeleteQueue, writerVars, msgs

LEMMA DeleteMetadataIs ==
    ASSUME Types, NEW t \in Takers, DeleteMetadata(t)
    PROVE  /\ StoreTypes' /\ KeepZ /\ KeepR
           /\ M(Queue(t))' = <<>> /\ \A p \in Others(Queue(t)) : M(p)' = M(p) /\ C(p)' = C(p)
           /\ At(t, "delmeta") /\ Go(t, "unindex")
           /\ UNCHANGED <<wq, wid, wpc, earlier, index, sent, answered, out, cut>>
<1>1. PICK q \in Queues : q = Queue(t)
  BY TakerIs
<1>2. PICK f : f = <<>>
  OBVIOUS
<1>3. DOMAIN f \subseteq Writers /\ \A u \in DOMAIN f : f[u] \in Nat
  BY <1>2
<1>4. /\ ids' = [ids EXCEPT ![MetadataKey(q)] = f]
      /\ counter' = [counter EXCEPT ![MetadataKey(q)] = 0]
      /\ UNCHANGED <<zset, rev, index, lock>>
  BY <1>1, <1>2 DEF DeleteMetadata
<1>5. /\ StoreTypes' /\ KeepZ /\ KeepR
      /\ M(q)' = f /\ \A p \in Others(q) : M(p)' = M(p) /\ C(p)' = C(p)
  BY <1>3, <1>4, IdsMove DEF Types
<1> QED BY <1>1, <1>2, <1>5 DEF DeleteMetadata, writerVars, msgs

LEMMA AddRestIs ==
    ASSUME Types, NEW t \in Takers, AddRest(t)
    PROVE  /\ StoreTypes' /\ KeepC /\ KeepM /\ KeepR
           /\ Moves(t) /\ tk[t].pc = "zadd" /\ t[1] = "stream" /\ tk[t].held \in Value
           /\ tk'[t].pc = "idle" /\ tk'[t].todo = <<>> /\ tk'[t].held = NoValue
           /\ \E rest \in Value :
                /\ rest.id = tk[t].held.id /\ rest.guid = tk[t].held.guid
                /\ rest.off = tk[t].held.off + tk[t].amount /\ rest.order = tk[t].held.order - 1
                /\ Z(Queue(t))' = Z(Queue(t)) \cup {rest}
                /\ Piece(tk[t].held, rest.off, tk[t].held.order) \in Taken
                /\ out' = [out EXCEPT ![Queue(t)] =
                             Append(@, Piece(tk[t].held, rest.off, tk[t].held.order))]
           /\ \A p \in Others(Queue(t)) : Z(p)' = Z(p)
           /\ UNCHANGED <<wq, wid, wpc, earlier, index, sent, answered, cut>>
<1>1. PICK q \in Queues : q = Queue(t)
  BY TakerIs
<1>2. tk[t].pc = "zadd"
  BY DEF AddRest, At
<1>3. /\ t[1] = "stream" /\ tk[t].held \in Value /\ tk[t].amount \in Nat
      /\ tk[t].held.off + tk[t].amount < Length
  BY <1>2, RecordIs DEF Types, TakerTyped, RolesOf, Updates
<1>4. /\ tk[t].held.id \in Nat /\ tk[t].held.guid \in Writers /\ tk[t].held.off \in Nat
      /\ tk[t].held.order \in Int
  BY <1>3, Bounds DEF Value
<1>5. PICK rest : rest = [tk[t].held EXCEPT !.off = @ + tk[t].amount, !.order = @ - 1]
  OBVIOUS
<1>6. /\ rest.id = tk[t].held.id /\ rest.guid = tk[t].held.guid
      /\ rest.off = tk[t].held.off + tk[t].amount /\ rest.order = tk[t].held.order - 1
      /\ rest = [id |-> tk[t].held.id, guid |-> tk[t].held.guid,
                 off |-> tk[t].held.off + tk[t].amount, order |-> tk[t].held.order - 1]
  BY <1>3, <1>5 DEF Value
<1>7. rest \in Value
  <2>1. tk[t].held.off + tk[t].amount \in 0..Length
    BY <1>3, <1>4, Bounds
  <2>2. tk[t].held.order - 1 \in Int
    BY <1>4
  <2> QED BY <1>4, <1>6, <2>1, <2>2 DEF Value
<1>8. PICK S : S = Z(q) \cup {rest}
  OBVIOUS
<1>9. S \in SUBSET Value /\ IsFiniteSet(S)
  BY <1>7, <1>8, FS_AddElement DEF Types, StoreTypes
<1>10. zset' = [zset EXCEPT ![QueueKey(q)] = S]
  BY <1>1, <1>5, <1>8 DEF AddRest, Z, Types, StoreTypes
<1>11. UNCHANGED <<counter, ids, rev, index, lock>>
  BY DEF AddRest
<1>12. /\ StoreTypes' /\ KeepC /\ KeepM /\ KeepR
       /\ Z(q)' = S /\ \A p \in Others(q) : Z(p)' = Z(p)
  BY <1>9, <1>10, <1>11, ZsetMoves DEF Types
<1>13. tk' = [tk EXCEPT ![t] = Idle]
  BY DEF AddRest
<1>14. /\ Moves(t) /\ tk'[t].pc = "idle" /\ tk'[t].todo = <<>> /\ tk'[t].held = NoValue
  BY <1>13, StopIs DEF Types
<1>15. Piece(tk[t].held, rest.off, tk[t].held.order) \in Taken
  BY <1>3, <1>4, <1>6 DEF Piece, Taken
<1>16. out' = [out EXCEPT ![Queue(t)] = Append(@, Piece(tk[t].held, rest.off, tk[t].held.order))]
  BY <1>5 DEF AddRest
<1>17. UNCHANGED <<wq, wid, wpc, earlier, index, sent, answered, cut>>
  BY DEF AddRest, writerVars, msgs
<1>18. Z(q)' = Z(q) \cup {rest}
  BY <1>8, <1>12
<1>19. \E x \in Value :
                /\ x.id = tk[t].held.id /\ x.guid = tk[t].held.guid
                /\ x.off = tk[t].held.off + tk[t].amount /\ x.order = tk[t].held.order - 1
                /\ Z(Queue(t))' = Z(Queue(t)) \cup {x}
                /\ Piece(tk[t].held, x.off, tk[t].held.order) \in Taken
                /\ out' = [out EXCEPT ![Queue(t)] =
                             Append(@, Piece(tk[t].held, x.off, tk[t].held.order))]
  BY <1>1, <1>6, <1>7, <1>15, <1>16, <1>18
<1> QED BY <1>1, <1>2, <1>3, <1>12, <1>14, <1>17, <1>19

LEMMA RemoveOldStore ==
    ASSUME Types, NEW t \in Takers, RemoveOld(t)
    PROVE  /\ StoreTypes' /\ KeepC /\ KeepM /\ KeepR
           /\ Z(Queue(t))' = Z(Queue(t)) \ {v \in Z(Queue(t)) :
                v.id = tk[t].id /\ v.guid = Guid(t) /\ v.order = tk[t].held.order}
           /\ \A p \in Others(Queue(t)) : Z(p)' = Z(p)
           /\ UNCHANGED <<wq, wid, wpc, earlier, index, sent, answered, out, cut>>
<1>1. PICK q \in Queues : q = Queue(t)
  BY TakerIs
<1>2. PICK old \in SUBSET Z(q) :
        /\ old = {v \in Z(q) : v.id = tk[t].id /\ v.guid = Guid(t) /\ v.order = tk[t].held.order}
        /\ zset' = [zset EXCEPT ![QueueKey(q)] = Z(q) \ old]
  BY SMTT(30), <1>1, RemoveOldIs
<1>3. PICK S : S = Z(q) \ old
  OBVIOUS
<1>4. S \in SUBSET Value /\ IsFiniteSet(S)
  BY <1>3, FS_Subset DEF Types, StoreTypes
<1>5. UNCHANGED <<counter, ids, rev, index, lock>>
  BY DEF RemoveOld
<1>6. zset' = [zset EXCEPT ![QueueKey(q)] = S]
  BY <1>2, <1>3
<1>7. /\ StoreTypes' /\ KeepC /\ KeepM /\ KeepR
      /\ Z(q)' = S /\ \A p \in Others(q) : Z(p)' = Z(p)
  BY <1>4, <1>5, <1>6, ZsetMoves DEF Types
<1> QED BY <1>1, <1>2, <1>3, <1>7 DEF RemoveOld, writerVars, msgs

(* The steps of a taker that leave the values and their fields alone. *)
Quiet(t) ==
    \/ LookupGuid(t) \/ RangeById(t) \/ Card(t) \/ RemoveFromIndex(t) \/ CheckLock(t)
    \/ ReadMessages(t) \/ (\E w \in Writers : RemoveAnswered(t, w)) \/ ReadIndex(t)
    \/ PickQueue(t) \/ SetLock(t) \/ ReleaseLock(t) \/ ReadChunks(t)
    \/ (\E n \in Amounts : ReadFirst(t, n)) \/ FindOld(t) \/ FindGuid(t)

LEMMA QuietStore ==
    ASSUME Types, NEW t \in Takers, Quiet(t) \/ CutTaker(t)
    PROVE  /\ StoreTypes' /\ KeepZ /\ KeepC /\ KeepM /\ KeepR
           /\ UNCHANGED <<wq, wid, wpc, earlier, out>>
<1>1. UNCHANGED <<wq, wid, wpc, earlier, out>>
  BY ZenonT(60) DEF Quiet, LookupGuid, RangeById, Card, RemoveFromIndex, CheckLock, ReadMessages,
    RemoveAnswered, ReadIndex, PickQueue, SetLock, ReleaseLock, ReadChunks, ReadFirst, FindOld,
    FindGuid, CutTaker, writerVars
<1>2. UNCHANGED <<zset, counter, ids, rev>>
  BY ZenonT(60) DEF Quiet, LookupGuid, RangeById, Card, RemoveFromIndex, CheckLock, ReadMessages,
    RemoveAnswered, ReadIndex, PickQueue, SetLock, ReleaseLock, ReadChunks, ReadFirst, FindOld,
    FindGuid, CutTaker, store
<1>3. \/ index' = index
      \/ index' = [index EXCEPT ![IndexKey(Queue(t))] = @ \ {QueueKey(Queue(t))}]
  BY ZenonT(60) DEF Quiet, LookupGuid, RangeById, Card, RemoveFromIndex, CheckLock, ReadMessages,
    RemoveAnswered, ReadIndex, PickQueue, SetLock, ReleaseLock, ReadChunks, ReadFirst, FindOld,
    FindGuid, CutTaker, store
<1>4. lock' \in {lock, lock \cup {LockKey(Queue(t))}, lock \ {LockKey(Queue(t))}}
  BY ZenonT(60) DEF Quiet, LookupGuid, RangeById, Card, RemoveFromIndex, CheckLock, ReadMessages,
    RemoveAnswered, ReadIndex, PickQueue, SetLock, ReleaseLock, ReadChunks, ReadFirst, FindOld,
    FindGuid, CutTaker, store
<1>5. PICK q \in Queues : q = Queue(t)
  BY TakerIs
<1>6. lock' \subseteq {LockKey(p) : p \in Queues}
  BY <1>4, <1>5 DEF Types, StoreTypes
<1>7. \/ index' = index
      \/ \E p \in Queues, S \in SUBSET {QueueKey(x) : x \in Queues} :
            index' = [index EXCEPT ![IndexKey(p)] = S]
  <2>1. index[IndexKey(q)] \ {QueueKey(q)} \in SUBSET {QueueKey(x) : x \in Queues}
    BY DEF Types, StoreTypes
  <2>2. IndexKey(q) \in DOMAIN index
    BY DEF Types, StoreTypes
  <2> QED BY <1>3, <1>5, <2>1, <2>2
<1> QED BY <1>1, <1>2, <1>6, <1>7, IndexMoves DEF Types

LEMMA RemoveAnsweredIs ==
    ASSUME TakerTypes, NEW t \in Takers, NEW w \in Writers, RemoveAnswered(t, w)
    PROVE  /\ Moves(t) /\ tk[t].pc = "idle" /\ t[1] = "each"
           /\ w \in sent \ answered /\ wq[w] = Queue(t) /\ answered' = answered \cup {w}
           /\ tk'[t].pc = "remove" /\ tk'[t].todo = <<w>> /\ tk'[t].held = NoValue
<1>1. /\ StartRemove(t, <<w>>) /\ tk[t].pc = "idle" /\ t[1] = "each"
      /\ w \in sent \ answered /\ wq[w] = Queue(t) /\ answered' = answered \cup {w}
  BY DEF RemoveAnswered, At
<1>2. <<w>> \in Seq(Writers)
  OBVIOUS
<1> QED BY <1>1, <1>2, StartRemoveIs

LEMMA RemoveFromIndexIs ==
    ASSUME TakerTypes, NEW t \in Takers, RemoveFromIndex(t)
    PROVE  /\ Moves(t) /\ tk[t].pc = "unindex" /\ CallDone(t)
BY CallDoneIs DEF RemoveFromIndex, At

LEMMA CutTakerIs ==
    ASSUME Types, NEW t \in Takers, CutTaker(t)
    PROVE  /\ Moves(t) /\ tk'[t].pc = "idle" /\ tk'[t].todo = <<>> /\ tk'[t].held = NoValue
           /\ cut = {} /\ cut' = (Range(tk[t].todo) \cup {tk[t].held.guid}) \ {None}
           /\ cut' \subseteq Writers /\ t[1] \in {"stream", "page"}
           /\ UNCHANGED <<sent, answered, index>>
<1>1. tk' = [tk EXCEPT ![t] = Idle] /\ t[1] \in {"stream", "page"}
  BY DEF CutTaker
<1>2. cut = {} /\ cut' = (Range(tk[t].todo) \cup {tk[t].held.guid}) \ {None}
  BY DEF CutTaker
<1>3. Range(tk[t].todo) \subseteq Writers
  BY RecordIs DEF Range, Types
<1>4. tk[t].held.guid \in Writers \cup {None}
  BY RecordIs DEF Types, Value, NoValue
<1> QED BY <1>1, <1>2, <1>3, <1>4, StopIs DEF Types, CutTaker, msgs, store

(* Types. *)
LEMMA TypedStep ==
    ASSUME TakerTypes, NEW t \in Takers, Moves(t), TakerTyped(t)'
    PROVE  TakerTypes'
<1>1. ASSUME NEW u \in Takers \ {t} PROVE TakerTyped(u)'
  <2>1. TakerTyped(u) /\ tk'[u] = tk[u]
    BY DEF TakerTypes, Moves
  <2> QED BY <2>1 DEF TakerTyped, Removes, Updates, At
<1> QED BY <1>1 DEF TakerTypes, Moves

(* A taker that does not update a value has nothing else to show. *)
LEMMA TypedPlain ==
    ASSUME TakerTypes, NEW t \in Takers, Moves(t), NEW pc,
           tk'[t].pc = pc, t[1] \in RolesOf(pc),
           pc \notin {"old", "zrem", "zadd", "guid"},
           pc \in {"remove", "range", "zremrange", "hdel", "hdelrev"} => tk'[t].todo # <<>>
    PROVE  TakerTypes'
<1>1. TakerTyped(t)'
  BY DEF TakerTyped, Removes, Updates, At
<1> QED BY <1>1, TypedStep

LEMMA RolesAre ==
    /\ \A pc \in {"idle", "remove", "range", "zremrange", "hdel", "hdelrev", "card", "del",
                  "delmeta", "unindex"} :
         RolesOf(pc) = {"each", "persist", "stream", "page"}
    /\ RolesOf("picked") = {"persist"} /\ RolesOf("lock") = {"persist"}
    /\ RolesOf("unlock") = {"persist"} /\ RolesOf("page") = {"each", "persist"}
    /\ RolesOf("old") = {"stream"} /\ RolesOf("zrem") = {"stream"}
    /\ RolesOf("zadd") = {"stream"} /\ RolesOf("guid") = {"stream"}
BY DEF RolesOf

LEMMA TodoHere ==
    ASSUME TakerTypes, NEW t \in Takers, Removes(t)
    PROVE  /\ tk[t].todo \in Seq(Writers) /\ tk[t].todo # <<>>
           /\ Guid(t) = tk[t].todo[1] /\ Guid(t) \in Writers /\ 1 \in DOMAIN tk[t].todo
<1>1. tk[t].todo \in Seq(Writers) /\ tk[t].todo # <<>>
  BY RecordIs DEF TakerTyped
<1>2. /\ Head(tk[t].todo) = tk[t].todo[1] /\ Head(tk[t].todo) \in Writers
      /\ Len(tk[t].todo) \in Nat \ {0}
  BY <1>1, HeadTailIs
<1>3. DOMAIN tk[t].todo = 1..Len(tk[t].todo)
  BY <1>1
<1> QED BY <1>1, <1>2, <1>3 DEF Guid

LEMMA GuidDoneTypes ==
    ASSUME Types, NEW t \in Takers, Removes(t), GuidDone(t)
    PROVE  TakerTypes' /\ sent' \subseteq Writers /\ sent \subseteq sent' /\ answered' = answered
<1>1. /\ Moves(t) /\ tk'[t].todo = Tail(tk[t].todo) /\ tk'[t].pc \in {"remove", "card"}
      /\ tk'[t].pc = "remove" => Tail(tk[t].todo) # <<>>
  BY GuidDoneIs DEF Types
<1>2. t[1] \in {"each", "persist", "stream", "page"}
  BY TakerIs
<1>3. TakerTypes'
  BY ZenonT(60), <1>1, <1>2, RolesAre, TypedPlain DEF Types
<1>4. sent' = (IF t[1] = "each" THEN sent \cup {Guid(t)} ELSE sent) /\ answered' = answered
  BY DEF GuidDone
<1>5. Guid(t) \in Writers
  BY TodoHere DEF Types
<1> QED BY <1>3, <1>4, <1>5 DEF Types, OtherTypes

LEMMA CallDoneTypes ==
    ASSUME TakerTypes, NEW t \in Takers, CallDone(t)
    PROVE  TakerTypes'
<1>1. t[1] \in {"each", "persist", "stream", "page"}
  BY TakerIs
<1> QED BY <1>1, CallDoneIs, RolesAre, TypedPlain

LEMMA QuietTypes ==
    ASSUME Types, NEW t \in Takers, Quiet(t)
    PROVE  /\ TakerTypes' /\ sent' \subseteq Writers /\ answered' \subseteq sent' /\ cut' = cut
<1>1. t[1] \in {"each", "persist", "stream", "page"} /\ TakerTypes /\ StoreTypes
      /\ sent \subseteq Writers /\ answered \subseteq sent
  BY TakerIs DEF Types, OtherTypes
<1>2. cut' = cut
  BY ZenonT(60) DEF Quiet, LookupGuid, RangeById, Card, RemoveFromIndex, CheckLock, ReadMessages,
    RemoveAnswered, ReadIndex, PickQueue, SetLock, ReleaseLock, ReadChunks, ReadFirst, FindOld,
    FindGuid
<1>3. CASE LookupGuid(t)
  <2>1. tk[t].pc = "remove" /\ Removes(t) /\ Moves(t) /\ tk[t].todo # <<>> /\ answered' = answered
    BY <1>1, <1>3, LookupGuidIs DEF Removes, LookupGuid, msgs, GuidDone
  <2>2. CASE GuidDone(t)
    BY <1>1, <1>2, <2>1, <2>2, GuidDoneTypes
  <2>3. CASE ~GuidDone(t)
    <3>1. tk'[t].pc = "range" /\ tk'[t].todo # <<>> /\ sent' = sent
      BY <1>1, <1>3, <2>1, <2>3, LookupGuidIs
    <3>2. TakerTypes'
      BY <1>1, <2>1, <3>1, RolesAre, TypedPlain
    <3> QED BY <1>1, <1>2, <2>1, <3>1, <3>2
  <2> QED BY <2>2, <2>3
<1>4. ASSUME ~LookupGuid(t), \A w \in Writers : ~RemoveAnswered(t, w)
      PROVE  sent' = sent /\ answered' = answered
  BY ZenonT(60), <1>4 DEF Quiet, LookupGuid, RangeById, Card, RemoveFromIndex, CheckLock, ReadMessages,
    RemoveAnswered, ReadIndex, PickQueue, SetLock, ReleaseLock, ReadChunks, ReadFirst, FindOld,
    FindGuid, msgs
<1>5. CASE RangeById(t)
  <2>1. Moves(t) /\ tk'[t].pc = "zremrange" /\ tk'[t].todo = tk[t].todo /\ tk[t].pc = "range"
    BY <1>1, <1>5, RangeByIdIs
  <2>2. tk[t].todo # <<>>
    BY <2>1, RecordIs, <1>1 DEF TakerTyped, Removes
  <2>3. TakerTypes'
    BY <1>1, <2>1, <2>2, RolesAre, TypedPlain
  <2> QED BY <1>1, <1>2, <1>4, <1>5, <2>1, <2>3 DEF LookupGuid, RemoveAnswered, At
<1>6. CASE Card(t)
  <2>1. Moves(t) /\ tk[t].pc = "card" /\ (tk'[t].pc = "del" \/ CallDone(t))
    BY <1>1, <1>6, CardIs
  <2>2. TakerTypes'
    BY <1>1, <2>1, RolesAre, TypedPlain, CallDoneTypes
  <2> QED BY <1>1, <1>2, <1>4, <2>1, <2>2 DEF LookupGuid, RemoveAnswered, At
<1>7. CASE RemoveFromIndex(t)
  <2>1. tk[t].pc = "unindex" /\ TakerTypes'
    BY <1>1, <1>7, RemoveFromIndexIs, CallDoneTypes
  <2> QED BY <1>1, <1>2, <1>4, <2>1 DEF LookupGuid, RemoveAnswered, At
<1>8. CASE CheckLock(t) \/ ReadIndex(t) \/ PickQueue(t) \/ SetLock(t) \/ ReleaseLock(t)
  <2>1. PICK pc \in Pcs : /\ Go(t, pc) /\ t[1] \in RolesOf(pc)
                          /\ pc \in {"page", "picked", "lock", "idle"}
    BY <1>1, <1>8, GoesIs, RolesAre
  <2>2. Moves(t) /\ tk'[t].pc = pc
    BY <1>1, <2>1, GoIs
  <2>3. TakerTypes'
    BY <1>1, <2>1, <2>2, TypedPlain
  <2>4. sent' = sent /\ answered' = answered
    BY <1>8 DEF CheckLock, ReadIndex, PickQueue, SetLock, ReleaseLock, msgs
  <2> QED BY <1>1, <1>2, <2>3, <2>4
<1>9. CASE ReadMessages(t)
  <2>1. /\ Moves(t) /\ tk[t].pc = "page" /\ t[1] \in {"each", "persist"}
        /\ \/ tk'[t].pc = "unlock" /\ t[1] = "persist"
           \/ tk'[t].pc = "idle"
           \/ tk'[t].pc = "remove" /\ tk'[t].todo # <<>>
    BY <1>1, <1>9, ReadMessagesIs
  <2>2. TakerTypes'
    BY <1>1, <2>1, RolesAre, TypedPlain
  <2> QED BY <1>1, <1>2, <1>4, <2>1, <2>2 DEF LookupGuid, RemoveAnswered, At
<1>10. CASE \E w \in Writers : RemoveAnswered(t, w)
  <2>1. PICK w \in Writers : RemoveAnswered(t, w)
    BY <1>10
  <2>2. /\ Moves(t) /\ w \in sent \ answered /\ answered' = answered \cup {w}
        /\ tk'[t].pc = "remove" /\ tk'[t].todo = <<w>>
    BY <1>1, <2>1, RemoveAnsweredIs
  <2>3. <<w>> # <<>>
    OBVIOUS
  <2>4. TakerTypes'
    BY <1>1, <2>2, <2>3, RolesAre, TypedPlain
  <2>5. sent' = sent
    BY <2>1 DEF RemoveAnswered
  <2> QED BY <1>1, <1>2, <2>2, <2>4, <2>5
<1>11. CASE ReadChunks(t)
  <2>1. /\ Moves(t) /\ tk[t].pc = "idle" /\ t[1] = "page"
        /\ tk'[t].pc = "card" \/ (tk'[t].pc = "remove" /\ tk'[t].todo # <<>>)
    BY <1>1, <1>11, ReadChunksIs
  <2>2. TakerTypes'
    BY <1>1, <2>1, RolesAre, TypedPlain
  <2> QED BY <1>1, <1>2, <1>4, <2>1, <2>2 DEF LookupGuid, RemoveAnswered, At
<1>12. CASE \E n \in Amounts : ReadFirst(t, n)
  <2>1. PICK n \in Amounts : ReadFirst(t, n)
    BY <1>12
  <2>2. /\ Moves(t) /\ t[1] = "stream" /\ tk[t].pc = "idle"
        /\ tk'[t].held \in Z(Queue(t)) /\ tk'[t].amount > 0
        /\ tk'[t].pc \in {"old", "guid"}
        /\ tk'[t].pc = "old" => tk'[t].held.off + tk'[t].amount < Length
    BY <1>1, <2>1, ReadFirstIs
  <2>3. tk'[t].held \in Value
    BY <2>2, TakerIs DEF Types, StoreTypes
  <2>4. TakerTyped(t)'
    BY <2>2, <2>3, RolesAre DEF TakerTyped, Removes, Updates, At
  <2>5. TakerTypes'
    BY <1>1, <2>2, <2>4, TypedStep
  <2> QED BY <1>1, <1>2, <1>4, <2>2, <2>5 DEF LookupGuid, RemoveAnswered, At
<1>13. CASE FindOld(t)
  <2>1. /\ Moves(t) /\ tk[t].pc = "old" /\ t[1] = "stream"
    BY <1>1, <1>13, FindOldIs
  <2>2. CASE tk'[t].pc = "idle"
    <3>1. TakerTypes'
      BY <1>1, <2>1, <2>2, RolesAre, TypedPlain
    <3> QED BY <1>1, <1>2, <1>4, <2>1, <3>1 DEF LookupGuid, RemoveAnswered, At
  <2>3. CASE tk'[t].pc # "idle"
    <3>1. PICK v \in Z(Queue(t)) :
            /\ tk'[t].pc = "zrem" /\ tk'[t].todo = <<v.guid>>
            /\ tk'[t].held = [tk[t].held EXCEPT !.order = v.order]
            /\ tk'[t].amount = tk[t].amount
      BY <1>1, <1>13, <2>3, FindOldIs
    <3>2. tk[t].held \in Value /\ tk[t].amount > 0 /\ tk[t].held.off + tk[t].amount < Length
      BY <1>1, <2>1, RecordIs DEF TakerTyped, Updates
    <3>3. v.order \in Int
      BY TakerIs DEF Types, StoreTypes, Value
    <3>4. tk'[t].held \in Value /\ tk'[t].held.off = tk[t].held.off
      BY <3>1, <3>2, <3>3 DEF Value
    <3>5. tk'[t].todo # <<>>
      BY <3>1
    <3>6. TakerTyped(t)'
      BY <2>1, <3>1, <3>2, <3>4, <3>5, RolesAre DEF TakerTyped, Removes, Updates, At
    <3>7. TakerTypes'
      BY <1>1, <2>1, <3>6, TypedStep
    <3> QED BY <1>1, <1>2, <1>4, <2>1, <3>7 DEF LookupGuid, RemoveAnswered, At
  <2> QED BY <2>2, <2>3
<1>14. CASE FindGuid(t)
  <2>1. /\ Moves(t) /\ tk[t].pc = "guid"
        /\ \/ tk'[t].pc = "idle"
           \/ tk'[t].pc = "remove" /\ tk'[t].todo = <<R(Queue(t))[tk[t].id]>>
    BY <1>1, <1>14, FindGuidIs
  <2>2. <<R(Queue(t))[tk[t].id]>> # <<>>
    OBVIOUS
  <2>3. TakerTypes'
    BY <1>1, <2>1, <2>2, RolesAre, TypedPlain
  <2> QED BY <1>1, <1>2, <1>4, <2>1, <2>3 DEF LookupGuid, RemoveAnswered, At
<1> QED BY <1>3, <1>5, <1>6, <1>7, <1>8, <1>9, <1>10, <1>11, <1>12, <1>13, <1>14 DEF Quiet

InsertCommand(w) ==
    Number(w) \/ AddValue(w) \/ SetGuid(w) \/ SetRev(w) \/ AddToIndex(w) \/ CutInsert(w)

LEMMA CommandIs ==
    ASSUME Command
    PROVE  \/ \E w \in Writers : InsertCommand(w)
           \/ \E t \in Takers :
                \/ Quiet(t) \/ RemoveById(t) \/ DeleteGuid(t) \/ DeleteRev(t) \/ DeleteQueue(t)
                \/ DeleteMetadata(t) \/ RemoveOld(t) \/ AddRest(t) \/ CutTaker(t)
<1>1. CASE \E w \in Writers : InsertStep(w) \/ CutInsert(w)
  BY <1>1 DEF InsertStep, InsertMessage, EnqueuePayload, EnqueueIncoming, EnqueueOutgoing,
    InsertPayload, InsertChunk, InsertCommand
<1>2. CASE \E t \in Takers : RemoveStep(t) \/ TakeStep(t) \/ CheckLock(t) \/ CutTaker(t)
  BY <1>2 DEF RemoveStep, TakeStep, Quiet, DequeueIncoming, DequeueOutgoing, DequeuePayload
<1>3. CASE \E t \in Takers, w \in Writers : RemoveAnswered(t, w)
  BY <1>3 DEF Quiet
<1> QED BY <1>1, <1>2, <1>3 DEF Command

LEMMA InsertTypes ==
    ASSUME Types, NEW w \in Writers, InsertCommand(w), raced' \subseteq {"drain", "stale", "early"}
    PROVE  Types'
<1>1. StoreTypes' /\ tk' = tk
  BY NumberIs, AddValueIs, SetGuidIs, SetRevIs, AddToIndexIs, CutInsertIs DEF InsertCommand
<1>2. TakerTypes'
  BY <1>1 DEF Types, TakerTypes, TakerTyped, Removes, Updates, At
<1>3. \E pc \in {"number", "value", "guid", "rev", "done", "cut"} : wpc' = [wpc EXCEPT ![w] = pc]
  BY NumberIs, AddValueIs, SetGuidIs, SetRevIs, AddToIndexIs, CutInsertIs DEF InsertCommand
<1>4. cut' = cut \/ cut' = {w}
  BY NumberIs, AddValueIs, SetGuidIs, SetRevIs, AddToIndexIs, CutInsertIs DEF InsertCommand
<1>5. UNCHANGED <<wq, sent, answered, out>>
  BY NumberIs, AddValueIs, SetGuidIs, SetRevIs, AddToIndexIs, CutInsertIs DEF InsertCommand
<1>6. /\ wid' = wid \/ wid' = [wid EXCEPT ![w] = C(wq[w]) + 1]
      /\ earlier' = earlier \/ earlier' = [earlier EXCEPT ![w] = {v \in Writers : wpc[v] = "done"}]
  BY NumberIs, AddValueIs, SetGuidIs, SetRevIs, AddToIndexIs, CutInsertIs DEF InsertCommand
<1>7. C(wq[w]) + 1 \in Nat
  BY DEF Types, OtherTypes, StoreTypes
<1>8. wid' \in [Writers -> Nat]
  BY <1>6, <1>7 DEF Types, OtherTypes
<1>9. earlier' \in [Writers -> SUBSET Writers]
  <2>1. PICK D \in SUBSET Writers : D = {v \in Writers : wpc[v] = "done"}
    OBVIOUS
  <2>2. earlier' = earlier \/ earlier' = [earlier EXCEPT ![w] = D]
    BY <1>6, <2>1
  <2> QED BY <2>2 DEF Types, OtherTypes
<1>10. wpc' \in [Writers -> {"new", "number", "value", "guid", "rev", "done", "cut"}]
  BY <1>3 DEF Types, OtherTypes
<1> QED BY <1>1, <1>2, <1>4, <1>5, <1>8, <1>9, <1>10 DEF Types, OtherTypes

LEMMA GoTypes ==
    ASSUME Types, NEW t \in Takers, NEW pc \in {"hdel", "hdelrev", "delmeta", "unindex"},
           Go(t, pc), Removes(t) \/ pc \in {"delmeta", "unindex"}
    PROVE  TakerTypes'
<1>1. Moves(t) /\ tk'[t].pc = pc /\ tk'[t].todo = tk[t].todo
  BY GoIs DEF Types, Pcs
<1>2. Removes(t) => tk[t].todo # <<>>
  BY RecordIs DEF Types, TakerTyped
<1>3. t[1] \in RolesOf(pc)
  BY TakerIs, RolesAre
<1> QED BY <1>1, <1>2, <1>3, TypedPlain DEF Types

LEMMA OutTypes ==
    ASSUME Types, NEW q \in Queues, NEW p \in Taken, out' = [out EXCEPT ![q] = Append(@, p)]
    PROVE  out' \in [Queues -> Seq(Taken)]
<1>1. out[q] \in Seq(Taken)
  BY DEF Types, OtherTypes
<1>2. Append(out[q], p) \in Seq(Taken)
  BY <1>1
<1> QED BY <1>2 DEF Types, OtherTypes

LEMMA LastPiece ==
    ASSUME NEW v \in Value
    PROVE  /\ Piece(v, Length, Final) \in Taken
           /\ Piece(v, Length, Final).guid = v.guid /\ Piece(v, Length, Final).order = Final
<1>1. v.guid \in Writers /\ v.off + 1 \in Nat /\ Length \in Nat
  BY Bounds DEF Value
<1> QED BY <1>1 DEF Piece, Taken, Final

LEMMA TakerStepTypes ==
    ASSUME Types, NEW t \in Takers, raced' \subseteq {"drain", "stale", "early"},
           \/ Quiet(t) \/ RemoveById(t) \/ DeleteGuid(t) \/ DeleteRev(t) \/ DeleteQueue(t)
           \/ DeleteMetadata(t) \/ RemoveOld(t) \/ AddRest(t) \/ CutTaker(t)
    PROVE  Types'
<1> USE DEF Types
<1>0. t[1] \in {"each", "persist", "stream", "page"} /\ Queue(t) \in Queues
  BY TakerIs
<1>1. CASE Quiet(t)
  BY <1>1, QuietStore, QuietTypes DEF OtherTypes
<1>2. CASE RemoveById(t)
  <2>1. Go(t, "hdel") /\ Removes(t)
    BY <1>2, RemoveByIdIs DEF Removes, At
  <2> QED BY <1>2, <2>1, RemoveByIdIs, GoTypes DEF OtherTypes
<1>3. CASE DeleteGuid(t)
  <2>1. Go(t, "hdelrev") /\ Removes(t)
    BY <1>3, DeleteGuidIs DEF Removes, At
  <2> QED BY <1>3, <2>1, DeleteGuidIs, GoTypes DEF OtherTypes
<1>4. CASE DeleteRev(t)
  <2>1. GuidDone(t) /\ Removes(t)
    BY <1>4, DeleteRevIs DEF Removes, At
  <2>2. TakerTypes' /\ sent' \subseteq Writers /\ sent \subseteq sent' /\ answered' = answered
    BY <2>1, GuidDoneTypes
  <2>3. out' \in [Queues -> Seq(Taken)]
    <3>1. CASE tk[t].held = NoValue
      <4>1. out' = [out EXCEPT ![Queue(t)] = out[Queue(t)]]
        BY <1>4, <3>1, DeleteRevIs
      <4> QED BY <1>0, <4>1 DEF OtherTypes
    <3>2. CASE tk[t].held # NoValue
      <4>1. tk[t].held \in Value
        BY <3>2, RecordIs
      <4>2. Piece(tk[t].held, Length, Final) \in Taken
        BY <4>1, LastPiece
      <4>3. out' = [out EXCEPT ![Queue(t)] = Append(@, Piece(tk[t].held, Length, Final))]
        BY <1>4, <3>2, DeleteRevIs
      <4> QED BY <1>0, <4>2, <4>3, OutTypes
    <3> QED BY <3>1, <3>2
  <2> QED BY <1>4, <2>2, <2>3, DeleteRevIs DEF OtherTypes
<1>5. CASE DeleteQueue(t)
  <2>1. Go(t, "delmeta")
    BY <1>5, DeleteQueueIs
  <2> QED BY <1>5, <2>1, DeleteQueueIs, GoTypes DEF OtherTypes
<1>6. CASE DeleteMetadata(t)
  <2>1. Go(t, "unindex")
    BY <1>6, DeleteMetadataIs
  <2> QED BY <1>6, <2>1, DeleteMetadataIs, GoTypes DEF OtherTypes
<1>7. CASE RemoveOld(t)
  <2>1. Moves(t) /\ tk[t].pc = "zrem" /\ t[1] = "stream"
    BY <1>7, RemoveOldIs
  <2>2. TakerTypes'
    <3>1. CASE tk'[t].pc = "idle"
      BY <1>0, <2>1, <3>1, RolesAre, TypedPlain
    <3>2. CASE tk'[t].pc # "idle"
      <4>1. /\ tk'[t].pc = "zadd" /\ tk'[t].held = tk[t].held /\ tk'[t].amount = tk[t].amount
        BY <1>7, <3>2, RemoveOldIs
      <4>2. tk[t].held \in Value /\ tk[t].amount > 0 /\ tk[t].held.off + tk[t].amount < Length
        BY <2>1, RecordIs DEF TakerTyped, Updates
      <4>3. TakerTyped(t)'
        BY <2>1, <4>1, <4>2, RolesAre DEF TakerTyped, Removes, Updates, At
      <4> QED BY <2>1, <4>3, TypedStep
    <3> QED BY <3>1, <3>2
  <2> QED BY <1>7, <2>2, RemoveOldStore DEF OtherTypes
<1>8. CASE AddRest(t)
  <2>1. PICK p \in Taken : out' = [out EXCEPT ![Queue(t)] = Append(@, p)]
    BY <1>8, AddRestIs
  <2>2. out' \in [Queues -> Seq(Taken)]
    BY <1>0, <2>1, OutTypes
  <2>3. Moves(t) /\ tk'[t].pc = "idle"
    BY <1>8, AddRestIs
  <2>4. TakerTypes'
    BY <1>0, <2>3, RolesAre, TypedPlain
  <2> QED BY <1>8, <2>2, <2>4, AddRestIs DEF OtherTypes
<1>9. CASE CutTaker(t)
  <2>1. Moves(t) /\ tk'[t].pc = "idle" /\ cut' \subseteq Writers /\ UNCHANGED <<sent, answered>>
    BY <1>9, CutTakerIs
  <2>2. TakerTypes'
    BY <1>0, <2>1, RolesAre, TypedPlain
  <2> QED BY <1>9, <2>1, <2>2, QuietStore DEF OtherTypes
<1> QED BY <1>1, <1>2, <1>3, <1>4, <1>5, <1>6, <1>7, <1>8, <1>9

(* Whether the step is sound. *)
LEMMA RacedIs ==
    ASSUME RedisNext, Types
    PROVE  /\ Sound /\ Command /\ raced' \subseteq {"drain", "stale", "early"}
           /\ Sound' => ~Drain' /\ ~Stale
           /\ raced' = {} => raced = {} /\ ~Early
<1>1. /\ Sound /\ Command
      /\ raced' = raced \cup (IF Drain' THEN {"drain"} ELSE {})
                      \cup (IF Stale THEN {"stale"} ELSE {})
                      \cup (IF Early THEN {"early"} ELSE {})
  BY DEF RedisNext
<1>2. raced' \subseteq {"drain", "stale", "early"}
  BY <1>1 DEF Types, OtherTypes
<1>3. Sound' => "drain" \notin raced' /\ "stale" \notin raced'
  BY DEF Sound
<1> QED BY <1>1, <1>2, <1>3

LEMMA TypesStep == Types /\ [RedisNext]_redisVars => Types'
<1> SUFFICES ASSUME Types, [RedisNext]_redisVars PROVE Types'
  OBVIOUS
<1>1. CASE RedisNext
  <2>1. Command /\ raced' \subseteq {"drain", "stale", "early"}
    BY <1>1, RacedIs
  <2> QED BY <2>1, CommandIs, InsertTypes, TakerStepTypes
<1>2. CASE UNCHANGED redisVars
  BY <1>2 DEF redisVars, store, writerVars, msgs, Types, StoreTypes, OtherTypes, TakerTypes,
    TakerTyped, Removes, Updates, At, Z, C, M, R
<1> QED BY <1>1, <1>2

-----------------------------------------------------------------------------
(* Nothing becomes live: ids stay apart and in order. *)
Calm == \A w \in Writers : Live(w)' => Live(w)

LEMMA CalmIs ==
    ASSUME Types, Numbers, Rising, Calm, KeepC, UNCHANGED <<wq, wid, earlier>>
    PROVE  Numbers' /\ Rising'
<1>1. \A w \in Writers : wq[w] \in Queues
  BY DEF Types, OtherTypes
<1>2. ASSUME NEW w \in Writers, Live(w)' PROVE 1 <= wid'[w] /\ wid'[w] <= C(wq[w])'
  BY <1>1, <1>2 DEF Calm, Numbers, KeepC
<1>3. ASSUME NEW u \in Writers, NEW w \in Writers, Live(u)', Live(w)', wq'[u] = wq'[w], u # w
      PROVE  wid'[u] # wid'[w]
  BY <1>3 DEF Calm, Numbers
<1>4. ASSUME NEW u \in Writers, NEW w \in Writers, u \in earlier'[w], Live(u)', Live(w)',
             wq'[u] = wq'[w]
      PROVE  wid'[u] < wid'[w]
  BY <1>4 DEF Calm, Rising
<1>5. Numbers'
  BY <1>2, <1>3 DEF Numbers
<1>6. Rising'
  BY <1>4 DEF Rising
<1> QED BY <1>5, <1>6

(* A writer goes on. *)
Later ==
    \A w \in Writers :
        /\ wpc[w] # "new" => wid'[w] = wid[w]
        /\ wpc[w] \notin {"new", "number"} => wpc'[w] \notin {"new", "number"}
        /\ wpc[w] \notin {"new", "number", "value"} => wpc'[w] \notin {"new", "number", "value"}
        /\ wpc[w] \notin {"new", "number", "value", "guid"} =>
             wpc'[w] \notin {"new", "number", "value", "guid"}

LEMMA LaterIs == wpc' = wpc /\ wid' = wid => Later
BY DEF Later

LEMMA ValuesKept ==
    ASSUME Types, Values, Later, UNCHANGED wq, \A q \in Queues : Z(q)' \subseteq Z(q)
    PROVE  Values'
<1>1. ASSUME NEW q \in Queues, NEW v \in Z(q)'
      PROVE  /\ wq'[v.guid] = q /\ v.id = wid'[v.guid] /\ v.order <= 0
             /\ wpc'[v.guid] \notin {"new", "number"}
  <2>1. v \in Z(q) /\ v \in Value
    BY DEF Types, StoreTypes
  <2>2. v.guid \in Writers
    BY <2>1 DEF Value
  <2> QED BY <2>1, <2>2 DEF Values, Later
<1>2. ASSUME NEW q \in Queues, NEW u \in Z(q)', NEW v \in Z(q)', u.guid = v.guid
      PROVE  u = v
  BY <1>2 DEF Values
<1> QED BY <1>1, <1>2 DEF Values

LEMMA FieldsKept ==
    ASSUME Types, Fields, Later, UNCHANGED wq,
           \A q \in Queues : \A w \in DOMAIN M(q)' : w \in DOMAIN M(q) /\ M(q)'[w] = M(q)[w],
           \A q \in Queues : \A i \in DOMAIN R(q)' : i \in DOMAIN R(q) /\ R(q)'[i] = R(q)[i]
    PROVE  Fields'
<1>1. ASSUME NEW q \in Queues, NEW w \in DOMAIN M(q)'
      PROVE  wq'[w] = q /\ M(q)'[w] = wid'[w] /\ wpc'[w] \notin {"new", "number", "value"}
  <2>1. w \in DOMAIN M(q) /\ M(q)'[w] = M(q)[w]
    OBVIOUS
  <2>2. w \in Writers
    BY <2>1 DEF Types, StoreTypes
  <2> QED BY <2>1, <2>2 DEF Fields, Later
<1>2. ASSUME NEW q \in Queues, NEW i \in DOMAIN R(q)'
      PROVE  /\ wq'[R(q)'[i]] = q /\ wid'[R(q)'[i]] = i
             /\ wpc'[R(q)'[i]] \notin {"new", "number", "value", "guid"}
  <2>1. i \in DOMAIN R(q) /\ R(q)'[i] = R(q)[i]
    OBVIOUS
  <2>2. R(q)[i] \in Writers
    BY <2>1 DEF Types, StoreTypes
  <2> QED BY <2>1, <2>2 DEF Fields, Later
<1> QED BY <1>1, <1>2 DEF Fields

(* What holds of a taker that does not move. *)
LEMMA OthersOK ==
    ASSUME Types, NEW u \in Takers, TakerOK(u), tk'[u] = tk[u], Later, UNCHANGED wq,
           \A g \in Stored(Queue(u))' :
               wpc[g] \notin {"new", "number"} => g \in Stored(Queue(u)),
           u[1] = "stream" => Z(Queue(u)) \subseteq Z(Queue(u))',
           Draining(u) => Z(Queue(u))' \subseteq Z(Queue(u))
    PROVE  TakerOK(u)'
<1>1. tk[u].todo \in Seq(Writers)
  BY RecordIs DEF Types
<1>2. \A i \in DOMAIN tk[u].todo : tk[u].todo[i] \in Writers
  BY <1>1
<1>3. TodoOK(u)'
  BY <1>2 DEF TodoOK, TakerOK, Later, Queue
<1>4. HoldsId(u) => /\ Guid(u) \in Writers /\ wpc[Guid(u)] \notin {"new", "number", "value"}
  <2>1. HoldsId(u) => Removes(u)
    BY DEF HoldsId, Removes
  <2>2. HoldsId(u) => Guid(u) = tk[u].todo[1] /\ Guid(u) \in Writers /\ 1 \in DOMAIN tk[u].todo
    BY <2>1, TodoHere DEF Types
  <2> QED BY <2>2 DEF TakerOK, TodoOK, RemoveOK
<1>5. /\ Guid(u)' = Guid(u) /\ HoldsId(u)' = HoldsId(u) /\ Draining(u)' = Draining(u)
      /\ \A pc : At(u, pc)' = At(u, pc)
  BY DEF Guid, HoldsId, Draining, At
<1>6. RemoveOK(u)'
  BY <1>4, <1>5 DEF RemoveOK, TakerOK, Later, Queue, HoldsId, At
<1>7. UpdateOK(u)'
  <2>1. tk[u].pc \in {"old", "zrem", "zadd", "guid"} => u[1] = "stream" /\ tk[u].held \in Value
    BY RecordIs, RolesAre DEF Types, TakerTyped, Updates, At
  <2>2. tk[u].pc = "zadd" => tk[u].held.guid \in Writers
    BY <2>1 DEF Value
  <2> QED BY <2>1, <2>2 DEF UpdateOK, TakerOK, Later, Queue, At
<1>8. DrainOK(u)'
  BY <1>5 DEF DrainOK, TakerOK, Queue
<1> QED BY <1>3, <1>6, <1>7, <1>8 DEF TakerOK

(* Nothing becomes live by the step of a taker. *)
LEMMA TakerCalm ==
    ASSUME Types, NEW t \in Takers, Moves(t), UNCHANGED <<wq, wpc>>,
           \A w \in Writers : w \in Stored(wq[w])' => Live(w),
           \A w \in Writers : w \in DOMAIN M(wq[w])' => Live(w),
           HoldsId(t)' => Live(Guid(t)'),
           At(t, "zadd")' => Live(tk'[t].held.guid)
    PROVE  Calm
<1>1. ASSUME NEW u \in Takers \ {t}, NEW w
      PROVE  /\ (HoldsId(u) /\ Guid(u) = w)' => HoldsId(u) /\ Guid(u) = w
             /\ Adding(u, w)' => Adding(u, w)
  <2>1. tk'[u] = tk[u]
    BY DEF Moves
  <2> QED BY <2>1 DEF HoldsId, Guid, Adding, At
<1>2. ASSUME NEW w \in Writers, Live(w)' PROVE Live(w)
  <2>1. CASE Active(w)' \/ w \in Stored(wq[w])' \/ w \in DOMAIN M(wq[w])'
    BY <2>1 DEF Active, Live
  <2>2. CASE \E u \in Takers : ((HoldsId(u) /\ Guid(u) = w) \/ Adding(u, w))'
    <3>1. PICK u \in Takers : ((HoldsId(u) /\ Guid(u) = w) \/ Adding(u, w))'
      BY <2>2
    <3>2. CASE u = t
      BY <3>1, <3>2 DEF Adding
    <3>3. CASE u # t
      BY <1>1, <3>1, <3>3 DEF Live
    <3> QED BY <3>2, <3>3
  <2> QED BY <1>2, <2>1, <2>2 DEF Live
<1> QED BY <1>2 DEF Calm

(* A value is found by its id. *)
LEMMA IdsDiffer ==
    ASSUME Types, Numbers, Values, NEW q \in Queues, NEW v \in Z(q)
    PROVE  /\ v.guid \in Writers /\ wq[v.guid] = q /\ v.id = wid[v.guid] /\ Live(v.guid)
           /\ v.guid \in Stored(q)
           /\ \A w \in Writers : Live(w) /\ wq[w] = q /\ wid[w] = v.id => w = v.guid
           /\ \A u \in Z(q) : u.id = v.id => u = v
<1>1. \A u \in Z(q) : /\ u.guid \in Writers /\ wq[u.guid] = q /\ u.id = wid[u.guid]
                      /\ u.guid \in Stored(q) /\ Live(u.guid)
  <2>1. ASSUME NEW u \in Z(q)
        PROVE  /\ u.guid \in Writers /\ wq[u.guid] = q /\ u.id = wid[u.guid] /\ u.guid \in Stored(q)
    BY DEF Types, StoreTypes, Value, Values, Stored, Z
  <2> QED BY <2>1 DEF Live
<1>2. \A w \in Writers : Live(w) /\ wq[w] = q /\ wid[w] = v.id => w = v.guid
  BY <1>1 DEF Numbers
<1>3. \A u \in Z(q) : u.id = v.id => u = v
  BY <1>1, <1>2 DEF Values
<1> QED BY <1>1, <1>2, <1>3

LEMMA PlainOK ==
    ASSUME NEW t \in Takers, TodoOK(t)',
           tk'[t].pc \in {"idle", "picked", "lock", "page", "unlock", "remove", "card"}
    PROVE  TakerOK(t)'
BY DEF TakerOK, RemoveOK, UpdateOK, DrainOK, HoldsId, At, Draining

-----------------------------------------------------------------------------
(***************************************************************************)
(* The keys of a queue agree (KeysStep): one lemma for each command.       *)
(***************************************************************************)
(* Only a writer that begins comes to life. *)
LiveStays == \A w \in Writers : Live(w)' => Live(w) \/ wpc[w] = "new"

QuietPcs == {"idle", "picked", "lock", "page", "unlock", "remove", "range", "card",
             "unindex", "old", "guid"}

LEMMA GuidDoneOK ==
    ASSUME Types, NEW t \in Takers, Removes(t), GuidDone(t), TakerOK(t), Later, UNCHANGED wq
    PROVE  TakerOK(t)'
<1>1. /\ Moves(t) /\ tk'[t].todo = Tail(tk[t].todo) /\ tk'[t].pc \in {"remove", "card"}
  BY GuidDoneIs DEF Types
<1>2. tk[t].todo \in Seq(Writers) /\ tk[t].todo # <<>>
  BY TodoHere DEF Types
<1>3. /\ Tail(tk[t].todo) \in Seq(Writers)
      /\ Len(Tail(tk[t].todo)) = Len(tk[t].todo) - 1 /\ Len(tk[t].todo) \in Nat \ {0}
      /\ \A i \in 1..(Len(tk[t].todo) - 1) : Tail(tk[t].todo)[i] = tk[t].todo[i + 1]
  BY <1>2, HeadTailIs
<1>4. ASSUME NEW i \in DOMAIN tk'[t].todo
      PROVE  \E j \in DOMAIN tk[t].todo : tk[t].todo[j] = tk'[t].todo[i]
  <2>1. i \in 1..(Len(tk[t].todo) - 1)
    BY <1>1, <1>3
  <2>2. i + 1 \in DOMAIN tk[t].todo
    BY <1>2, <1>3, <2>1
  <2> QED BY <1>1, <1>3, <2>1, <2>2
<1>5. \A i \in DOMAIN tk[t].todo : tk[t].todo[i] \in Writers
  BY <1>2
<1>6. TodoOK(t)'
  BY <1>4, <1>5 DEF TodoOK, TakerOK, Later, Queue
<1> QED BY <1>1, <1>6, PlainOK

LEMMA CallDoneOK ==
    ASSUME Types, NEW t \in Takers, CallDone(t), TodoOK(t), UNCHANGED <<wq, wpc>>
    PROVE  TakerOK(t)'
<1>1. /\ tk'[t].pc \in {"remove", "page", "idle"}
      /\ tk'[t].todo = tk[t].todo \/ tk'[t].todo = <<>>
  BY CallDoneIs DEF Types
<1>2. TodoOK(t)'
  BY <1>1 DEF TodoOK, Queue
<1> QED BY <1>1, <1>2, PlainOK

LEMMA QuietOK ==
    ASSUME Types, KeysInd, NEW t \in Takers, Quiet(t), Types'
    PROVE  /\ Moves(t) /\ TakerOK(t)' /\ tk[t].pc \in QuietPcs
           /\ HoldsId(t)' => Live(Guid(t)')
           /\ tk'[t].pc \notin {"zadd", "hdel", "hdelrev"}
<1> USE DEF QuietPcs
<1>0. /\ TakerTypes /\ StoreTypes /\ Queue(t) \in Queues /\ TakerOK(t) /\ TodoOK(t)
      /\ Numbers /\ Values /\ Fields /\ SentIs
  BY TakerIs DEF Types, KeysInd, TakerOK
<1>1. /\ KeepZ /\ KeepC /\ KeepM /\ KeepR /\ UNCHANGED <<wq, wid, wpc, earlier, out>>
      /\ Later
  BY QuietStore, LaterIs
<1>2. Z(Queue(t))' = Z(Queue(t)) /\ Stored(Queue(t))' = Stored(Queue(t))
  BY <1>0, <1>1 DEF KeepZ, Stored, Z
<1>3. ASSUME tk'[t].todo = tk[t].todo \/ tk'[t].todo = <<>> PROVE TodoOK(t)'
  BY <1>0, <1>1, <1>3 DEF TodoOK, Queue
<1>4. ASSUME tk'[t].pc \notin {"range", "zremrange", "hdel", "hdelrev"}
      PROVE  HoldsId(t)' => Live(Guid(t)')
  BY <1>4 DEF HoldsId
<1>5. CASE LookupGuid(t)
  <2>1. Moves(t) /\ tk[t].pc = "remove" /\ tk[t].todo # <<>> /\ Removes(t)
    BY <1>0, <1>5, LookupGuidIs DEF Removes
  <2>2. CASE GuidDone(t)
    BY <1>0, <1>1, <1>4, <2>1, <2>2, GuidDoneOK, GuidDoneIs
  <2>3. CASE ~GuidDone(t)
    <3>1. /\ Guid(t) \in DOMAIN M(Queue(t))
          /\ tk'[t].pc = "range" /\ tk'[t].id = M(Queue(t))[Guid(t)]
          /\ tk'[t].todo = tk[t].todo
      BY <1>0, <1>5, <2>3, LookupGuidIs
    <3>2. Guid(t)' = Guid(t) /\ Queue(t)' = Queue(t)
      BY <3>1 DEF Guid, Queue
    <3>3. Guid(t) \in Writers /\ wq[Guid(t)] = Queue(t)
          /\ tk'[t].id = wid[Guid(t)] /\ wpc[Guid(t)] # "value"
      BY <1>0, <3>1 DEF Fields, StoreTypes
    <3>4. Live(Guid(t))
      BY <3>1, <3>3 DEF Live
    <3>5. TodoOK(t)'
      BY <1>3, <3>1
    <3>6. TakerOK(t)'
      BY <1>1, <3>1, <3>2, <3>3, <3>5
         DEF TakerOK, RemoveOK, UpdateOK, DrainOK, HoldsId, At, Draining
    <3> QED BY <2>1, <3>1, <3>2, <3>4, <3>6
  <2> QED BY <2>2, <2>3
<1>6. CASE RangeById(t)
  <2>1. /\ Moves(t) /\ tk[t].pc = "range" /\ Removes(t) /\ HoldsId(t)
        /\ tk'[t].pc = "zremrange" /\ tk'[t].id = tk[t].id /\ tk'[t].todo = tk[t].todo
        /\ \/ tk'[t].held \in Z(Queue(t)) /\ tk'[t].held.id = tk[t].id
           \/ tk'[t].held = NoValue /\ \A u \in Z(Queue(t)) : u.id # tk[t].id
    BY <1>0, <1>6, RangeByIdIs DEF Removes, HoldsId
  <2>2. Guid(t)' = Guid(t) /\ Queue(t)' = Queue(t)
    BY <2>1 DEF Guid, Queue
  <2>3. /\ Guid(t) \in Writers /\ wq[Guid(t)] = Queue(t) /\ tk[t].id = wid[Guid(t)]
        /\ wpc[Guid(t)] # "value"
    BY <1>0, <2>1, TodoHere DEF TodoOK, TakerOK, RemoveOK
  <2>4. Live(Guid(t))
    BY <2>1, <2>3 DEF Live
  <2>5. tk'[t].held = NoValue \/ tk'[t].held.guid = Guid(t)
    <3>1. CASE tk'[t].held \in Z(Queue(t)) /\ tk'[t].held.id = tk[t].id
      BY <1>0, <2>3, <2>4, <3>1, IdsDiffer
    <3> QED BY <2>1, <3>1
  <2>6. ASSUME Guid(t) \in Stored(Queue(t)) PROVE tk'[t].held.guid = Guid(t)
    <3>1. PICK v \in Z(Queue(t)) : v.guid = Guid(t)
      BY <2>6 DEF Stored, Z
    <3>2. v.id = tk[t].id
      BY <1>0, <2>3, <3>1, IdsDiffer
    <3> QED BY <1>0, <2>1, <3>1, <3>2, IdsDiffer
  <2>7. TodoOK(t)'
    BY <1>3, <2>1
  <2>8. TakerOK(t)'
    BY <1>1, <1>2, <2>1, <2>2, <2>3, <2>5, <2>6, <2>7
       DEF TakerOK, RemoveOK, UpdateOK, DrainOK, HoldsId, At, Draining
  <2> QED BY <2>1, <2>2, <2>4, <2>8
<1>7. CASE Card(t)
  <2>1. Moves(t) /\ tk[t].pc = "card"
    BY <1>0, <1>7, CardIs
  <2>2. CASE CallDone(t)
    BY <1>0, <1>1, <1>4, <2>1, <2>2, CallDoneOK, CallDoneIs
  <2>3. CASE ~CallDone(t)
    <3>1. Z(Queue(t)) = {} /\ tk'[t].pc = "del" /\ tk'[t].todo = tk[t].todo
      BY <1>0, <1>7, <2>3, CardIs
    <3>2. TodoOK(t)'
      BY <1>3, <3>1
    <3>3. Z(Queue(t))' = {} /\ Queue(t)' = Queue(t)
      BY <1>2, <3>1 DEF Queue
    <3>4. TakerOK(t)'
      BY <3>1, <3>2, <3>3 DEF TakerOK, RemoveOK, UpdateOK, DrainOK, HoldsId, At, Draining
    <3> QED BY <1>4, <2>1, <3>1, <3>4
  <2> QED BY <2>2, <2>3
<1>8. CASE RemoveFromIndex(t)
  <2>1. Moves(t) /\ tk[t].pc = "unindex" /\ CallDone(t)
    BY <1>0, <1>8, RemoveFromIndexIs
  <2> QED BY <1>0, <1>1, <1>4, <2>1, CallDoneOK, CallDoneIs
<1>9. CASE CheckLock(t) \/ ReadIndex(t) \/ PickQueue(t) \/ SetLock(t) \/ ReleaseLock(t)
  <2>1. PICK pc \in Pcs : Go(t, pc) /\ pc \in {"page", "picked", "lock", "idle"}
    BY <1>0, <1>9, GoesIs
  <2>2. tk[t].pc \in {"idle", "picked", "lock", "unlock"}
    BY <1>0, <1>9, GoesIs DEF At
  <2>3. Moves(t) /\ tk'[t].pc = pc /\ tk'[t].todo = tk[t].todo
    BY <1>0, <2>1, GoIs
  <2>4. TakerOK(t)'
    BY <1>3, <2>1, <2>3, PlainOK
  <2> QED BY <1>4, <2>1, <2>2, <2>3, <2>4
<1>10. CASE ReadMessages(t)
  <2>1. /\ Moves(t) /\ tk[t].pc = "page" /\ tk'[t].pc \in {"unlock", "idle", "remove"}
        /\ \/ tk'[t].todo = tk[t].todo \/ tk'[t].todo = <<>>
           \/ \A i \in DOMAIN tk'[t].todo : tk'[t].todo[i] \in Stored(Queue(t))
    BY <1>0, <1>10, ReadMessagesIs
  <2>2. ASSUME \A i \in DOMAIN tk'[t].todo : tk'[t].todo[i] \in Stored(Queue(t))
        PROVE  TodoOK(t)'
    <3>1. \A g \in Stored(Queue(t)) : wq[g] = Queue(t) /\ wpc[g] \notin {"new", "number"}
      BY <1>0 DEF Stored, Z, Values
    <3> QED BY <1>1, <2>2, <3>1 DEF TodoOK, Queue
  <2>3. TakerOK(t)'
    BY <1>3, <2>1, <2>2, PlainOK
  <2> QED BY <1>4, <2>1, <2>3
<1>11. CASE \E w \in Writers : RemoveAnswered(t, w)
  <2>1. PICK w \in Writers : RemoveAnswered(t, w)
    BY <1>11
  <2>2. /\ Moves(t) /\ tk[t].pc = "idle" /\ w \in sent /\ wq[w] = Queue(t)
        /\ tk'[t].pc = "remove" /\ tk'[t].todo = <<w>>
    BY <1>0, <2>1, RemoveAnsweredIs
  <2>3. \A i \in DOMAIN tk'[t].todo : tk'[t].todo[i] = w
    BY <2>2
  <2>4. TodoOK(t)'
    BY <1>0, <1>1, <2>2, <2>3 DEF TodoOK, SentIs, Queue
  <2>5. TakerOK(t)'
    BY <2>2, <2>4, PlainOK
  <2> QED BY <1>4, <2>2, <2>5
<1>12. CASE ReadChunks(t)
  <2>1. /\ Moves(t) /\ tk[t].pc = "idle" /\ tk'[t].pc \in {"card", "remove"}
        /\ \/ tk'[t].todo = tk[t].todo
           \/ \A i \in DOMAIN tk'[t].todo :
                \E k \in DOMAIN R(Queue(t)) : tk'[t].todo[i] = R(Queue(t))[k]
    BY <1>0, <1>12, ReadChunksIs
  <2>2. ASSUME \A i \in DOMAIN tk'[t].todo :
                 \E k \in DOMAIN R(Queue(t)) : tk'[t].todo[i] = R(Queue(t))[k]
        PROVE  TodoOK(t)'
    BY <1>0, <1>1, <2>2 DEF TodoOK, Queue, Fields
  <2>3. TakerOK(t)'
    BY <1>3, <2>1, <2>2, PlainOK
  <2> QED BY <1>4, <2>1, <2>3
<1>13. CASE \E n \in Amounts : ReadFirst(t, n)
  <2>1. PICK n \in Amounts : ReadFirst(t, n)
    BY <1>13
  <2>2. /\ Moves(t) /\ tk[t].pc = "idle" /\ tk'[t].pc \in {"old", "guid"}
        /\ tk'[t].held \in Z(Queue(t)) /\ tk'[t].id = tk'[t].held.id
        /\ tk'[t].todo = tk[t].todo
    BY <1>0, <2>1, ReadFirstIs
  <2>3. TodoOK(t)' /\ Queue(t)' = Queue(t)
    BY <1>3, <2>2 DEF Queue
  <2>4. TakerOK(t)'
    BY <1>2, <2>2, <2>3 DEF TakerOK, RemoveOK, UpdateOK, DrainOK, HoldsId, At, Draining
  <2> QED BY <1>4, <2>2, <2>4
<1>14. CASE FindOld(t)
  <2>1. Moves(t) /\ tk[t].pc = "old"
    BY <1>0, <1>14, FindOldIs
  <2>2. CASE tk'[t].pc = "idle" /\ tk'[t].todo = <<>>
    <3>1. TakerOK(t)'
      BY <1>3, <2>2, PlainOK
    <3> QED BY <1>4, <2>1, <2>2, <3>1
  <2>3. CASE ~(tk'[t].pc = "idle" /\ tk'[t].todo = <<>>)
    <3>1. PICK v \in Z(Queue(t)) :
            /\ v.id = tk[t].id /\ tk'[t].pc = "zrem"
            /\ tk'[t].todo = <<v.guid>> /\ tk'[t].id = tk[t].id
            /\ tk'[t].held = [tk[t].held EXCEPT !.order = v.order]
      BY <1>0, <1>14, <2>3, FindOldIs
    <3>2. tk[t].held \in Z(Queue(t)) /\ tk[t].id = tk[t].held.id
      BY <1>0, <2>1 DEF TakerOK, UpdateOK
    <3>3. v = tk[t].held
      BY <1>0, <3>1, <3>2, IdsDiffer
    <3>4. v \in Value
      BY <1>0 DEF StoreTypes
    <3>5. tk'[t].held = v
      BY <3>1, <3>3, <3>4 DEF Value
    <3>6. \A i \in DOMAIN tk'[t].todo : tk'[t].todo[i] = v.guid
      BY <3>1
    <3>7. wq[v.guid] = Queue(t) /\ wpc[v.guid] \notin {"new", "number"}
      BY <1>0 DEF Values
    <3>8. TodoOK(t)' /\ Queue(t)' = Queue(t)
      BY <1>1, <3>6, <3>7 DEF TodoOK, Queue
    <3>9. TakerOK(t)'
      BY <1>2, <3>1, <3>5, <3>8 DEF TakerOK, RemoveOK, UpdateOK, DrainOK, HoldsId, At, Draining
    <3> QED BY <1>4, <2>1, <3>1, <3>9
  <2> QED BY <2>2, <2>3
<1>15. CASE FindGuid(t)
  <2>1. /\ Moves(t) /\ tk[t].pc = "guid" /\ tk'[t].pc \in {"idle", "remove"}
        /\ \/ tk'[t].todo = <<>>
           \/ /\ tk[t].id \in DOMAIN R(Queue(t))
              /\ tk'[t].todo = <<R(Queue(t))[tk[t].id]>>
    BY <1>0, <1>15, FindGuidIs
  <2>2. ASSUME tk[t].id \in DOMAIN R(Queue(t)), tk'[t].todo = <<R(Queue(t))[tk[t].id]>>
        PROVE  TodoOK(t)'
    <3>1. \A i \in DOMAIN tk'[t].todo : tk'[t].todo[i] = R(Queue(t))[tk[t].id]
      BY <2>2
    <3>2. /\ wq[R(Queue(t))[tk[t].id]] = Queue(t)
          /\ wpc[R(Queue(t))[tk[t].id]] \notin {"new", "number"}
      BY <1>0, <2>2 DEF Fields
    <3> QED BY <1>1, <3>1, <3>2 DEF TodoOK, Queue
  <2>3. TakerOK(t)'
    BY <1>3, <2>1, <2>2, PlainOK
  <2> QED BY <1>4, <2>1, <2>3
<1> QED BY <1>5, <1>6, <1>7, <1>8, <1>9, <1>10, <1>11, <1>12, <1>13, <1>14, <1>15 DEF Quiet

LEMMA EarlierKept ==
    ASSUME Types, EarlierDone, UNCHANGED <<wpc, earlier>>
    PROVE  EarlierDone'
BY DEF EarlierDone

LEMMA KeepStored ==
    ASSUME KeepZ, NEW q \in Queues
    PROVE  Z(q)' = Z(q) /\ Stored(q)' = Stored(q)
BY DEF KeepZ, Stored, Z

(* The fields of a writer stay. *)
LEMMA InKept ==
    ASSUME Types, KeepM, KeepR, UNCHANGED <<wq, wid, wpc>>, NEW w \in Writers
    PROVE  In(w)' <=> In(w)
<1>1. wq[w] \in Queues
  BY DEF Types, OtherTypes
<1> QED BY <1>1 DEF In, KeepM, KeepR

LEMMA QuietKeys ==
    ASSUME Types, KeysInd, NEW t \in Takers, Quiet(t), Types'
    PROVE  KeysInd' /\ LiveStays
<1>0. /\ Numbers /\ Rising /\ EarlierDone /\ Values /\ Fields /\ AllKept /\ CutNoted /\ SentIs
      /\ \A u \in Takers : TakerOK(u)
  BY DEF KeysInd
<1>1. /\ KeepZ /\ KeepC /\ KeepM /\ KeepR /\ UNCHANGED <<wq, wid, wpc, earlier, out>> /\ cut' = cut
      /\ Later
  BY QuietStore, QuietTypes, LaterIs
<1>2. /\ Moves(t) /\ TakerOK(t)' /\ tk[t].pc \in QuietPcs
      /\ HoldsId(t)' => Live(Guid(t)')
      /\ tk'[t].pc \notin {"zadd", "hdel", "hdelrev"}
  BY QuietOK
<1>3. Calm
  <2>1. ASSUME NEW w \in Writers
        PROVE  /\ w \in Stored(wq[w])' => Live(w)
               /\ w \in DOMAIN M(wq[w])' => Live(w)
    <3>1. wq[w] \in Queues
      BY DEF Types, OtherTypes
    <3>2. Stored(wq[w])' = Stored(wq[w])
      BY <1>1, <3>1 DEF KeepZ, Stored, Z
    <3>3. M(wq[w])' = M(wq[w])
      BY <1>1, <3>1 DEF KeepM
    <3> QED BY <3>2, <3>3 DEF Live
  <2>2. ~At(t, "zadd")'
    BY <1>2 DEF At
  <2> QED BY <1>1, <1>2, <2>1, <2>2, TakerCalm
<1>4. Numbers' /\ Rising'
  BY <1>0, <1>1, <1>3, CalmIs
<1>5. EarlierDone'
  BY <1>0, <1>1, EarlierKept
<1>6. Values'
  BY <1>0, <1>1, ValuesKept DEF KeepZ
<1>7. Fields'
  BY <1>0, <1>1, FieldsKept DEF KeepM, KeepR
<1>8. ASSUME NEW u \in Takers, u # t PROVE TakerOK(u)'
  <2>1. tk'[u] = tk[u]
    BY <1>2, <1>8 DEF Moves
  <2>2. Z(Queue(u))' = Z(Queue(u)) /\ Stored(Queue(u))' = Stored(Queue(u))
    BY <1>1, TakerIs, KeepStored
  <2> QED BY <1>0, <1>1, <2>1, <2>2, OthersOK
<1>9. AllKept'
  <2>1. ASSUME NEW u \in Takers, NEW w
        PROVE  /\ Adding(u, w) => Adding(u, w)'
               /\ Removing(u, w) => Removing(u, w)'
    <3>1. CASE u = t
      BY <1>2, <3>1 DEF Adding, Removing, At, QuietPcs
    <3>2. CASE u # t
      BY <1>2, <3>2 DEF Adding, Removing, At, Moves
    <3> QED BY <3>1, <3>2
  <2>2. ASSUME NEW w \in Writers, Kept(w) PROVE Kept(w)'
    <3>1. wq[w] \in Queues
      BY DEF Types, OtherTypes
    <3>2. Stored(wq[w])' = Stored(wq[w])
      BY <1>1, <3>1 DEF KeepZ, Stored, Z
    <3>3. In(w)' <=> In(w)
      BY <1>1, InKept
    <3>4. Gone(w)' <=> Gone(w)
      BY <1>1 DEF Gone
    <3> QED BY <2>1, <2>2, <3>2, <3>3, <3>4 DEF Kept
  <2> QED BY <1>0, <1>1, <2>2 DEF AllKept
<1>10. CutNoted'
  BY <1>0, <1>1 DEF CutNoted
<1>11. SentIs'
  <2>1. CASE sent' = sent
    BY <1>0, <1>1, <2>1 DEF SentIs
  <2>2. CASE sent' # sent
    <3>1. LookupGuid(t) /\ GuidDone(t) /\ Removes(t) /\ sent' = sent \cup {Guid(t)} /\ t[1] = "each"
      <4>1. LookupGuid(t)
        BY ZenonT(60), <2>2 DEF Quiet, RangeById, Card, RemoveFromIndex, CheckLock, ReadMessages,
          RemoveAnswered, ReadIndex, PickQueue, SetLock, ReleaseLock, ReadChunks, ReadFirst,
          FindOld, FindGuid, msgs
      <4> QED BY ZenonT(60), <2>2, <4>1 DEF LookupGuid, GuidDone, msgs, Removes, At
    <3>2. Guid(t) = tk[t].todo[1] /\ Guid(t) \in Writers /\ 1 \in DOMAIN tk[t].todo
      BY <3>1, TodoHere DEF Types
    <3>3. wq[Guid(t)] = Queue(t) /\ wpc[Guid(t)] \notin {"new", "number"}
      BY <1>0, <3>2 DEF TakerOK, TodoOK
    <3>4. Queue(t) \in MessageQueues
      BY <3>1, TakerIs
    <3> QED BY <1>0, <1>1, <3>1, <3>3, <3>4 DEF SentIs
  <2> QED BY <2>1, <2>2
<1> QED BY <1>2, <1>4, <1>5, <1>6, <1>7, <1>8, <1>9, <1>10, <1>11, <1>3 DEF KeysInd, Calm, LiveStays

-----------------------------------------------------------------------------
(* The steps of insert. *)
LEMMA InsertLater ==
    ASSUME Types, NEW w \in Writers, InsertCommand(w)
    PROVE  Later /\ tk' = tk /\ UNCHANGED <<wq, sent, answered, out>>
<1>1. tk' = tk /\ UNCHANGED <<wq, sent, answered, out>>
  BY NumberIs, AddValueIs, SetGuidIs, SetRevIs, AddToIndexIs, CutInsertIs DEF InsertCommand
<1>2. \/ wpc[w] = "new" /\ wpc' = [wpc EXCEPT ![w] = "number"]
      \/ wid' = wid /\ wpc[w] = "number" /\ wpc' = [wpc EXCEPT ![w] = "value"]
      \/ wid' = wid /\ wpc[w] = "value" /\ wpc' = [wpc EXCEPT ![w] = "guid"]
      \/ wid' = wid /\ wpc[w] = "guid" /\ wpc' = [wpc EXCEPT ![w] = "rev"]
      \/ wid' = wid /\ wpc[w] = "rev" /\ wpc' = [wpc EXCEPT ![w] = "done"]
      \/ wid' = wid /\ wpc[w] # "new" /\ wpc' = [wpc EXCEPT ![w] = "cut"]
  BY NumberIs, AddValueIs, SetGuidIs, SetRevIs, AddToIndexIs, CutInsertIs
     DEF InsertCommand, Active
<1>3. wid' = wid \/ (wpc[w] = "new" /\ wid' = [wid EXCEPT ![w] = C(wq[w]) + 1])
  BY NumberIs, AddValueIs, SetGuidIs, SetRevIs, AddToIndexIs, CutInsertIs DEF InsertCommand
<1>4. \A x \in Writers : wpc[x] # "new" => wid'[x] = wid[x]
  BY <1>3 DEF Types, OtherTypes
<1>5. ASSUME NEW x \in Writers
      PROVE /\ wpc[x] \notin {"new", "number"} => wpc'[x] \notin {"new", "number"}
            /\ wpc[x] \notin {"new", "number", "value"} => wpc'[x] \notin {"new", "number", "value"}
            /\ wpc[x] \notin {"new", "number", "value", "guid"} =>
                 wpc'[x] \notin {"new", "number", "value", "guid"}
  BY <1>2 DEF Types, OtherTypes
<1> QED BY <1>1, <1>4, <1>5 DEF Later

LEMMA InsertCalm ==
    ASSUME Types, UNCHANGED <<wq, tk>>, NEW x \in Writers, Live(x)',
           Active(x)' => Live(x),
           x \in Stored(wq[x])' => Live(x),
           x \in DOMAIN M(wq[x])' => Live(x)
    PROVE  Live(x)
<1>1. \A u \in Takers : /\ (HoldsId(u) /\ Guid(u) = x)' <=> (HoldsId(u) /\ Guid(u) = x)
                        /\ Adding(u, x)' <=> Adding(u, x)
  BY DEF HoldsId, Guid, Adding, At
<1> QED BY <1>1 DEF Live

LEMMA InsertEarlier ==
    ASSUME Types, EarlierDone, NEW w \in Writers, InsertCommand(w)
    PROVE  EarlierDone'
<1>1. \/ /\ wpc[w] = "new" /\ wpc' = [wpc EXCEPT ![w] = "number"]
         /\ earlier' = [earlier EXCEPT ![w] = {v \in Writers : wpc[v] = "done"}]
      \/ /\ \E pc \in {"value", "guid", "rev", "done", "cut"} : wpc' = [wpc EXCEPT ![w] = pc]
         /\ wpc[w] # "done" /\ earlier' = earlier
  BY NumberIs, AddValueIs, SetGuidIs, SetRevIs, AddToIndexIs, CutInsertIs
     DEF InsertCommand, Active
<1>2. \A x \in Writers : earlier[x] \subseteq Writers
  BY DEF Types, OtherTypes
<1>3. \A x \in Writers : wpc[x] = "done" => wpc'[x] = "done"
  BY <1>1 DEF Types, OtherTypes
<1>4. ASSUME NEW x \in Writers, NEW u \in earlier'[x] PROVE wpc[u] = "done" /\ u \in Writers
  <2>1. u \in earlier[x] \/ earlier'[x] = {v \in Writers : wpc[v] = "done"}
    BY <1>1, <1>4 DEF Types, OtherTypes
  <2>2. CASE u \in earlier[x]
    BY <1>2, <2>2 DEF EarlierDone
  <2>3. CASE earlier'[x] = {v \in Writers : wpc[v] = "done"}
    BY <1>4, <2>3
  <2> QED BY <2>1, <2>2, <2>3
<1> QED BY <1>3, <1>4 DEF EarlierDone

LEMMA InsertOthersOK ==
    ASSUME Types, KeysInd, NEW w \in Writers, InsertCommand(w), ~AddValue(w), NEW u \in Takers
    PROVE  TakerOK(u)'
<1>1. KeepZ
  BY NumberIs, SetGuidIs, SetRevIs, AddToIndexIs, CutInsertIs DEF InsertCommand
<1>2. Z(Queue(u))' = Z(Queue(u)) /\ Stored(Queue(u))' = Stored(Queue(u))
  BY <1>1, TakerIs, KeepStored
<1>3. Later /\ tk' = tk /\ wq' = wq
  BY InsertLater
<1> QED BY <1>2, <1>3, OthersOK DEF KeysInd

LEMMA InsertKept ==
    ASSUME Types, UNCHANGED <<wq, tk, out>>, NEW x \in Writers, Kept(x),
           x \in Stored(wq[x]) => x \in Stored(wq[x])',
           Live(x) /\ In(x) => In(x)'
    PROVE  Kept(x)'
<1>1. \A u \in Takers : /\ Removing(u, x)' <=> Removing(u, x)
                        /\ Adding(u, x)' <=> Adding(u, x)
  BY DEF Removing, Adding, At
<1>2. Gone(x)' <=> Gone(x)
  BY DEF Gone
<1> QED BY <1>1, <1>2 DEF Kept, Live

LEMMA NumberKeys ==
    ASSUME Types, KeysInd, NEW w \in Writers, Number(w), Types'
    PROVE  KeysInd' /\ LiveStays
<1>0. /\ Numbers /\ Rising /\ EarlierDone /\ Values /\ Fields /\ AllKept /\ CutNoted /\ SentIs
      /\ \A u \in Takers : TakerOK(u)
  BY DEF KeysInd
<1>1. /\ KeepZ /\ KeepM /\ KeepR
      /\ C(wq[w])' = C(wq[w]) + 1 /\ \A p \in Others(wq[w]) : C(p)' = C(p)
      /\ wid' = [wid EXCEPT ![w] = C(wq[w]) + 1]
      /\ wpc[w] = "new" /\ wpc' = [wpc EXCEPT ![w] = "number"]
      /\ earlier' = [earlier EXCEPT ![w] = {v \in Writers : wpc[v] = "done"}]
      /\ UNCHANGED <<wq, tk, sent, out, cut>>
  BY NumberIs
<1>2. InsertCommand(w) /\ Later /\ ~AddValue(w)
  BY <1>1, InsertLater DEF InsertCommand, AddValue, Step
<1>3. \A x \in Writers : wq[x] \in Queues /\ C(wq[x]) \in Nat /\ wid[x] \in Nat
  BY DEF Types, OtherTypes, StoreTypes
<1>4. ASSUME NEW x \in Writers, x # w, Live(x)' PROVE Live(x) /\ wid'[x] = wid[x]
  <2>1. Stored(wq[x])' = Stored(wq[x]) /\ M(wq[x])' = M(wq[x])
    BY <1>1, <1>3 DEF KeepZ, KeepM, Stored, Z
  <2>2. Active(x)' => Active(x)
    BY <1>1, <1>4 DEF Active, Types, OtherTypes
  <2>3. Live(x)
    BY <1>1, <1>4, <2>1, <2>2, InsertCalm DEF Live
  <2> QED BY <1>1, <1>4, <2>3 DEF Types, OtherTypes
<1>5. wid'[w] = C(wq[w]) + 1
  BY <1>1 DEF Types, OtherTypes
<1>6. \A x \in Writers : wq[x] = wq[w] => C(wq[x])' = C(wq[w]) + 1
  BY <1>1
<1>7. \A x \in Writers : wq[x] # wq[w] => C(wq[x])' = C(wq[x])
  BY <1>1, <1>3 DEF Others
<1>8. ASSUME NEW x \in Writers, x # w, Live(x)'
      PROVE  1 <= wid'[x] /\ wid'[x] <= C(wq[x]) /\ (wq[x] = wq[w] => wid'[x] < wid'[w])
  BY <1>0, <1>3, <1>4, <1>5, <1>8 DEF Numbers
<1>9. Numbers'
  <2>1. ASSUME NEW x \in Writers, Live(x)' PROVE 1 <= wid'[x] /\ wid'[x] <= C(wq[x])'
    <3>1. CASE x = w
      BY <1>3, <1>5, <1>6, <3>1
    <3>2. CASE x # w
      BY <1>3, <1>4, <1>6, <1>7, <1>8, <2>1, <3>2
    <3> QED BY <3>1, <3>2
  <2>2. ASSUME NEW x \in Writers, NEW y \in Writers, Live(x)', Live(y)', wq[x] = wq[y], x # y
        PROVE  wid'[x] # wid'[y]
    <3>1. CASE x = w
      BY <1>3, <1>4, <1>5, <1>8, <2>2, <3>1
    <3>2. CASE y = w
      BY <1>3, <1>4, <1>5, <1>8, <2>2, <3>2
    <3>3. CASE x # w /\ y # w
      BY <1>0, <1>4, <2>2, <3>3 DEF Numbers
    <3> QED BY <3>1, <3>2, <3>3
  <2> QED BY <1>1, <2>1, <2>2 DEF Numbers
<1>10. Rising'
  <2>1. ASSUME NEW x \in Writers, NEW y \in Writers, x \in earlier'[y], Live(x)', Live(y)',
               wq[x] = wq[y]
        PROVE  wid'[x] < wid'[y]
    <3>1. wpc[x] = "done" /\ x # w
      BY <1>0, <1>1, <2>1 DEF EarlierDone, Types, OtherTypes
    <3>2. CASE y = w
      BY <1>8, <2>1, <3>1, <3>2
    <3>3. CASE y # w
      <4>1. x \in earlier[y]
        BY <1>1, <2>1, <3>3 DEF Types, OtherTypes
      <4> QED BY <1>0, <1>4, <2>1, <3>1, <3>3, <4>1 DEF Rising
    <3> QED BY <3>2, <3>3
  <2> QED BY <1>1, <2>1 DEF Rising
<1>11. EarlierDone'
  BY <1>0, <1>2, InsertEarlier
<1>12. Values'
  BY <1>0, <1>1, <1>2, ValuesKept DEF KeepZ
<1>13. Fields'
  BY <1>0, <1>1, <1>2, FieldsKept DEF KeepM, KeepR
<1>14. \A u \in Takers : TakerOK(u)'
  BY <1>2, InsertOthersOK
<1>15. AllKept'
  <2>1. ASSUME NEW x \in Writers \ cut, wpc'[x] \in {"value", "guid", "rev", "done"}
        PROVE  Kept(x)'
    <3>1. x # w /\ wpc'[x] = wpc[x] /\ wid'[x] = wid[x]
      BY <1>1, <2>1 DEF Types, OtherTypes
    <3>2. Kept(x)
      BY <1>0, <2>1, <3>1 DEF AllKept
    <3>3. In(x)' <=> In(x)
      BY <1>1, <1>3, <3>1 DEF In, KeepM, KeepR
    <3>4. Stored(wq[x])' = Stored(wq[x])
      BY <1>1, <1>3 DEF KeepZ, Stored, Z
    <3> QED BY <1>1, <3>2, <3>3, <3>4, InsertKept
  <2> QED BY <1>1, <2>1 DEF AllKept
<1>16. CutNoted'
  BY <1>0, <1>1 DEF CutNoted, Types, OtherTypes
<1>17. SentIs'
  BY <1>0, <1>1, <1>2 DEF SentIs, Later, Types, OtherTypes
<1> QED BY <1>9, <1>10, <1>11, <1>12, <1>13, <1>14, <1>15, <1>16,
       <1>17, <1>4, <1>1 DEF KeysInd, LiveStays

(* What the later commands of insert share. *)
LEMMA InsertKeys ==
    ASSUME Types, KeysInd, NEW w \in Writers, InsertCommand(w), ~Number(w), Types',
           Values', Fields', \A u \in Takers : TakerOK(u)', AllKept',
           \A x \in Writers : x \in Stored(wq[x])' \/ x \in DOMAIN M(wq[x])' => Live(x)
    PROVE  KeysInd' /\ LiveStays
<1>0. Numbers /\ Rising /\ EarlierDone /\ CutNoted /\ SentIs
  BY DEF KeysInd
<1>1. /\ KeepC /\ UNCHANGED <<wq, wid, earlier, tk, sent>> /\ Active(w) /\ wpc[w] # "cut"
      /\ \/ cut' = cut /\ \E pc \in {"value", "guid", "rev", "done"} : wpc' = [wpc EXCEPT ![w] = pc]
         \/ cut = {} /\ cut' = {w} /\ wpc' = [wpc EXCEPT ![w] = "cut"]
  BY AddValueIs, SetGuidIs, SetRevIs, AddToIndexIs, CutInsertIs DEF InsertCommand, Active
<1>2. Later
  BY InsertLater
<1>3. ASSUME NEW x \in Writers, Active(x)' PROVE Active(x)
  BY <1>1, <1>3 DEF Active, Types, OtherTypes
<1>4. Calm
  <2>1. ASSUME NEW x \in Writers, Live(x)' PROVE Live(x)
    <3>1. Active(x)' => Live(x)
      BY <1>3 DEF Live
    <3> QED BY <1>1, <2>1, <3>1, InsertCalm
  <2> QED BY <2>1 DEF Calm
<1>5. Numbers' /\ Rising'
  BY <1>0, <1>1, <1>4, CalmIs
<1>6. EarlierDone'
  BY <1>0, InsertEarlier
<1>7. CutNoted'
  <2>1. ASSUME NEW x \in Writers, wpc'[x] = "cut" PROVE x \in cut'
    BY <1>0, <1>1, <2>1 DEF CutNoted, Types, OtherTypes
  <2> QED BY <2>1 DEF CutNoted
<1>8. SentIs'
  BY <1>0, <1>1, <1>2 DEF SentIs, Later, Types, OtherTypes
<1> QED BY <1>5, <1>6, <1>7, <1>8, <1>4 DEF KeysInd, Calm, LiveStays

LEMMA AddValueKeys ==
    ASSUME Types, KeysInd, ~Drain, NEW w \in Writers, AddValue(w), Types'
    PROVE  KeysInd' /\ LiveStays
<1>0. /\ Numbers /\ Values /\ Fields /\ AllKept /\ \A u \in Takers : TakerOK(u)
  BY DEF KeysInd
<1>1. PICK v : v = [id |-> wid[w], guid |-> w, off |-> 0, order |-> 0]
  OBVIOUS
<1>2. /\ KeepM /\ KeepR /\ Z(wq[w])' = Z(wq[w]) \cup {v}
      /\ \A p \in Others(wq[w]) : Z(p)' = Z(p)
      /\ wpc[w] = "number" /\ wpc' = [wpc EXCEPT ![w] = "value"]
      /\ UNCHANGED <<wq, wid, earlier, tk, out, cut>>
  BY <1>1, AddValueIs
<1>3. v.id = wid[w] /\ v.guid = w /\ v.order = 0
  BY <1>1
<1>4. \A x \in Writers : wq[x] \in Queues
  BY DEF Types, OtherTypes
<1>5. InsertCommand(w) /\ ~Number(w) /\ Later
  BY <1>2, InsertLater DEF InsertCommand, Number, Step
<1>6. \A x \in Writers : x # w => wpc'[x] = wpc[x]
  BY <1>2 DEF Types, OtherTypes
<1>7. wpc'[w] = "value"
  BY <1>2 DEF Types, OtherTypes
<1>8. Active(w) /\ Live(w)
  BY <1>2 DEF Active, Live
<1>9. \A q \in Queues : Z(q)' = Z(q) \/ (q = wq[w] /\ Z(q)' = Z(q) \cup {v})
  BY <1>2 DEF Others
<1>10. Values'
  <2>1. ASSUME NEW q \in Queues, NEW y \in Z(q)'
        PROVE  /\ wq'[y.guid] = q /\ y.id = wid'[y.guid] /\ y.order <= 0
               /\ wpc'[y.guid] \notin {"new", "number"}
    <3>1. CASE y \in Z(q)
      <4>1. y.guid \in Writers
        BY <3>1, <1>0, IdsDiffer
      <4> QED BY <1>0, <1>2, <1>5, <3>1, <4>1 DEF Values, Later
    <3>2. CASE y \notin Z(q)
      <4>1. y = v /\ q = wq[w]
        BY <1>9, <2>1, <3>2
      <4> QED BY <1>2, <1>3, <1>7, <4>1
    <3> QED BY <3>1, <3>2
  <2>2. ASSUME NEW q \in Queues, NEW y \in Z(q)', NEW z \in Z(q)', y.guid = z.guid PROVE y = z
    <3>1. \A x \in Z(q) : x.guid # w
      BY <1>0, <1>2 DEF Values
    <3>2. CASE Z(q)' = Z(q)
      BY <1>0, <2>2, <3>2 DEF Values
    <3>3. CASE Z(q)' = Z(q) \cup {v}
      BY <1>0, <1>3, <2>2, <3>1, <3>3 DEF Values
    <3> QED BY <1>9, <3>2, <3>3
  <2> QED BY <2>1, <2>2 DEF Values
<1>11. Fields'
  BY <1>0, <1>2, <1>5, FieldsKept DEF KeepM, KeepR
<1>12. ASSUME NEW u \in Takers PROVE TakerOK(u)'
  <2>1. Queue(u) \in Queues
    BY TakerIs
  <2>2. \A g \in Stored(Queue(u))' : wpc[g] \notin {"new", "number"} => g \in Stored(Queue(u))
    BY <1>2, <1>3, <1>9, <2>1 DEF Stored, Z, Queue
  <2>3. Z(Queue(u)) \subseteq Z(Queue(u))'
    BY <1>9, <2>1 DEF Queue
  <2>4. Draining(u) => Z(Queue(u))' \subseteq Z(Queue(u))
    BY <1>8, <1>9, <2>1 DEF Drain, Queue
  <2> QED BY <1>0, <1>2, <1>5, <2>2, <2>3, <2>4, OthersOK
<1>13. ASSUME NEW x \in Writers
       PROVE  x \in Stored(wq[x])' <=> x \in Stored(wq[x]) \/ x = w
  BY <1>2, <1>3, <1>4, <1>9 DEF Stored, Z
<1>14. AllKept'
  <2>1. ASSUME NEW x \in Writers \ cut, wpc'[x] \in {"value", "guid", "rev", "done"}
        PROVE  Kept(x)'
    <3>1. CASE x = w
      BY <1>7, <1>13, <3>1 DEF Kept, In
    <3>2. CASE x # w
      <4>1. Kept(x)
        BY <1>0, <1>6, <2>1, <3>2 DEF AllKept
      <4>2. In(x)' <=> In(x)
        BY <1>2, <1>4, <1>6, <3>2 DEF In, KeepM, KeepR
      <4> QED BY <1>2, <1>13, <4>1, <4>2, InsertKept
    <3> QED BY <3>1, <3>2
  <2> QED BY <1>2, <2>1 DEF AllKept
<1>15. ASSUME NEW x \in Writers, x \in Stored(wq[x])' \/ x \in DOMAIN M(wq[x])' PROVE Live(x)
  <2>1. M(wq[x])' = M(wq[x])
    BY <1>2, <1>4 DEF KeepM
  <2> QED BY <1>8, <1>13, <1>15, <2>1 DEF Live
<1> QED BY <1>5, <1>10, <1>11, <1>12, <1>14, <1>15, InsertKeys

(* The steps after ZADD leave the values. *)
LEMMA FieldKeys ==
    ASSUME Types, KeysInd, NEW w \in Writers, InsertCommand(w), ~Number(w), ~AddValue(w), Types',
           Fields', 
           w \notin cut' /\ (w \in Stored(wq[w]) \/ \E u \in Takers : Adding(u, w)) /\ In(w) => In(w)',
           \A x \in Writers \ {w} : Live(x) /\ In(x) => In(x)',
           \A x \in Writers : x \in DOMAIN M(wq[x])' => Live(x)
    PROVE  KeysInd' /\ LiveStays
<1>0. Values /\ AllKept /\ CutNoted
  BY DEF KeysInd
<1>1. /\ KeepZ /\ UNCHANGED <<wq, wid, tk, out>>
      /\ wpc[w] \in {"number", "value", "guid", "rev"}
      /\ \/ /\ wpc[w] # "number" /\ cut' = cut
            /\ \E pc \in {"guid", "rev", "done"} : wpc' = [wpc EXCEPT ![w] = pc]
         \/ cut = {} /\ cut' = {w} /\ wpc' = [wpc EXCEPT ![w] = "cut"]
  BY SetGuidIs, SetRevIs, AddToIndexIs, CutInsertIs DEF InsertCommand, Active
<1>2. Later
  BY InsertLater
<1>3. \A x \in Writers : Stored(wq[x])' = Stored(wq[x])
  BY <1>1 DEF KeepZ, Stored, Z, Types, OtherTypes
<1>4. Values'
  BY <1>0, <1>1, <1>2, ValuesKept DEF KeepZ
<1>5. \A u \in Takers : TakerOK(u)'
  BY InsertOthersOK
<1>6. AllKept'
  <2>1. ASSUME NEW x \in Writers \ cut', wpc'[x] \in {"value", "guid", "rev", "done"}
        PROVE  Kept(x)'
    <3>1. x \notin cut /\ wpc[x] \in {"value", "guid", "rev", "done"}
      BY <1>1, <2>1 DEF Types, OtherTypes
    <3>2. Kept(x)
      BY <1>0, <3>1 DEF AllKept
    <3>3. CASE x = w
      <4>1. \A u \in Takers : /\ Removing(u, x)' <=> Removing(u, x)
                              /\ Adding(u, x)' <=> Adding(u, x)
        BY <1>1 DEF Removing, Adding, At
      <4>2. Gone(x)' <=> Gone(x)
        BY <1>1 DEF Gone
      <4> QED BY <1>3, <2>1, <3>2, <3>3, <4>1, <4>2 DEF Kept
    <3>4. CASE x # w
      BY <1>1, <1>3, <3>2, <3>4, InsertKept
    <3> QED BY <3>3, <3>4
  <2> QED BY <2>1 DEF AllKept
<1> QED BY <1>3, <1>4, <1>5, <1>6, InsertKeys DEF Live

LEMMA SetGuidKeys ==
    ASSUME Types, KeysInd, NEW w \in Writers, SetGuid(w), Types'
    PROVE  KeysInd' /\ LiveStays
<1>0. Fields
  BY DEF KeysInd
<1>1. /\ KeepR /\ M(wq[w])' = Set(M(wq[w]), w, wid[w])
      /\ \A p \in Others(wq[w]) : M(p)' = M(p)
      /\ wpc[w] = "value" /\ wpc' = [wpc EXCEPT ![w] = "guid"]
      /\ UNCHANGED <<wq, wid>>
  BY SetGuidIs
<1>2. InsertCommand(w) /\ ~Number(w) /\ ~AddValue(w) /\ Later
  BY <1>1, InsertLater DEF InsertCommand, Number, AddValue, Step
<1>3. \A x \in Writers : wq[x] \in Queues
  BY DEF Types, OtherTypes
<1>4. wpc'[w] = "guid" /\ \A x \in Writers \ {w} : wpc'[x] = wpc[x]
  BY <1>1 DEF Types, OtherTypes
<1>5. /\ DOMAIN M(wq[w])' = DOMAIN M(wq[w]) \cup {w} /\ M(wq[w])'[w] = wid[w]
      /\ \A x \in DOMAIN M(wq[w]) \ {w} : M(wq[w])'[x] = M(wq[w])[x]
  <2>1. PICK f : f = M(wq[w])
    OBVIOUS
  <2>2. PICK g : g = Set(f, w, wid[w])
    OBVIOUS
  <2>3. /\ DOMAIN g = DOMAIN f \cup {w} /\ g[w] = wid[w]
        /\ \A y \in DOMAIN f : y # w => g[y] = f[y]
    BY <2>2 DEF Set
  <2>4. M(wq[w])' = g
    BY <1>1, <2>1, <2>2
  <2> QED BY <2>1, <2>3, <2>4
<1>6. ASSUME NEW q \in Queues, NEW x \in DOMAIN M(q)', ~(q = wq[w] /\ x = w)
      PROVE  x \in DOMAIN M(q) /\ M(q)'[x] = M(q)[x]
  BY <1>1, <1>5, <1>6 DEF Others
<1>7. Fields'
  <2>1. ASSUME NEW q \in Queues, NEW x \in DOMAIN M(q)'
        PROVE  wq'[x] = q /\ M(q)'[x] = wid'[x] /\ wpc'[x] \notin {"new", "number", "value"}
    <3>1. CASE q = wq[w] /\ x = w
      BY <1>1, <1>4, <1>5, <3>1
    <3>2. CASE ~(q = wq[w] /\ x = w)
      <4>1. x \in DOMAIN M(q) /\ M(q)'[x] = M(q)[x] /\ x \in Writers
        BY <1>6, <3>2, <2>1 DEF Types, StoreTypes
      <4> QED BY <1>0, <1>1, <1>2, <4>1 DEF Fields, Later
    <3> QED BY <3>1, <3>2
  <2>2. ASSUME NEW q \in Queues, NEW i \in DOMAIN R(q)'
        PROVE  /\ wq'[R(q)'[i]] = q /\ wid'[R(q)'[i]] = i
               /\ wpc'[R(q)'[i]] \notin {"new", "number", "value", "guid"}
    <3>1. R(q)' = R(q)
      BY <1>1 DEF KeepR
    <3>2. R(q)[i] \in Writers
      BY <2>2, <3>1 DEF Types, StoreTypes
    <3> QED BY <1>0, <1>1, <1>2, <2>2, <3>1, <3>2 DEF Fields, Later
  <2> QED BY <2>1, <2>2 DEF Fields
<1>8. In(w)'
  BY <1>1, <1>4, <1>5 DEF In
<1>9. ASSUME NEW x \in Writers \ {w}, In(x) PROVE In(x)'
  <2>1. x \in DOMAIN M(wq[x]) => x \in DOMAIN M(wq[x])'
    BY <1>1, <1>3, <1>5 DEF Others
  <2> QED BY <1>1, <1>3, <1>4, <1>9, <2>1 DEF In, KeepR
<1>10. ASSUME NEW x \in Writers, x \in DOMAIN M(wq[x])' PROVE Live(x)
  <2>1. CASE x = w
    BY <1>1, <2>1 DEF Live, Active
  <2>2. CASE x # w
    <3>1. x \in DOMAIN M(wq[x])
      BY <1>1, <1>3, <1>6, <1>10, <2>2
    <3> QED BY <3>1 DEF Live
  <2> QED BY <2>1, <2>2
<1> QED BY <1>2, <1>7, <1>8, <1>9, <1>10, FieldKeys

LEMMA SetRevKeys ==
    ASSUME Types, KeysInd, NEW w \in Writers, SetRev(w), Types'
    PROVE  KeysInd' /\ LiveStays
<1>0. Fields /\ Numbers
  BY DEF KeysInd
<1>1. /\ KeepM /\ R(wq[w])' = Set(R(wq[w]), wid[w], w)
      /\ \A p \in Others(wq[w]) : R(p)' = R(p)
      /\ wpc[w] = "guid" /\ wpc' = [wpc EXCEPT ![w] = "rev"]
      /\ UNCHANGED <<wq, wid>>
  BY SetRevIs
<1>2. InsertCommand(w) /\ ~Number(w) /\ ~AddValue(w) /\ Later
  BY <1>1, InsertLater DEF InsertCommand, Number, AddValue, Step
<1>3. \A x \in Writers : wq[x] \in Queues
  BY DEF Types, OtherTypes
<1>4. wpc'[w] = "rev" /\ \A x \in Writers \ {w} : wpc'[x] = wpc[x]
  BY <1>1 DEF Types, OtherTypes
<1>5. /\ DOMAIN R(wq[w])' = DOMAIN R(wq[w]) \cup {wid[w]} /\ R(wq[w])'[wid[w]] = w
      /\ \A i \in DOMAIN R(wq[w]) \ {wid[w]} : R(wq[w])'[i] = R(wq[w])[i]
  <2>1. PICK f : f = R(wq[w])
    OBVIOUS
  <2>2. PICK g : g = Set(f, wid[w], w)
    OBVIOUS
  <2>3. /\ DOMAIN g = DOMAIN f \cup {wid[w]} /\ g[wid[w]] = w
        /\ \A y \in DOMAIN f : y # wid[w] => g[y] = f[y]
    BY <2>2 DEF Set
  <2>4. R(wq[w])' = g
    BY <1>1, <2>1, <2>2
  <2> QED BY <2>1, <2>3, <2>4
<1>6. ASSUME NEW q \in Queues, NEW i \in DOMAIN R(q)', ~(q = wq[w] /\ i = wid[w])
      PROVE  i \in DOMAIN R(q) /\ R(q)'[i] = R(q)[i]
  BY <1>1, <1>5, <1>6 DEF Others
<1>7. Fields'
  <2>1. ASSUME NEW q \in Queues, NEW x \in DOMAIN M(q)'
        PROVE  wq'[x] = q /\ M(q)'[x] = wid'[x] /\ wpc'[x] \notin {"new", "number", "value"}
    <3>1. M(q)' = M(q)
      BY <1>1 DEF KeepM
    <3>2. x \in Writers
      BY <2>1, <3>1 DEF Types, StoreTypes
    <3> QED BY <1>0, <1>1, <1>2, <2>1, <3>1, <3>2 DEF Fields, Later
  <2>2. ASSUME NEW q \in Queues, NEW i \in DOMAIN R(q)'
        PROVE  /\ wq'[R(q)'[i]] = q /\ wid'[R(q)'[i]] = i
               /\ wpc'[R(q)'[i]] \notin {"new", "number", "value", "guid"}
    <3>1. CASE q = wq[w] /\ i = wid[w]
      BY <1>1, <1>4, <1>5, <3>1
    <3>2. CASE ~(q = wq[w] /\ i = wid[w])
      <4>1. i \in DOMAIN R(q) /\ R(q)'[i] = R(q)[i]
        BY <1>6, <2>2, <3>2
      <4>2. R(q)[i] \in Writers
        BY <4>1 DEF Types, StoreTypes
      <4> QED BY <1>0, <1>1, <1>2, <4>1, <4>2 DEF Fields, Later
    <3> QED BY <3>1, <3>2
  <2> QED BY <2>1, <2>2 DEF Fields
<1>8. ASSUME In(w) PROVE In(w)'
  <2>1. w \in DOMAIN M(wq[w])'
    BY <1>1, <1>3, <1>8 DEF In, KeepM
  <2> QED BY <1>1, <1>4, <1>5, <2>1 DEF In
<1>9. ASSUME NEW x \in Writers \ {w}, Live(x), In(x) PROVE In(x)'
  <2>1. wq[x] = wq[w] => wid[x] # wid[w]
    BY <1>0, <1>1, <1>9 DEF Numbers, Live, Active
  <2>2. wid[x] \in DOMAIN R(wq[x]) /\ R(wq[x])[wid[x]] = x =>
          wid[x] \in DOMAIN R(wq[x])' /\ R(wq[x])'[wid[x]] = x
    BY <1>1, <1>3, <1>5, <2>1 DEF Others
  <2>3. M(wq[x])' = M(wq[x])
    BY <1>1, <1>3 DEF KeepM
  <2> QED BY <1>1, <1>4, <1>9, <2>2, <2>3 DEF In
<1>10. ASSUME NEW x \in Writers, x \in DOMAIN M(wq[x])' PROVE Live(x)
  BY <1>1, <1>3, <1>10 DEF Live, KeepM
<1> QED BY <1>2, <1>7, <1>8, <1>9, <1>10, FieldKeys

LEMMA LastInsertKeys ==
    ASSUME Types, KeysInd, NEW w \in Writers, AddToIndex(w) \/ CutInsert(w), Types'
    PROVE  KeysInd' /\ LiveStays
<1>0. Fields /\ Numbers
  BY DEF KeysInd
<1>1. /\ KeepM /\ KeepR /\ UNCHANGED <<wq, wid>>
      /\ \/ wpc[w] = "rev" /\ wpc' = [wpc EXCEPT ![w] = "done"]
         \/ Active(w) /\ cut' = {w} /\ wpc' = [wpc EXCEPT ![w] = "cut"]
  BY AddToIndexIs, CutInsertIs
<1>2. InsertCommand(w) /\ Later
  BY InsertLater DEF InsertCommand
<1>3. ~Number(w) /\ ~AddValue(w)
  <2>1. CASE AddToIndex(w)
    BY <2>1, AddToIndexIs DEF Number, AddValue, Step
  <2>2. CASE CutInsert(w)
    BY <1>1, <2>2, CutInsertIs, NumberIs, AddValueIs DEF Types, OtherTypes
  <2> QED BY <2>1, <2>2
<1>4. \A x \in Writers : wq[x] \in Queues
  BY DEF Types, OtherTypes
<1>5. Fields'
  BY <1>0, <1>1, <1>2, FieldsKept DEF KeepM, KeepR
<1>6. ASSUME w \notin cut', In(w) PROVE In(w)'
  <2>1. wpc[w] = "rev" /\ wpc'[w] = "done"
    BY <1>1, <1>6 DEF Types, OtherTypes
  <2> QED BY <1>1, <1>4, <1>6, <2>1 DEF In, KeepM, KeepR
<1>7. ASSUME NEW x \in Writers \ {w}, In(x) PROVE In(x)'
  <2>1. wpc'[x] = wpc[x]
    BY <1>1 DEF Types, OtherTypes
  <2> QED BY <1>1, <1>4, <1>7, <2>1 DEF In, KeepM, KeepR
<1>8. ASSUME NEW x \in Writers, x \in DOMAIN M(wq[x])' PROVE Live(x)
  BY <1>1, <1>4, <1>8 DEF Live, KeepM
<1> QED BY <1>2, <1>3, <1>5, <1>6, <1>7, <1>8, FieldKeys

LEMMA InsertCommandKeys ==
    ASSUME Types, KeysInd, ~Drain, NEW w \in Writers, InsertCommand(w), Types'
    PROVE  KeysInd' /\ LiveStays
BY NumberKeys, AddValueKeys, SetGuidKeys, SetRevKeys, LastInsertKeys DEF InsertCommand

(* What the steps of takers share. *)
LEMMA TakerKeys ==
    ASSUME Types, KeysInd, UNCHANGED <<wq, wid, wpc, earlier>>, cut \subseteq cut',
           \A w \in Writers : Live(w)' => Live(w) /\ C(wq[w])' = C(wq[w]),
           Values', Fields', \A u \in Takers : TakerOK(u)', AllKept', SentIs'
    PROVE  KeysInd' /\ LiveStays
<1>0. Numbers /\ Rising /\ EarlierDone /\ CutNoted
  BY DEF KeysInd
<1>1. ASSUME NEW w \in Writers, Live(w)' PROVE 1 <= wid'[w] /\ wid'[w] <= C(wq[w])'
  BY <1>0, <1>1 DEF Numbers
<1>2. ASSUME NEW u \in Writers, NEW w \in Writers, Live(u)', Live(w)', wq'[u] = wq'[w], u # w
      PROVE  wid'[u] # wid'[w]
  BY <1>0, <1>2 DEF Numbers
<1>3. ASSUME NEW u \in Writers, NEW w \in Writers, u \in earlier'[w], Live(u)', Live(w)',
             wq'[u] = wq'[w]
      PROVE  wid'[u] < wid'[w]
  BY <1>0, <1>3 DEF Rising
<1>4. Numbers'
  BY <1>1, <1>2 DEF Numbers
<1>5. Rising'
  BY <1>3 DEF Rising
<1>6. EarlierDone'
  BY <1>0, EarlierKept
<1>7. CutNoted'
  BY <1>0 DEF CutNoted
<1> QED BY <1>4, <1>5, <1>6, <1>7 DEF KeysInd, LiveStays

(* The commands after which the taker may hold an id. *)
LEMMA CalmKeys ==
    ASSUME Types, KeysInd, NEW t \in Takers, Moves(t), KeepC,
           UNCHANGED <<wq, wid, wpc, earlier>>, cut \subseteq cut',
           \A w \in Writers : w \in Stored(wq[w])' \/ w \in DOMAIN M(wq[w])' => Live(w),
           HoldsId(t)' => Live(Guid(t)'),
           At(t, "zadd")' => Live(tk'[t].held.guid),
           Values', Fields', \A u \in Takers : TakerOK(u)', AllKept', SentIs'
    PROVE  KeysInd' /\ LiveStays
<1>1. Calm
  BY TakerCalm
<1>2. \A w \in Writers : Live(w)' => Live(w) /\ C(wq[w])' = C(wq[w])
  BY <1>1 DEF Calm, KeepC, Types, OtherTypes
<1> QED BY <1>2, TakerKeys

(* What a taker holds is on its queue. *)
LEMMA HeldHere ==
    ASSUME Types, KeysInd, NEW t \in Takers
    PROVE  /\ Queue(t) \in Queues
           /\ HoldsId(t) => /\ Guid(t) \in Writers /\ wq[Guid(t)] = Queue(t)
                            /\ tk[t].id = wid[Guid(t)] /\ Live(Guid(t))
                            /\ wpc[Guid(t)] \notin {"new", "number", "value"}
           /\ \A w \in Writers : Removing(t, w) => HoldsId(t) /\ Guid(t) = w /\ wq[w] = Queue(t)
           /\ \A w \in Writers : Adding(t, w) =>
                /\ wq[w] = Queue(t) /\ ~HoldsId(t) /\ t[1] = "stream" /\ w \notin Stored(wq[w])
<1>0. Queue(t) \in Queues /\ TodoOK(t) /\ RemoveOK(t) /\ UpdateOK(t)
  BY TakerIs DEF KeysInd, TakerOK
<1>1. ASSUME HoldsId(t)
      PROVE  /\ Guid(t) \in Writers /\ wq[Guid(t)] = Queue(t)
             /\ tk[t].id = wid[Guid(t)] /\ Live(Guid(t))
             /\ wpc[Guid(t)] \notin {"new", "number", "value"}
  <2>1. Guid(t) = tk[t].todo[1] /\ Guid(t) \in Writers /\ 1 \in DOMAIN tk[t].todo
    BY <1>1, TodoHere DEF Types, HoldsId, Removes
  <2> QED BY <1>0, <1>1, <2>1 DEF TodoOK, RemoveOK, Live
<1>2. ASSUME NEW w \in Writers, Removing(t, w)
      PROVE  HoldsId(t) /\ Guid(t) = w /\ wq[w] = Queue(t)
  <2>1. HoldsId(t) /\ ~At(t, "range") /\ tk[t].held.guid = w
    BY <1>2 DEF Removing, HoldsId, At
  <2>2. tk[t].held # NoValue
    BY <2>1, Bounds DEF NoValue, None
  <2> QED BY <1>0, <1>1, <2>1, <2>2 DEF RemoveOK
<1>3. ASSUME NEW w \in Writers, Adding(t, w)
      PROVE  wq[w] = Queue(t) /\ ~HoldsId(t) /\ t[1] = "stream" /\ w \notin Stored(wq[w])
  <2>1. tk[t].pc = "zadd" /\ tk[t].held.guid = w
    BY <1>3 DEF Adding, At
  <2>2. wq[w] = Queue(t) /\ w \notin Stored(wq[w])
    BY <1>0, <2>1 DEF UpdateOK, At
  <2>3. TakerTyped(t) /\ RolesOf("zadd") = {"stream"}
    BY RecordIs, RolesAre DEF Types
  <2> QED BY <2>1, <2>2, <2>3 DEF HoldsId, TakerTyped
<1> QED BY <1>0, <1>1, <1>2, <1>3

LEMMA OthersCalm ==
    ASSUME Types, KeysInd, NEW t \in Takers, NEW u \in Takers, u # t, Moves(t),
           UNCHANGED <<wq, wid, wpc>>,
           Z(Queue(u))' = Z(Queue(u)) \/
               (Queue(u) = Queue(t) /\ Z(Queue(t))' \subseteq Z(Queue(t)))
    PROVE  TakerOK(u)'
<1>1. Later /\ TakerOK(u) /\ tk'[u] = tk[u]
  BY LaterIs DEF KeysInd, Moves
<1>2. u[1] = "stream" => Queue(u) # Queue(t)
  BY TakerIs
<1>3. \A g \in Stored(Queue(u))' : g \in Stored(Queue(u))
  BY DEF Stored, Z, Queue
<1> QED BY <1>1, <1>2, <1>3, OthersOK DEF Queue

LEMMA RemoveByIdKeys ==
    ASSUME Types, KeysInd, NEW t \in Takers, RemoveById(t), Types'
    PROVE  KeysInd' /\ LiveStays
<1>0. /\ Numbers /\ Values /\ Fields /\ AllKept /\ SentIs /\ TakerTypes
      /\ TodoOK(t) /\ RemoveOK(t)
  BY DEF KeysInd, TakerOK, Types
<1>1. /\ KeepC /\ KeepM /\ KeepR
      /\ Z(Queue(t))' = {v \in Z(Queue(t)) : v.id # tk[t].id}
      /\ \A p \in Others(Queue(t)) : Z(p)' = Z(p)
      /\ tk[t].pc = "zremrange" /\ Go(t, "hdel")
      /\ UNCHANGED <<wq, wid, wpc, earlier, sent, out, cut>>
  BY RemoveByIdIs DEF At
<1>2. /\ Moves(t) /\ tk'[t].pc = "hdel" /\ tk'[t].todo = tk[t].todo
      /\ tk'[t].id = tk[t].id /\ tk'[t].held = tk[t].held
  BY <1>0, <1>1, GoIs DEF Pcs
<1>3. Guid(t)' = Guid(t) /\ Queue(t)' = Queue(t) /\ HoldsId(t) /\ Removes(t)
  BY <1>1, <1>2 DEF Guid, Queue, HoldsId, Removes
<1>4. /\ Queue(t) \in Queues /\ Guid(t) \in Writers /\ wq[Guid(t)] = Queue(t)
      /\ tk[t].id = wid[Guid(t)] /\ Live(Guid(t)) /\ wpc[Guid(t)] # "value"
  BY <1>3, HeldHere
<1>5. /\ \A q \in Queues : Z(q)' \subseteq Z(q)
      /\ \A q \in Queues : \A v \in Z(q) : v \notin Z(q)' => v.guid = Guid(t) /\ q = Queue(t)
      /\ \A v \in Z(Queue(t))' : v.guid # Guid(t)
  <2>1. \A q \in Queues : q = Queue(t) \/ Z(q)' = Z(q)
    BY <1>1 DEF Others
  <2>2. \A v \in Z(Queue(t)) : v.id = tk[t].id <=> v.guid = Guid(t)
    BY <1>0, <1>4, IdsDiffer
  <2> QED BY <1>1, <2>1, <2>2
<1>6. Values'
  BY <1>0, <1>1, <1>5, ValuesKept, LaterIs
<1>7. Fields'
  BY <1>0, <1>1, FieldsKept, LaterIs DEF KeepM, KeepR
<1>8. TakerOK(t)'
  <2>1. TodoOK(t)'
    BY <1>0, <1>1, <1>2 DEF TodoOK, Queue
  <2>2. Guid(t)' \notin Stored(Queue(t))'
    BY <1>3, <1>5 DEF Stored, Z
  <2>3. tk[t].held = NoValue \/ tk[t].held.guid = Guid(t)
    BY <1>0, <1>1, <1>3 DEF RemoveOK, At
  <2> QED BY <1>1, <1>2, <1>3, <1>4, <2>1, <2>2, <2>3
       DEF TakerOK, RemoveOK, UpdateOK, DrainOK, HoldsId, At, Draining
<1>9. ASSUME NEW u \in Takers PROVE TakerOK(u)'
  <2>1. Z(Queue(u))' = Z(Queue(u)) \/ Queue(u) = Queue(t)
    BY <1>1, TakerIs DEF Others, Queue
  <2> QED BY <1>1, <1>2, <1>4, <1>5, <1>8, <2>1, OthersCalm
<1>10. \A x \in Writers : wq[x] \in Queues
  BY DEF Types, OtherTypes
<1>11. AllKept'
  <2>1. ASSUME NEW x \in Writers, Kept(x) PROVE Kept(x)'
    <3>1. In(x)' <=> In(x)
      BY <1>1, InKept
    <3>2. \A u \in Takers : /\ Adding(u, x) => Adding(u, x)'
                            /\ Removing(u, x) => Removing(u, x)'
      BY <1>1, <1>2 DEF Adding, Removing, At, Moves
    <3>3. Gone(x)' <=> Gone(x)
      BY <1>1 DEF Gone
    <3>4. CASE x = Guid(t) /\ x \in Stored(wq[x])
      <4>1. tk[t].held.guid = x
        BY <1>0, <1>1, <1>4, <3>4 DEF RemoveOK, At
      <4>2. Removing(t, x)'
        BY <1>2, <4>1 DEF Removing
      <4> QED BY <4>2 DEF Kept
    <3>5. CASE x # Guid(t) /\ x \in Stored(wq[x])
      <4>1. PICK v \in Z(wq[x]) : v.guid = x
        BY <3>5 DEF Stored, Z
      <4>2. v \in Z(wq[x])'
        BY <1>1, <1>5, <1>10, <3>5, <4>1
      <4>3. x \in Stored(wq[x])'
        BY <1>1, <4>1, <4>2 DEF Stored, Z
      <4> QED BY <2>1, <3>1, <3>2, <3>3, <4>3 DEF Kept
    <3>6. CASE x \notin Stored(wq[x])
      BY <2>1, <3>1, <3>2, <3>3, <3>6 DEF Kept
    <3> QED BY <3>4, <3>5, <3>6
  <2> QED BY <1>0, <1>1, <2>1 DEF AllKept
<1>12. SentIs'
  BY <1>0, <1>1 DEF SentIs
<1>13. ASSUME NEW w \in Writers, w \in Stored(wq[w])' \/ w \in DOMAIN M(wq[w])' PROVE Live(w)
  <2>1. w \in Stored(wq[w])' => w \in Stored(wq[w])
    BY <1>1, <1>5, <1>10 DEF Stored, Z
  <2>2. M(wq[w])' = M(wq[w])
    BY <1>1, <1>10 DEF KeepM
  <2> QED BY <1>13, <2>1, <2>2 DEF Live
<1>14. ~At(t, "zadd")'
  BY <1>2 DEF At
<1> QED BY <1>1, <1>2, <1>3, <1>4, <1>6, <1>7, <1>9, <1>11, <1>12, <1>13, <1>14, CalmKeys

LEMMA DeleteGuidKeys ==
    ASSUME Types, KeysInd, NEW t \in Takers, DeleteGuid(t), Types'
    PROVE  KeysInd' /\ LiveStays
<1>0. /\ Numbers /\ Values /\ Fields /\ AllKept /\ SentIs /\ TakerTypes
      /\ TodoOK(t) /\ RemoveOK(t)
  BY DEF KeysInd, TakerOK, Types
<1>1. /\ KeepZ /\ KeepC /\ KeepR
      /\ M(Queue(t))' = Unset(M(Queue(t)), Guid(t))
      /\ \A p \in Others(Queue(t)) : M(p)' = M(p)
      /\ tk[t].pc = "hdel" /\ Go(t, "hdelrev")
      /\ UNCHANGED <<wq, wid, wpc, earlier, sent, out, cut>>
  BY DeleteGuidIs DEF At
<1>2. /\ Moves(t) /\ tk'[t].pc = "hdelrev" /\ tk'[t].todo = tk[t].todo
      /\ tk'[t].id = tk[t].id /\ tk'[t].held = tk[t].held
  BY <1>0, <1>1, GoIs DEF Pcs
<1>3. Guid(t)' = Guid(t) /\ Queue(t)' = Queue(t) /\ HoldsId(t) /\ Removes(t)
  BY <1>1, <1>2 DEF Guid, Queue, HoldsId, Removes
<1>4. /\ Queue(t) \in Queues /\ Guid(t) \in Writers /\ wq[Guid(t)] = Queue(t)
      /\ tk[t].id = wid[Guid(t)] /\ Live(Guid(t)) /\ wpc[Guid(t)] # "value"
      /\ Guid(t) \notin Stored(Queue(t))
      /\ tk[t].held = NoValue \/ tk[t].held.guid = Guid(t)
  BY <1>0, <1>1, <1>3, HeldHere DEF RemoveOK, At
<1>5. ASSUME NEW q \in Queues
      PROVE  /\ \A w \in DOMAIN M(q)' : w \in DOMAIN M(q) /\ M(q)'[w] = M(q)[w]
             /\ \A w \in DOMAIN M(q) : w # Guid(t) => w \in DOMAIN M(q)'
  <2>1. CASE q # Queue(t)
    BY <1>1, <2>1 DEF Others
  <2>2. CASE q = Queue(t)
    <3>1. PICK f, g : f = M(Queue(t)) /\ g = Unset(f, Guid(t))
      OBVIOUS
    <3>2. DOMAIN g = DOMAIN f \ {Guid(t)} /\ \A y \in DOMAIN g : g[y] = f[y]
      BY <3>1 DEF Unset
    <3> QED BY <1>1, <2>2, <3>1, <3>2
  <2> QED BY <2>1, <2>2
<1>6. Values'
  BY <1>0, <1>1, ValuesKept, LaterIs DEF KeepZ
<1>7. Fields'
  BY <1>0, <1>1, <1>5, FieldsKept, LaterIs DEF KeepR
<1>8. \A q \in Queues : Z(q)' = Z(q) /\ Stored(q)' = Stored(q)
  BY <1>1, KeepStored
<1>9. TakerOK(t)'
  <2>1. TodoOK(t)'
    BY <1>0, <1>1, <1>2 DEF TodoOK, Queue
  <2>2. Guid(t)' \notin Stored(Queue(t))'
    BY <1>3, <1>4, <1>8
  <2> QED BY <1>1, <1>2, <1>3, <1>4, <2>1, <2>2
       DEF TakerOK, RemoveOK, UpdateOK, DrainOK, HoldsId, At, Draining
<1>10. ASSUME NEW u \in Takers PROVE TakerOK(u)'
  BY <1>1, <1>2, <1>8, <1>9, TakerIs, OthersCalm
<1>11. \A x \in Writers : wq[x] \in Queues
  BY DEF Types, OtherTypes
<1>12. AllKept'
  <2>1. ASSUME NEW x \in Writers, Kept(x) PROVE Kept(x)'
    <3>1. In(x) /\ x # Guid(t) => In(x)'
      BY <1>1, <1>5, <1>11 DEF In, KeepR
    <3>2. \A u \in Takers : /\ Adding(u, x) => Adding(u, x)' /\ x # Guid(t)
                            /\ Removing(u, x) => Removing(u, x)'
      <4>1. \A u \in Takers : /\ Adding(u, x) => Adding(u, x)'
                              /\ Removing(u, x) => Removing(u, x)'
        BY <1>1, <1>2 DEF Adding, Removing, At, Moves
      <4>2. ASSUME NEW u \in Takers, Adding(u, x) PROVE x # Guid(t)
        BY <1>3, <1>4, <4>2, HeldHere, TakerIs
      <4> QED BY <4>1, <4>2
    <3>3. Gone(x)' <=> Gone(x)
      BY <1>1 DEF Gone
    <3>4. x \in Stored(wq[x]) => x \in Stored(wq[x])' /\ x # Guid(t)
      BY <1>1, <1>4, <1>8, <1>11
    <3> QED BY <2>1, <3>1, <3>2, <3>3, <3>4 DEF Kept
  <2> QED BY <1>0, <1>1, <2>1 DEF AllKept
<1>13. SentIs'
  BY <1>0, <1>1 DEF SentIs
<1>14. ASSUME NEW w \in Writers, w \in Stored(wq[w])' \/ w \in DOMAIN M(wq[w])' PROVE Live(w)
  <2>1. w \in Stored(wq[w])' => w \in Stored(wq[w])
    BY <1>1, <1>8, <1>11
  <2>2. w \in DOMAIN M(wq[w])' => w \in DOMAIN M(wq[w])
    BY <1>1, <1>5, <1>11
  <2> QED BY <1>14, <2>1, <2>2 DEF Live
<1>15. ~At(t, "zadd")'
  BY <1>2 DEF At
<1> QED BY <1>1, <1>2, <1>3, <1>4, <1>6, <1>7, <1>10, <1>12, <1>13, <1>14, <1>15, CalmKeys

(* What is appended to out stays. *)
LEMMA GoneStays ==
    ASSUME Types, UNCHANGED wq, NEW q \in Queues, NEW p \in Taken,
           out' = out \/ out' = [out EXCEPT ![q] = Append(@, p)]
    PROVE  /\ \A w \in Writers : Gone(w) => Gone(w)'
           /\ \A w \in Writers : Gone(w)' => Gone(w) \/ (wq[w] = q /\ p.guid = w /\ p.order = Final)
           /\ out' # out /\ wq[p.guid] = q /\ p.guid \in Writers /\ p.order = Final => Gone(p.guid)'
<1>1. out \in [Queues -> Seq(Taken)] /\ \A w \in Writers : wq[w] \in Queues
  BY DEF Types, OtherTypes
<1>2. CASE out' = out
  BY <1>2 DEF Gone
<1>3. CASE out' = [out EXCEPT ![q] = Append(@, p)]
  <2>1. PICK s \in Seq(Taken) : s = out[q]
    BY <1>1
  <2>2. /\ DOMAIN Append(s, p) = 1..(Len(s) + 1) /\ Len(s) \in Nat
        /\ \A i \in 1..Len(s) : Append(s, p)[i] = s[i]
        /\ Append(s, p)[Len(s) + 1] = p /\ DOMAIN s = 1..Len(s)
    BY AppendIs
  <2>3. out'[q] = Append(s, p) /\ \A r \in Queues : r # q => out'[r] = out[r]
    BY <1>1, <1>3, <2>1
  <2>4. ASSUME NEW w \in Writers, Gone(w) PROVE Gone(w)'
    <3>1. PICK i \in DOMAIN out[wq[w]] : out[wq[w]][i].guid = w /\ out[wq[w]][i].order = Final
      BY <2>4 DEF Gone
    <3>2. i \in DOMAIN out'[wq[w]] /\ out'[wq[w]][i] = out[wq[w]][i]
      <4>1. CASE wq[w] = q
        BY <2>1, <2>2, <2>3, <3>1, <4>1
      <4>2. CASE wq[w] # q
        BY <1>1, <2>3, <3>1, <4>2
      <4> QED BY <4>1, <4>2
    <3> QED BY <3>1, <3>2 DEF Gone
  <2>5. ASSUME NEW w \in Writers, Gone(w)'
        PROVE  Gone(w) \/ (wq[w] = q /\ p.guid = w /\ p.order = Final)
    <3>1. PICK i \in DOMAIN out'[wq[w]] : out'[wq[w]][i].guid = w /\ out'[wq[w]][i].order = Final
      BY <2>5 DEF Gone
    <3>2. CASE wq[w] = q
      <4>1. CASE i = Len(s) + 1
        BY <2>2, <2>3, <3>1, <3>2, <4>1
      <4>2. CASE i # Len(s) + 1
        <5>1. i \in 1..Len(s)
          BY <2>2, <2>3, <3>1, <3>2, <4>2
        <5>2. i \in DOMAIN out[wq[w]] /\ out'[wq[w]][i] = out[wq[w]][i]
          BY <2>1, <2>2, <2>3, <3>2, <5>1
        <5> QED BY <3>1, <5>2 DEF Gone
      <4> QED BY <4>1, <4>2
    <3>3. CASE wq[w] # q
      BY <1>1, <2>3, <3>1, <3>3 DEF Gone
    <3> QED BY <3>2, <3>3
  <2>6. ASSUME wq[p.guid] = q, p.guid \in Writers, p.order = Final PROVE Gone(p.guid)'
    <3>1. Len(s) + 1 \in DOMAIN out'[q] /\ out'[q][Len(s) + 1] = p
      BY <2>2, <2>3
    <3> QED BY <2>6, <3>1 DEF Gone
  <2> QED BY <2>4, <2>5, <2>6
<1> QED BY <1>2, <1>3

LEMMA DeleteRevKeys ==
    ASSUME Types, KeysInd, NEW t \in Takers, DeleteRev(t), Types'
    PROVE  KeysInd' /\ LiveStays
<1>0. /\ Numbers /\ Values /\ Fields /\ AllKept /\ SentIs /\ TakerTypes
      /\ TodoOK(t) /\ RemoveOK(t) /\ TakerOK(t)
  BY DEF KeysInd, TakerOK, Types
<1>1. /\ KeepZ /\ KeepC /\ KeepM
      /\ R(Queue(t))' = Unset(R(Queue(t)), tk[t].id)
      /\ \A p \in Others(Queue(t)) : R(p)' = R(p)
      /\ tk[t].pc = "hdelrev" /\ GuidDone(t)
      /\ UNCHANGED <<wq, wid, wpc, earlier, cut>>
  BY DeleteRevIs DEF At
<1>2. PICK p \in Taken :
        /\ out' = out \/ out' = [out EXCEPT ![Queue(t)] = Append(@, p)]
        /\ tk[t].held # NoValue =>
             /\ out' = [out EXCEPT ![Queue(t)] = Append(@, p)]
             /\ p = Piece(tk[t].held, Length, Final)
             /\ p.guid = tk[t].held.guid /\ p.order = Final
  <2>1. out' = [out EXCEPT ![Queue(t)] = IF tk[t].held = NoValue THEN @
                  ELSE Append(@, Piece(tk[t].held, Length, Final))]
    BY DeleteRevIs
  <2>2. Queue(t) \in Queues /\ out \in [Queues -> Seq(Taken)]
    BY TakerIs DEF Types, OtherTypes
  <2>3. CASE tk[t].held = NoValue
    <3>1. out' = out
      BY <2>1, <2>2, <2>3
    <3>2. \E p \in Taken : TRUE
      <4>1. PICK g \in Writers : TRUE
        BY HeldHere, <1>1 DEF HoldsId
      <4>2. [guid |-> g, lo |-> 0, hi |-> 0, order |-> 0] \in Taken
        BY DEF Taken
      <4> QED BY <4>2
    <3> QED BY <2>3, <3>1, <3>2
  <2>4. CASE tk[t].held # NoValue
    <3>1. tk[t].held \in Value
      BY <1>0, <2>4, RecordIs
    <3> QED BY <2>1, <2>4, <3>1, LastPiece
  <2> QED BY <2>3, <2>4
<1>3. /\ HoldsId(t) /\ Removes(t) /\ Moves(t) /\ tk'[t].pc \in {"remove", "card"}
  BY <1>0, <1>1, GuidDoneIs DEF HoldsId, Removes
<1>4. /\ Queue(t) \in Queues /\ Guid(t) \in Writers /\ wq[Guid(t)] = Queue(t)
      /\ tk[t].id = wid[Guid(t)] /\ Live(Guid(t))
      /\ Guid(t) \notin Stored(Queue(t))
      /\ tk[t].held = NoValue \/ tk[t].held.guid = Guid(t)
  BY <1>0, <1>1, <1>3, HeldHere DEF RemoveOK, At
<1>5. ASSUME NEW q \in Queues
      PROVE  /\ \A i \in DOMAIN R(q)' : i \in DOMAIN R(q) /\ R(q)'[i] = R(q)[i]
             /\ \A i \in DOMAIN R(q) : i # tk[t].id \/ q # Queue(t) =>
                    i \in DOMAIN R(q)' /\ R(q)'[i] = R(q)[i]
  <2>1. CASE q # Queue(t)
    BY <1>1, <2>1 DEF Others
  <2>2. CASE q = Queue(t)
    <3>1. PICK f, g : f = R(Queue(t)) /\ g = Unset(f, tk[t].id)
      OBVIOUS
    <3>2. DOMAIN g = DOMAIN f \ {tk[t].id} /\ \A y \in DOMAIN g : g[y] = f[y]
      BY <3>1 DEF Unset
    <3> QED BY <1>1, <2>2, <3>1, <3>2
  <2> QED BY <2>1, <2>2
<1>6. Values'
  BY <1>0, <1>1, ValuesKept, LaterIs DEF KeepZ
<1>7. Fields'
  BY <1>0, <1>1, <1>5, FieldsKept, LaterIs DEF KeepM
<1>8. \A q \in Queues : Z(q)' = Z(q) /\ Stored(q)' = Stored(q)
  BY <1>1, KeepStored
<1>9. TakerOK(t)'
  BY <1>0, <1>1, <1>3, GuidDoneOK, LaterIs
<1>10. ASSUME NEW u \in Takers PROVE TakerOK(u)'
  BY <1>1, <1>3, <1>8, <1>9, TakerIs, OthersCalm
<1>11. \A x \in Writers : wq[x] \in Queues
  BY DEF Types, OtherTypes
<1>12. AllKept'
  <2>1. ASSUME NEW x \in Writers, Kept(x) PROVE Kept(x)'
    <3>1. In(x) /\ Live(x) /\ x # Guid(t) => In(x)'
      <4>1. ASSUME Live(x), x # Guid(t), wq[x] = Queue(t) PROVE wid[x] # tk[t].id
        BY <1>0, <1>4, <4>1 DEF Numbers
      <4>2. M(wq[x])' = M(wq[x])
        BY <1>1, <1>11 DEF KeepM
      <4> QED BY <1>1, <1>5, <1>11, <4>1, <4>2 DEF In
    <3>2. \A u \in Takers : Adding(u, x) => Adding(u, x)' /\ x # Guid(t)
      <4>1. ASSUME NEW u \in Takers, Adding(u, x) PROVE x # Guid(t)
        BY <1>3, <1>4, <4>1, HeldHere, TakerIs
      <4> QED BY <1>1, <1>3, <4>1 DEF Adding, At, Moves
    <3>3. \A u \in Takers : Removing(u, x) => Removing(u, x)' \/ u = t
      BY <1>3 DEF Removing, Moves
    <3>4. Removing(t, x) => Gone(x)'
      <4>1. ASSUME Removing(t, x) PROVE Gone(x)'
        <5>1. tk[t].held.guid = x /\ wq[x] = Queue(t)
          BY <4>1, HeldHere DEF Removing
        <5>2. tk[t].held # NoValue
          BY <5>1, Bounds DEF NoValue, None
        <5>3. out' # out
          <6>1. PICK s \in Seq(Taken) : s = out[Queue(t)]
            BY <1>4 DEF Types, OtherTypes
          <6>2. out'[Queue(t)] = Append(s, p) /\ Append(s, p) # s
            BY <1>2, <1>4, <5>2, <6>1 DEF Types, OtherTypes
          <6> QED BY <6>1, <6>2
        <5> QED BY <1>1, <1>2, <1>4, <5>1, <5>2, <5>3, GoneStays
      <4> QED BY <4>1
    <3>5. Gone(x) => Gone(x)'
      BY <1>1, <1>2, <1>4, GoneStays
    <3>6. x \in Stored(wq[x]) => x \in Stored(wq[x])' /\ x # Guid(t)
      BY <1>1, <1>4, <1>8, <1>11
    <3> QED BY <2>1, <3>1, <3>2, <3>3, <3>4, <3>5, <3>6 DEF Kept, Live
  <2> QED BY <1>0, <1>1, <2>1 DEF AllKept
<1>13. SentIs'
  <2>1. sent' = sent \/ (t[1] = "each" /\ sent' = sent \cup {Guid(t)})
    BY <1>1 DEF GuidDone
  <2>2. t[1] = "each" => Queue(t) \in MessageQueues
    BY TakerIs
  <2>3. wpc[Guid(t)] \notin {"new", "number"}
    BY <1>3, HeldHere
  <2> QED BY <1>0, <1>1, <1>4, <2>1, <2>2, <2>3 DEF SentIs
<1>14. ASSUME NEW w \in Writers, w \in Stored(wq[w])' \/ w \in DOMAIN M(wq[w])' PROVE Live(w)
  <2>1. w \in Stored(wq[w])' => w \in Stored(wq[w])
    BY <1>1, <1>8, <1>11
  <2>2. w \in DOMAIN M(wq[w])' => w \in DOMAIN M(wq[w])
    BY <1>1, <1>11 DEF KeepM
  <2> QED BY <1>14, <2>1, <2>2 DEF Live
<1>15. ~At(t, "zadd")' /\ ~HoldsId(t)'
  BY <1>3 DEF At, HoldsId
<1> QED BY <1>1, <1>3, <1>6, <1>7, <1>10, <1>12, <1>13, <1>14, <1>15, CalmKeys

LEMMA DeleteQueueKeys ==
    ASSUME Types, KeysInd, NEW t \in Takers, DeleteQueue(t), Types'
    PROVE  KeysInd' /\ LiveStays
<1>0. /\ Values /\ Fields /\ AllKept /\ SentIs /\ TakerTypes /\ TodoOK(t) /\ DrainOK(t)
  BY DEF KeysInd, TakerOK, Types
<1>1. /\ KeepC /\ KeepM /\ KeepR
      /\ Z(Queue(t))' = {} /\ \A p \in Others(Queue(t)) : Z(p)' = Z(p)
      /\ tk[t].pc = "del" /\ Go(t, "delmeta")
      /\ UNCHANGED <<wq, wid, wpc, earlier, sent, out, cut>>
  BY DeleteQueueIs DEF At
<1>2. Moves(t) /\ tk'[t].pc = "delmeta" /\ tk'[t].todo = tk[t].todo
  BY <1>0, <1>1, GoIs DEF Pcs
<1>3. KeepZ
  <2>1. Z(Queue(t)) = {}
    BY <1>0, <1>1 DEF DrainOK, Draining
  <2> QED BY <1>1, <2>1 DEF KeepZ, Others
<1>4. Values'
  BY <1>0, <1>1, <1>3, ValuesKept, LaterIs DEF KeepZ
<1>5. Fields'
  BY <1>0, <1>1, FieldsKept, LaterIs DEF KeepM, KeepR
<1>6. \A q \in Queues : Z(q)' = Z(q) /\ Stored(q)' = Stored(q)
  BY <1>3, KeepStored
<1>7. TakerOK(t)'
  <2>1. TodoOK(t)'
    BY <1>0, <1>1, <1>2 DEF TodoOK, Queue
  <2> QED BY <1>1, <1>2, <2>1
       DEF TakerOK, RemoveOK, UpdateOK, DrainOK, HoldsId, At, Draining, Queue
<1>8. ASSUME NEW u \in Takers PROVE TakerOK(u)'
  BY <1>1, <1>2, <1>6, <1>7, TakerIs, OthersCalm
<1>9. \A x \in Writers : wq[x] \in Queues
  BY DEF Types, OtherTypes
<1>10. AllKept'
  <2>1. ASSUME NEW x \in Writers, Kept(x) PROVE Kept(x)'
    <3>1. In(x)' <=> In(x)
      BY <1>1, InKept
    <3>2. \A u \in Takers : /\ Adding(u, x) => Adding(u, x)'
                            /\ Removing(u, x) => Removing(u, x)'
      BY <1>1, <1>2 DEF Adding, Removing, At, Moves
    <3>3. Gone(x)' <=> Gone(x)
      BY <1>1 DEF Gone
    <3>4. Stored(wq[x])' = Stored(wq[x])
      BY <1>1, <1>6, <1>9
    <3> QED BY <2>1, <3>1, <3>2, <3>3, <3>4 DEF Kept
  <2> QED BY <1>0, <1>1, <2>1 DEF AllKept
<1>11. SentIs'
  BY <1>0, <1>1 DEF SentIs
<1>12. ASSUME NEW w \in Writers, w \in Stored(wq[w])' \/ w \in DOMAIN M(wq[w])' PROVE Live(w)
  <2>1. w \in Stored(wq[w])' => w \in Stored(wq[w])
    BY <1>1, <1>6, <1>9
  <2>2. w \in DOMAIN M(wq[w])' => w \in DOMAIN M(wq[w])
    BY <1>1, <1>9 DEF KeepM
  <2> QED BY <1>12, <2>1, <2>2 DEF Live
<1>13. ~At(t, "zadd")' /\ ~HoldsId(t)'
  BY <1>2 DEF At, HoldsId
<1> QED BY <1>1, <1>2, <1>4, <1>5, <1>8, <1>10, <1>11, <1>12, <1>13, CalmKeys

(* Nobody is at work on a queue whose metadata is deleted. *)
LEMMA NobodyLeft ==
    ASSUME Types, KeysInd, ~Drain, ~Stale, NEW t \in Takers, DeleteMetadata(t)
    PROVE  /\ Z(Queue(t)) = {}
           /\ \A w \in Writers : wq[w] = Queue(t) =>
                /\ ~Active(w) /\ w \notin Stored(wq[w])
                /\ \A u \in Takers : ~Adding(u, w) /\ ~Removing(u, w) /\ ~(HoldsId(u) /\ Guid(u) = w)
<1>1. tk[t].pc = "delmeta" /\ Go(t, "unindex")
  BY DeleteMetadataIs DEF At
<1>2. Moves(t) /\ tk'[t].pc = "unindex"
  BY <1>1, GoIs DEF Types, Pcs
<1>3. Z(Queue(t)) = {}
  BY <1>1 DEF KeysInd, TakerOK, DrainOK, Draining
<1>4. ASSUME NEW w \in Writers, wq[w] = Queue(t) PROVE ~Active(w) /\ w \notin Stored(wq[w])
  BY <1>1, <1>3, <1>4 DEF Drain, Draining, Stored, Z
<1>5. ASSUME NEW w \in Writers, wq[w] = Queue(t), NEW u \in Takers
      PROVE  ~Adding(u, w) /\ ~Removing(u, w) /\ ~(HoldsId(u) /\ Guid(u) = w)
  <2>1. CASE u = t
    BY <1>1, <2>1 DEF Adding, Removing, HoldsId, At
  <2>2. CASE u # t
    <3>1. ~(Queue(u) = Queue(t) /\ HoldsId(u))
      BY <1>1, <1>2, <2>2 DEF Stale, At
    <3>2. Adding(u, w) => Queue(u) = Queue(t) /\ u[1] = "stream"
      BY <1>5, HeldHere
    <3> QED BY <1>5, <2>2, <3>1, <3>2, HeldHere, TakerIs
  <2> QED BY <2>1, <2>2
<1> QED BY <1>3, <1>4, <1>5

LEMMA DeleteMetadataKeys ==
    ASSUME Types, KeysInd, ~Drain, ~Stale, NEW t \in Takers, DeleteMetadata(t), Types'
    PROVE  KeysInd' /\ LiveStays
<1>0. /\ Values /\ Fields /\ AllKept /\ SentIs /\ TakerTypes /\ TodoOK(t)
  BY DEF KeysInd, TakerOK, Types
<1>1. /\ KeepZ /\ KeepR
      /\ M(Queue(t))' = <<>> /\ \A p \in Others(Queue(t)) : M(p)' = M(p) /\ C(p)' = C(p)
      /\ tk[t].pc = "delmeta" /\ Go(t, "unindex")
      /\ UNCHANGED <<wq, wid, wpc, earlier, sent, out, cut>>
  BY DeleteMetadataIs DEF At
<1>2. Moves(t) /\ tk'[t].pc = "unindex" /\ tk'[t].todo = tk[t].todo
  BY <1>0, <1>1, GoIs DEF Pcs
<1>3. /\ Z(Queue(t)) = {}
      /\ \A w \in Writers : wq[w] = Queue(t) =>
           /\ ~Active(w) /\ w \notin Stored(wq[w])
           /\ \A u \in Takers : ~Adding(u, w) /\ ~Removing(u, w) /\ ~(HoldsId(u) /\ Guid(u) = w)
  BY NobodyLeft
<1>4. Values'
  BY <1>0, <1>1, ValuesKept, LaterIs DEF KeepZ
<1>5. ASSUME NEW q \in Queues, NEW w \in DOMAIN M(q)'
      PROVE  q # Queue(t) /\ w \in DOMAIN M(q) /\ M(q)'[w] = M(q)[w]
  <2>1. q # Queue(t)
    <3>1. ASSUME q = Queue(t) PROVE FALSE
      <4>1. w \in DOMAIN <<>>
        BY <1>1, <1>5, <3>1
      <4> QED BY <4>1
    <3> QED BY <3>1
  <2> QED BY <1>1, <1>5, <2>1 DEF Others
<1>6. Fields'
  BY <1>0, <1>1, <1>5, FieldsKept, LaterIs DEF KeepR
<1>7. \A q \in Queues : Z(q)' = Z(q) /\ Stored(q)' = Stored(q)
  BY <1>1, KeepStored
<1>8. TakerOK(t)'
  <2>1. TodoOK(t)'
    BY <1>0, <1>1, <1>2 DEF TodoOK, Queue
  <2>2. Z(Queue(t))' = {} /\ Queue(t)' = Queue(t)
    BY <1>3, <1>7, TakerIs DEF Queue
  <2> QED BY <1>1, <1>2, <2>1, <2>2
       DEF TakerOK, RemoveOK, UpdateOK, DrainOK, HoldsId, At, Draining
<1>9. ASSUME NEW u \in Takers PROVE TakerOK(u)'
  BY <1>1, <1>2, <1>7, <1>8, TakerIs, OthersCalm
<1>10. \A x \in Writers : wq[x] \in Queues
  BY DEF Types, OtherTypes
<1>11. ASSUME NEW x \in Writers
       PROVE /\ x \in Stored(wq[x])' <=> x \in Stored(wq[x])
             /\ Active(x)' <=> Active(x)
             /\ \A u \in Takers : /\ Adding(u, x)' <=> Adding(u, x)
                                  /\ Removing(u, x)' <=> Removing(u, x)
                                  /\ (HoldsId(u) /\ Guid(u) = x)' <=> (HoldsId(u) /\ Guid(u) = x)
  <2>1. ASSUME NEW u \in Takers, u # t
        PROVE  /\ Adding(u, x)' <=> Adding(u, x)
               /\ Removing(u, x)' <=> Removing(u, x)
               /\ (HoldsId(u) /\ Guid(u) = x)' <=> (HoldsId(u) /\ Guid(u) = x)
    BY <1>2, <2>1 DEF Adding, Removing, HoldsId, Guid, At, Moves
  <2>2. /\ ~Adding(t, x)' /\ ~Removing(t, x)' /\ ~HoldsId(t)'
        /\ ~Adding(t, x) /\ ~Removing(t, x) /\ ~HoldsId(t)
    BY <1>1, <1>2 DEF Adding, Removing, HoldsId, At
  <2>3. x \in Stored(wq[x])' <=> x \in Stored(wq[x])
    BY <1>1, <1>7, <1>10
  <2>4. Active(x)' <=> Active(x)
    BY <1>1 DEF Active
  <2> QED BY <2>1, <2>2, <2>3, <2>4
<1>12. AllKept'
  <2>1. ASSUME NEW x \in Writers, Kept(x) PROVE Kept(x)'
    <3>1. Gone(x)' <=> Gone(x)
      BY <1>1 DEF Gone
    <3>2. CASE wq[x] = Queue(t)
      BY <1>3, <2>1, <3>1, <3>2 DEF Kept
    <3>3. CASE wq[x] # Queue(t)
      <4>1. In(x)' <=> In(x)
        BY <1>1, <1>10, <3>3 DEF In, Others, KeepR
      <4> QED BY <1>11, <2>1, <3>1, <4>1 DEF Kept
    <3> QED BY <3>2, <3>3
  <2> QED BY <1>0, <1>1, <2>1 DEF AllKept
<1>13. SentIs'
  BY <1>0, <1>1 DEF SentIs
<1>14. ASSUME NEW w \in Writers, Live(w)' PROVE Live(w) /\ C(wq[w])' = C(wq[w])
  <2>1. w \in DOMAIN M(wq[w])' => wq[w] # Queue(t) /\ w \in DOMAIN M(wq[w])
    BY <1>1, <1>5, <1>10
  <2>2. wq[w] # Queue(t)
    BY <1>3, <1>11, <1>14, <2>1 DEF Live
  <2>3. C(wq[w])' = C(wq[w])
    BY <1>1, <1>10, <2>2 DEF Others
  <2>4. Live(w)
    BY <1>11, <1>14, <2>1 DEF Live
  <2> QED BY <2>3, <2>4
<1> QED BY <1>1, <1>4, <1>6, <1>9, <1>12, <1>13, <1>14, TakerKeys

LEMMA RemoveOldKeys ==
    ASSUME Types, KeysInd, NEW t \in Takers, RemoveOld(t), Types'
    PROVE  KeysInd' /\ LiveStays
<1>0. /\ Numbers /\ Values /\ Fields /\ AllKept /\ SentIs /\ TakerTypes /\ StoreTypes
      /\ TodoOK(t) /\ UpdateOK(t)
  BY DEF KeysInd, TakerOK, Types
<1>1. /\ KeepC /\ KeepM /\ KeepR
      /\ \A p \in Others(Queue(t)) : Z(p)' = Z(p)
      /\ UNCHANGED <<wq, wid, wpc, earlier, sent, out, cut>>
      /\ Moves(t) /\ tk[t].pc = "zrem" /\ t[1] = "stream"
  BY RemoveOldStore, RemoveOldIs
<1>2. /\ tk[t].held \in Z(Queue(t)) /\ tk[t].id = tk[t].held.id /\ Queue(t) \in Queues
      /\ tk[t].todo = <<tk[t].held.guid>>
  BY <1>0, <1>1, TakerIs DEF UpdateOK, At
<1>3. Guid(t) = tk[t].held.guid
  BY <1>2 DEF Guid
<1>4. PICK old \in SUBSET Z(Queue(t)) :
        /\ old = {v \in Z(Queue(t)) : v.id = tk[t].id /\ v.guid = Guid(t)
                                      /\ v.order = tk[t].held.order}
        /\ \/ old = {} /\ tk'[t].pc = "idle"
           \/ /\ old # {} /\ tk'[t].pc = "zadd" /\ tk'[t].todo = tk[t].todo
              /\ tk'[t].held = tk[t].held /\ tk'[t].id = tk[t].id
  BY RemoveOldIs
<1>5. old = {tk[t].held}
  BY <1>0, <1>2, <1>3, <1>4, IdsDiffer
<1>6. Z(Queue(t))' = Z(Queue(t)) \ {tk[t].held}
  BY <1>4, <1>5, RemoveOldStore
<1>7. /\ tk'[t].pc = "zadd" /\ tk'[t].todo = tk[t].todo /\ tk'[t].held = tk[t].held
      /\ tk'[t].id = tk[t].id /\ Queue(t)' = Queue(t)
  BY <1>4, <1>5 DEF Queue
<1>8. /\ \A q \in Queues : Z(q)' \subseteq Z(q)
      /\ \A q \in Queues : \A v \in Z(q) : v \notin Z(q)' => v = tk[t].held /\ q = Queue(t)
      /\ \A v \in Z(Queue(t))' : v.guid # tk[t].held.guid
  <2>1. \A q \in Queues : q = Queue(t) \/ Z(q)' = Z(q)
    BY <1>1 DEF Others
  <2>2. \A v \in Z(Queue(t)) : v.guid = tk[t].held.guid => v = tk[t].held
    BY <1>0, <1>2 DEF Values
  <2> QED BY <1>6, <2>1, <2>2
<1>9. Values'
  BY <1>0, <1>1, <1>8, ValuesKept, LaterIs
<1>10. Fields'
  BY <1>0, <1>1, FieldsKept, LaterIs DEF KeepM, KeepR
<1>11. TakerOK(t)'
  <2>1. TodoOK(t)'
    BY <1>0, <1>1, <1>7 DEF TodoOK, Queue
  <2>2. tk[t].held.guid \notin Stored(Queue(t))'
    BY <1>7, <1>8 DEF Stored, Z
  <2>3. /\ wq[tk[t].held.guid] = Queue(t) /\ wpc[tk[t].held.guid] \notin {"new", "number"}
        /\ tk[t].held.id = wid[tk[t].held.guid] /\ tk[t].held.order <= 0
    BY <1>0, <1>2 DEF Values
  <2> QED BY <1>1, <1>7, <2>1, <2>2, <2>3
       DEF TakerOK, RemoveOK, UpdateOK, DrainOK, HoldsId, At, Draining
<1>12. ASSUME NEW u \in Takers PROVE TakerOK(u)'
  <2>1. Z(Queue(u))' = Z(Queue(u)) \/ Queue(u) = Queue(t)
    BY <1>1, TakerIs DEF Others, Queue
  <2> QED BY <1>1, <1>2, <1>8, <1>11, <2>1, OthersCalm
<1>13. \A x \in Writers : wq[x] \in Queues
  BY DEF Types, OtherTypes
<1>14. AllKept'
  <2>1. ASSUME NEW x \in Writers, Kept(x) PROVE Kept(x)'
    <3>1. In(x)' <=> In(x)
      BY <1>1, InKept
    <3>2. \A u \in Takers : /\ Adding(u, x) => Adding(u, x)'
                            /\ Removing(u, x) => Removing(u, x)'
      BY <1>1 DEF Adding, Removing, At, Moves
    <3>3. Gone(x)' <=> Gone(x)
      BY <1>1 DEF Gone
    <3>4. x \in Stored(wq[x]) => x \in Stored(wq[x])' \/ Adding(t, x)'
      <4>1. ASSUME x \in Stored(wq[x]) PROVE x \in Stored(wq[x])' \/ Adding(t, x)'
        <5>1. PICK v \in Z(wq[x]) : v.guid = x
          BY <4>1 DEF Stored, Z
        <5>2. CASE v \in Z(wq[x])'
          BY <1>1, <5>1, <5>2 DEF Stored, Z
        <5>3. CASE v \notin Z(wq[x])'
          <6>1. v = tk[t].held
            BY <1>1, <1>8, <1>13, <5>1, <5>3
          <6> QED BY <1>7, <5>1, <6>1 DEF Adding, At
        <5> QED BY <5>2, <5>3
      <4> QED BY <4>1
    <3> QED BY <2>1, <3>1, <3>2, <3>3, <3>4 DEF Kept
  <2> QED BY <1>0, <1>1, <2>1 DEF AllKept
<1>15. SentIs'
  BY <1>0, <1>1 DEF SentIs
<1>16. ASSUME NEW w \in Writers, w \in Stored(wq[w])' \/ w \in DOMAIN M(wq[w])' PROVE Live(w)
  <2>1. w \in Stored(wq[w])' => w \in Stored(wq[w])
    BY <1>1, <1>8, <1>13 DEF Stored, Z
  <2>2. M(wq[w])' = M(wq[w])
    BY <1>1, <1>13 DEF KeepM
  <2> QED BY <1>16, <2>1, <2>2 DEF Live
<1>17. Live(tk'[t].held.guid) /\ ~HoldsId(t)'
  BY <1>0, <1>2, <1>7, IdsDiffer DEF HoldsId
<1> QED BY <1>1, <1>9, <1>10, <1>12, <1>14, <1>15, <1>16, <1>17, CalmKeys

LEMMA AddRestKeys ==
    ASSUME Types, KeysInd, NEW t \in Takers, AddRest(t), Types'
    PROVE  KeysInd' /\ LiveStays
<1>0. /\ Numbers /\ Values /\ Fields /\ AllKept /\ SentIs /\ TakerTypes /\ UpdateOK(t)
  BY DEF KeysInd, TakerOK, Types
<1>1. /\ KeepC /\ KeepM /\ KeepR
      /\ Moves(t) /\ tk[t].pc = "zadd" /\ t[1] = "stream"
      /\ tk'[t].pc = "idle" /\ tk'[t].todo = <<>>
      /\ \A p \in Others(Queue(t)) : Z(p)' = Z(p)
      /\ UNCHANGED <<wq, wid, wpc, earlier, sent, cut>>
  BY AddRestIs
<1>2. PICK rest \in Value :
        /\ rest.id = tk[t].held.id /\ rest.guid = tk[t].held.guid
        /\ rest.order = tk[t].held.order - 1
        /\ Z(Queue(t))' = Z(Queue(t)) \cup {rest}
        /\ Piece(tk[t].held, rest.off, tk[t].held.order) \in Taken
        /\ out' = [out EXCEPT ![Queue(t)] =
                     Append(@, Piece(tk[t].held, rest.off, tk[t].held.order))]
  BY AddRestIs
<1>3. /\ rest.guid \notin Stored(Queue(t)) /\ wq[rest.guid] = Queue(t)
      /\ wpc[rest.guid] \notin {"new", "number"} /\ rest.id = wid[rest.guid]
      /\ rest.guid \in Writers /\ Adding(t, rest.guid) /\ Queue(t) \in Queues
  BY <1>0, <1>1, <1>2, TakerIs DEF UpdateOK, At, Adding, Value
<1>4. rest.order <= 0
  <2>1. tk[t].held \in Value
    BY AddRestIs
  <2>2. tk[t].held.order \in Int /\ tk[t].held.order <= 0
    BY <1>0, <1>1, <2>1 DEF UpdateOK, At, Value
  <2> QED BY <1>2, <2>2
<1>5. \A q \in Queues : Z(q)' = Z(q) \/ (q = Queue(t) /\ Z(q)' = Z(q) \cup {rest})
  BY <1>1, <1>2 DEF Others
<1>6. Values'
  <2>1. ASSUME NEW q \in Queues, NEW y \in Z(q)'
        PROVE  /\ wq'[y.guid] = q /\ y.id = wid'[y.guid] /\ y.order <= 0
               /\ wpc'[y.guid] \notin {"new", "number"}
    <3>1. CASE y \in Z(q)
      BY <1>0, <1>1, <3>1 DEF Values
    <3>2. CASE y \notin Z(q)
      BY <1>1, <1>3, <1>4, <1>5, <2>1, <3>2
    <3> QED BY <3>1, <3>2
  <2>2. ASSUME NEW q \in Queues, NEW y \in Z(q)', NEW z \in Z(q)', y.guid = z.guid PROVE y = z
    <3>1. CASE Z(q)' = Z(q)
      BY <1>0, <2>2, <3>1 DEF Values
    <3>2. CASE q = Queue(t) /\ Z(q)' = Z(q) \cup {rest}
      <4>1. \A x \in Z(q) : x.guid # rest.guid
        BY <1>3, <3>2 DEF Stored, Z
      <4> QED BY <1>0, <2>2, <3>2, <4>1 DEF Values
    <3> QED BY <1>5, <3>1, <3>2
  <2> QED BY <2>1, <2>2 DEF Values
<1>7. Fields'
  BY <1>0, <1>1, FieldsKept, LaterIs DEF KeepM, KeepR
<1>8. TakerOK(t)'
  <2>1. TodoOK(t)'
    BY <1>1 DEF TodoOK
  <2> QED BY <1>1, <2>1, PlainOK
<1>9. ASSUME NEW u \in Takers PROVE TakerOK(u)'
  <2>1. u # t => Queue(u) # Queue(t) /\ Queue(u) \in Queues
    BY <1>1, TakerIs
  <2>2. u # t => Z(Queue(u))' = Z(Queue(u))
    BY <1>1, <2>1 DEF Others, Queue
  <2> QED BY <1>1, <1>8, <2>2, OthersCalm
<1>10. \A x \in Writers : wq[x] \in Queues
  BY DEF Types, OtherTypes
<1>11. \A x \in Writers : x \in Stored(wq[x])' <=> x \in Stored(wq[x]) \/ x = rest.guid
  <2>1. ASSUME NEW x \in Writers, x \in Stored(wq[x])' PROVE x \in Stored(wq[x]) \/ x = rest.guid
    BY <1>1, <1>5, <1>10, <2>1 DEF Stored, Z
  <2>2. ASSUME NEW x \in Writers, x \in Stored(wq[x]) PROVE x \in Stored(wq[x])'
    BY <1>1, <1>5, <1>10, <2>2 DEF Stored, Z
  <2>3. rest.guid \in Stored(wq[rest.guid])'
    <3>1. rest \in Z(wq[rest.guid])'
      BY <1>1, <1>2, <1>3
    <3> QED BY <3>1 DEF Stored, Z
  <2> QED BY <2>1, <2>2, <2>3
<1>12. AllKept'
  <2>1. ASSUME NEW x \in Writers, Kept(x) PROVE Kept(x)'
    <3>1. In(x)' <=> In(x)
      BY <1>1, InKept
    <3>2. \A u \in Takers : /\ Adding(u, x) => Adding(u, x)' \/ x = rest.guid
                            /\ Removing(u, x) => Removing(u, x)'
      BY <1>1, <1>2 DEF Adding, Removing, At, Moves
    <3>3. Gone(x) => Gone(x)'
      BY <1>1, <1>2, <1>3, GoneStays
    <3> QED BY <1>11, <2>1, <3>1, <3>2, <3>3 DEF Kept
  <2> QED BY <1>0, <1>1, <2>1 DEF AllKept
<1>13. SentIs'
  BY <1>0, <1>1 DEF SentIs
<1>14. ASSUME NEW w \in Writers, w \in Stored(wq[w])' \/ w \in DOMAIN M(wq[w])' PROVE Live(w)
  <2>1. M(wq[w])' = M(wq[w])
    BY <1>1, <1>10 DEF KeepM
  <2> QED BY <1>3, <1>11, <1>14, <2>1 DEF Live
<1>15. ~At(t, "zadd")' /\ ~HoldsId(t)'
  BY <1>1 DEF At, HoldsId
<1> QED BY <1>1, <1>6, <1>7, <1>9, <1>12, <1>13, <1>14, <1>15, CalmKeys

LEMMA CutTakerKeys ==
    ASSUME Types, KeysInd, NEW t \in Takers, CutTaker(t), Types'
    PROVE  KeysInd' /\ LiveStays
<1>0. /\ Values /\ Fields /\ AllKept /\ SentIs /\ TakerTypes
  BY DEF KeysInd, Types
<1>1. /\ KeepZ /\ KeepC /\ KeepM /\ KeepR
      /\ UNCHANGED <<wq, wid, wpc, earlier, sent, out>>
      /\ Moves(t) /\ tk'[t].pc = "idle" /\ tk'[t].todo = <<>>
      /\ cut = {} /\ cut' = (Range(tk[t].todo) \cup {tk[t].held.guid}) \ {None}
  BY QuietStore, CutTakerIs
<1>2. Values'
  BY <1>0, <1>1, ValuesKept, LaterIs DEF KeepZ
<1>3. Fields'
  BY <1>0, <1>1, FieldsKept, LaterIs DEF KeepM, KeepR
<1>4. \A q \in Queues : Z(q)' = Z(q) /\ Stored(q)' = Stored(q)
  BY <1>1, KeepStored
<1>5. TakerOK(t)'
  <2>1. TodoOK(t)'
    BY <1>1 DEF TodoOK
  <2> QED BY <1>1, <2>1, PlainOK
<1>6. ASSUME NEW u \in Takers PROVE TakerOK(u)'
  BY <1>1, <1>4, <1>5, TakerIs, OthersCalm
<1>7. \A x \in Writers : wq[x] \in Queues
  BY DEF Types, OtherTypes
<1>8. AllKept'
  <2>1. ASSUME NEW x \in Writers \ cut', Kept(x) PROVE Kept(x)'
    <3>1. In(x)' <=> In(x)
      BY <1>1, InKept
    <3>2. x # tk[t].held.guid
      BY <1>1, <2>1, Bounds DEF None
    <3>3. \A u \in Takers : /\ Adding(u, x) => Adding(u, x)'
                            /\ Removing(u, x) => Removing(u, x)'
      BY <1>1, <3>2 DEF Adding, Removing, At, Moves
    <3>4. Gone(x)' <=> Gone(x)
      BY <1>1 DEF Gone
    <3>5. Stored(wq[x])' = Stored(wq[x])
      BY <1>1, <1>4, <1>7
    <3> QED BY <2>1, <3>1, <3>3, <3>4, <3>5 DEF Kept
  <2> QED BY <1>0, <1>1, <2>1 DEF AllKept
<1>9. SentIs'
  BY <1>0, <1>1 DEF SentIs
<1>10. ASSUME NEW w \in Writers, w \in Stored(wq[w])' \/ w \in DOMAIN M(wq[w])' PROVE Live(w)
  <2>1. w \in Stored(wq[w])' => w \in Stored(wq[w])
    BY <1>1, <1>4, <1>7
  <2>2. w \in DOMAIN M(wq[w])' => w \in DOMAIN M(wq[w])
    BY <1>1, <1>7 DEF KeepM
  <2> QED BY <1>10, <2>1, <2>2 DEF Live
<1>11. ~At(t, "zadd")' /\ ~HoldsId(t)'
  BY <1>1 DEF At, HoldsId
<1>12. cut \subseteq cut'
  BY <1>1
<1> QED BY <1>1, <1>2, <1>3, <1>6, <1>8, <1>9, <1>10, <1>11, <1>12, CalmKeys

LEMMA KeysStep ==
    ASSUME RedisNext, Types, Types', KeysInd, ~Drain, Sound'
    PROVE  KeysInd' /\ LiveStays
<1>1. Command /\ ~Stale
  BY RacedIs
<1>2. CASE \E w \in Writers : InsertCommand(w)
  BY <1>2, InsertCommandKeys
<1>3. CASE \E t \in Takers :
        \/ Quiet(t) \/ RemoveById(t) \/ DeleteGuid(t) \/ DeleteRev(t) \/ DeleteQueue(t)
        \/ DeleteMetadata(t) \/ RemoveOld(t) \/ AddRest(t) \/ CutTaker(t)
  <2>1. PICK t \in Takers :
        \/ Quiet(t) \/ RemoveById(t) \/ DeleteGuid(t) \/ DeleteRev(t) \/ DeleteQueue(t)
        \/ DeleteMetadata(t) \/ RemoveOld(t) \/ AddRest(t) \/ CutTaker(t)
    BY <1>3
  <2> QED BY <1>1, <2>1, QuietKeys, RemoveByIdKeys, DeleteGuidKeys, DeleteRevKeys,
    DeleteQueueKeys, DeleteMetadataKeys, RemoveOldKeys, AddRestKeys, CutTakerKeys
<1> QED BY <1>1, <1>2, <1>3, CommandIs

-----------------------------------------------------------------------------
(***************************************************************************)
(* What every command leaves alone, and what is taken from a queue.        *)
(***************************************************************************)
TakerCommand(t) ==
    \/ Quiet(t) \/ RemoveById(t) \/ DeleteGuid(t) \/ DeleteRev(t) \/ DeleteQueue(t)
    \/ DeleteMetadata(t) \/ RemoveOld(t) \/ AddRest(t) \/ CutTaker(t)

LEMMA TakerFrame ==
    ASSUME Types, NEW t \in Takers, TakerCommand(t)
    PROVE  /\ UNCHANGED <<wq, wid, wpc, earlier>> /\ cut \subseteq cut' /\ Moves(t)
           /\ CutTaker(t) \/ cut' = cut
<1>1. UNCHANGED <<wq, wid, wpc, earlier>>
  BY QuietStore, RemoveByIdIs, DeleteGuidIs, DeleteRevIs, DeleteQueueIs, DeleteMetadataIs,
    RemoveOldStore, AddRestIs DEF TakerCommand
<1>2. CutTaker(t) \/ cut' = cut
  BY QuietTypes, RemoveByIdIs, DeleteGuidIs, DeleteRevIs, DeleteQueueIs, DeleteMetadataIs,
    RemoveOldStore, AddRestIs DEF TakerCommand
<1>3. cut \subseteq cut'
  BY <1>2, CutTakerIs
<1>4. ASSUME Quiet(t) PROVE Moves(t)
  <2>1. CASE CheckLock(t) \/ ReadIndex(t) \/ PickQueue(t) \/ SetLock(t) \/ ReleaseLock(t)
    BY <2>1, GoesIs, GoIs DEF Types
  <2>2. CASE ~(CheckLock(t) \/ ReadIndex(t) \/ PickQueue(t) \/ SetLock(t) \/ ReleaseLock(t))
    BY <1>4, <2>2, LookupGuidIs, RangeByIdIs, CardIs, RemoveFromIndexIs, ReadMessagesIs,
      RemoveAnsweredIs, ReadChunksIs, ReadFirstIs, FindOldIs, FindGuidIs DEF Types, Quiet
  <2> QED BY <2>1, <2>2
<1>5. RemoveById(t) \/ DeleteGuid(t) \/ DeleteQueue(t) \/ DeleteMetadata(t) => Moves(t)
  BY GoesIs, GoIs DEF Types
<1>6. DeleteRev(t) => Moves(t)
  <2>1. ASSUME DeleteRev(t) PROVE Removes(t) /\ GuidDone(t)
    BY <2>1, DeleteRevIs DEF Removes, At
  <2> QED BY <2>1, GuidDoneIs DEF Types
<1>7. Moves(t)
  BY <1>4, <1>5, <1>6, RemoveOldIs, AddRestIs, CutTakerIs DEF TakerCommand
<1> QED BY <1>1, <1>2, <1>3, <1>7

LEMMA Frame ==
    ASSUME Types, Command
    PROVE  /\ wq' = wq /\ Later /\ cut \subseteq cut'
           /\ \A w \in Writers : wpc[w] # "new" => earlier'[w] = earlier[w]
<1>1. CASE \E w \in Writers : InsertCommand(w)
  <2>1. PICK w \in Writers : InsertCommand(w)
    BY <1>1
  <2>2. cut' = cut \/ cut = {}
    BY <2>1, NumberIs, AddValueIs, SetGuidIs, SetRevIs, AddToIndexIs, CutInsertIs
       DEF InsertCommand
  <2>3. earlier' = earlier
          \/ (wpc[w] = "new" /\ earlier' = [earlier EXCEPT ![w] = {v \in Writers : wpc[v] = "done"}])
    BY <2>1, NumberIs, AddValueIs, SetGuidIs, SetRevIs, AddToIndexIs, CutInsertIs
       DEF InsertCommand
  <2>4. \A x \in Writers : wpc[x] # "new" => earlier'[x] = earlier[x]
    BY <2>3 DEF Types, OtherTypes
  <2> QED BY <2>1, <2>2, <2>4, InsertLater
<1>2. CASE \E t \in Takers : TakerCommand(t)
  BY <1>2, TakerFrame, LaterIs
<1> QED BY <1>1, <1>2, CommandIs DEF TakerCommand

(* A value comes by ZADD only. *)
LEMMA StoredGrows ==
    ASSUME Types, Command, NEW w \in Writers, w \in Stored(wq[w])'
    PROVE  \/ w \in Stored(wq[w])
           \/ wpc[w] = "number"
           \/ \E t \in Takers : AddRest(t) /\ Adding(t, w)
<1>1. \A x \in Writers : wq[x] \in Queues
  BY DEF Types, OtherTypes
<1>2. wq' = wq
  BY Frame
<1>3. PICK v \in Z(wq[w])' : v.guid = w
  BY <1>2 DEF Stored, Z
<1>4. ASSUME \A q \in Queues : Z(q)' \subseteq Z(q) PROVE w \in Stored(wq[w])
  BY <1>1, <1>2, <1>3, <1>4 DEF Stored, Z
<1>5. ASSUME KeepZ PROVE w \in Stored(wq[w])
  BY <1>4, <1>5 DEF KeepZ
<1>6. ASSUME NEW x \in Writers, InsertCommand(x), ~AddValue(x) PROVE w \in Stored(wq[w])
  BY <1>5, <1>6, NumberIs, SetGuidIs, SetRevIs, AddToIndexIs, CutInsertIs DEF InsertCommand
<1>7. ASSUME NEW x \in Writers, AddValue(x) PROVE w \in Stored(wq[w]) \/ wpc[w] = "number"
  <2>1. PICK y : y = [id |-> wid[x], guid |-> x, off |-> 0, order |-> 0]
    OBVIOUS
  <2>2. Z(wq[x])' = Z(wq[x]) \cup {y} /\ y.guid = x /\ wpc[x] = "number"
        /\ \A p \in Others(wq[x]) : Z(p)' = Z(p)
    BY <1>7, <2>1, AddValueIs
  <2>3. Z(wq[w])' = Z(wq[w]) \/ Z(wq[w])' = Z(wq[w]) \cup {y}
    BY <1>1, <1>2, <2>2 DEF Others
  <2>4. v = y \/ v \in Z(wq[w])
    BY <1>3, <2>3
  <2> QED BY <1>3, <2>2, <2>4 DEF Stored, Z
<1>8. ASSUME NEW t \in Takers, TakerCommand(t), ~AddRest(t) PROVE w \in Stored(wq[w])
  <2>1. CASE Quiet(t) \/ CutTaker(t) \/ DeleteGuid(t) \/ DeleteRev(t) \/ DeleteMetadata(t)
    BY <1>5, <2>1, QuietStore, DeleteGuidIs, DeleteRevIs, DeleteMetadataIs
  <2>2. CASE RemoveById(t) \/ DeleteQueue(t) \/ RemoveOld(t)
    <3>1. /\ Z(Queue(t))' \subseteq Z(Queue(t))
          /\ \A p \in Others(Queue(t)) : Z(p)' = Z(p)
      BY <2>2, RemoveByIdIs, DeleteQueueIs, RemoveOldStore
    <3> QED BY <1>4, <3>1 DEF Others
  <2> QED BY <1>8, <2>1, <2>2 DEF TakerCommand
<1>9. ASSUME NEW t \in Takers, AddRest(t) PROVE w \in Stored(wq[w]) \/ Adding(t, w)
  <2>1. PICK rest \in Value : /\ rest.guid = tk[t].held.guid
                              /\ Z(Queue(t))' = Z(Queue(t)) \cup {rest}
    BY <1>9, AddRestIs
  <2>2. \A p \in Others(Queue(t)) : Z(p)' = Z(p)
    BY <1>9, AddRestIs
  <2>3. Z(wq[w])' = Z(wq[w]) \/ Z(wq[w])' = Z(wq[w]) \cup {rest}
    BY <1>1, <1>2, <2>1, <2>2 DEF Others
  <2>4. v = rest \/ v \in Z(wq[w])
    BY <1>3, <2>3
  <2>5. tk[t].pc = "zadd"
    BY <1>9, AddRestIs
  <2> QED BY <1>3, <2>1, <2>4, <2>5 DEF Stored, Z, Adding, At
<1> QED BY <1>6, <1>7, <1>8, <1>9, CommandIs DEF TakerCommand

(* The step of t takes the piece p from the value it holds. *)
Takes(t, p) ==
    /\ p \in Taken /\ tk[t].held \in Value /\ Queue(t) \in Queues
    /\ p.guid = tk[t].held.guid /\ p.lo = tk[t].held.off + 1
    /\ out' = [out EXCEPT ![Queue(t)] = Append(@, p)]
    /\ wq[p.guid] = Queue(t) /\ wpc[p.guid] \notin {"new", "number"}
    /\ Moves(t) /\ tk'[t].held = NoValue /\ tk'[t].pc \in {"remove", "card", "idle"}
    /\ UNCHANGED <<wq, wpc, wid, earlier, cut>>
    /\ p.guid \notin Stored(Queue(t))
    /\ \/ DeleteRev(t) /\ Removing(t, p.guid) /\ p.order = Final /\ KeepZ
       \/ /\ AddRest(t) /\ Adding(t, p.guid) /\ p.order = tk[t].held.order /\ p.order <= 0
          /\ t[1] = "stream"

LEMMA TakesIs ==
    ASSUME Types, KeysInd, Command, out' # out
    PROVE  \E t \in Takers, p \in Taken : Takes(t, p)
<1>1. ASSUME NEW t \in Takers, DeleteRev(t) PROVE \E p \in Taken : Takes(t, p)
  <2>1. /\ KeepZ /\ tk[t].pc = "hdelrev" /\ GuidDone(t)
        /\ out' = [out EXCEPT ![Queue(t)] = IF tk[t].held = NoValue THEN @
                     ELSE Append(@, Piece(tk[t].held, Length, Final))]
        /\ UNCHANGED <<wq, wid, wpc, earlier, cut>>
    BY <1>1, DeleteRevIs DEF At
  <2>2. Queue(t) \in Queues /\ out \in [Queues -> Seq(Taken)] /\ TakerTypes
    BY TakerIs DEF Types, OtherTypes
  <2>3. tk[t].held # NoValue
    <3>1. ASSUME tk[t].held = NoValue PROVE out' = out
      BY <2>1, <2>2, <3>1
    <3> QED BY <3>1
  <2>4. tk[t].held \in Value
    BY <2>2, <2>3, RecordIs
  <2>5. PICK p \in Taken : p = Piece(tk[t].held, Length, Final)
    BY <2>4, LastPiece
  <2>6. p.guid = tk[t].held.guid /\ p.order = Final /\ p.lo = tk[t].held.off + 1
    BY <2>5 DEF Piece
  <2>7. p.guid \in Writers
    BY <2>4, <2>6 DEF Value
  <2>8. Removing(t, p.guid) /\ HoldsId(t) /\ Removes(t)
    BY <2>1, <2>6 DEF Removing, HoldsId, Removes
  <2>9. Guid(t) = p.guid /\ wq[p.guid] = Queue(t) /\ wpc[Guid(t)] \notin {"new", "number"}
    BY <2>7, <2>8, HeldHere
  <2>10. Guid(t) \notin Stored(Queue(t))
    BY <2>1 DEF KeysInd, TakerOK, RemoveOK
  <2>11. Moves(t) /\ tk'[t].held = NoValue /\ tk'[t].pc \in {"remove", "card"}
    BY <2>1, <2>2, <2>8, GuidDoneIs
  <2>12. out' = [out EXCEPT ![Queue(t)] = Append(@, p)]
    BY <2>1, <2>3, <2>5
  <2> QED BY <1>1, <2>1, <2>2, <2>4, <2>6, <2>8, <2>9, <2>10, <2>11, <2>12 DEF Takes
<1>2. ASSUME NEW t \in Takers, AddRest(t) PROVE \E p \in Taken : Takes(t, p)
  <2>1. /\ Moves(t) /\ tk[t].pc = "zadd" /\ t[1] = "stream" /\ tk[t].held \in Value
        /\ tk'[t].pc = "idle" /\ tk'[t].held = NoValue
        /\ UNCHANGED <<wq, wid, wpc, earlier, cut>>
    BY <1>2, AddRestIs
  <2>2. PICK rest \in Value :
          /\ Piece(tk[t].held, rest.off, tk[t].held.order) \in Taken
          /\ out' = [out EXCEPT ![Queue(t)] =
                       Append(@, Piece(tk[t].held, rest.off, tk[t].held.order))]
    BY <1>2, AddRestIs
  <2>3. PICK p \in Taken : p = Piece(tk[t].held, rest.off, tk[t].held.order)
    BY <2>2
  <2>4. p.guid = tk[t].held.guid /\ p.order = tk[t].held.order /\ p.lo = tk[t].held.off + 1
    BY <2>3 DEF Piece
  <2>5. UpdateOK(t)
    BY DEF KeysInd, TakerOK
  <2>6. /\ p.guid \notin Stored(Queue(t)) /\ wq[p.guid] = Queue(t)
        /\ wpc[p.guid] \notin {"new", "number"} /\ p.order <= 0
    BY <2>1, <2>4, <2>5 DEF UpdateOK, At
  <2>7. Adding(t, p.guid) /\ Queue(t) \in Queues
    BY <2>1, <2>4, TakerIs DEF Adding, At
  <2>8. out' = [out EXCEPT ![Queue(t)] = Append(@, p)]
    BY <2>2, <2>3
  <2> QED BY <1>2, <2>1, <2>4, <2>6, <2>7, <2>8 DEF Takes
<1>3. \/ \E w \in Writers : InsertCommand(w)
      \/ \E t \in Takers : TakerCommand(t)
  BY CommandIs DEF TakerCommand
<1>4. ASSUME NEW w \in Writers, InsertCommand(w) PROVE FALSE
  BY <1>4, InsertLater
<1>5. ASSUME NEW t \in Takers, TakerCommand(t), ~DeleteRev(t), ~AddRest(t) PROVE FALSE
  BY <1>5, QuietStore, RemoveByIdIs, DeleteGuidIs, DeleteQueueIs, DeleteMetadataIs,
    RemoveOldStore DEF TakerCommand
<1> QED BY <1>1, <1>2, <1>3, <1>4, <1>5

LEMMA GoneGrows ==
    ASSUME Types, KeysInd, Command, NEW w \in Writers
    PROVE  /\ Gone(w) => Gone(w)'
           /\ Gone(w)' => Gone(w) \/ \E t \in Takers, p \in Taken :
                Takes(t, p) /\ p.guid = w /\ p.order = Final
<1>1. wq' = wq
  BY Frame
<1>2. CASE out' = out
  BY <1>1, <1>2 DEF Gone
<1>3. CASE out' # out
  <2>1. PICK t \in Takers, p \in Taken : Takes(t, p)
    BY <1>3, TakesIs
  <2>2. Queue(t) \in Queues /\ out' = [out EXCEPT ![Queue(t)] = Append(@, p)]
    BY <2>1 DEF Takes
  <2> QED BY <1>1, <2>1, <2>2, GoneStays
<1> QED BY <1>2, <1>3

-----------------------------------------------------------------------------
(***************************************************************************)
(* What is gone stays gone; what was sent is not in the queue; the index.  *)
(***************************************************************************)
(* What a taker holds it took from its queue. *)
LEMMA HoldStarts ==
    ASSUME Types, Types', KeysInd, Command, NEW u \in Takers, NEW w \in Writers,
           Adding(u, w)' \/ Carrying(u, w)'
    PROVE  Adding(u, w) \/ Carrying(u, w) \/ w \in Stored(Queue(u))
<1>0. TakerTypes /\ StoreTypes
  BY DEF Types
<1>1. CASE tk'[u] = tk[u]
  BY <1>1 DEF Adding, Carrying, At
<1>2. CASE tk'[u] # tk[u]
  <2>1. TakerCommand(u)
    <3>1. ~\E x \in Writers : InsertCommand(x)
      BY <1>2, InsertLater
    <3> QED BY <1>2, <3>1, CommandIs, TakerFrame DEF TakerCommand, Moves
  <2>2. /\ tk'[u].pc \in {"zadd", "zremrange", "hdel", "hdelrev"} /\ tk'[u].held.guid = w
        /\ tk'[u].held # NoValue
    BY Bounds DEF Adding, Carrying, At, NoValue, None
  <2>3. CASE Quiet(u)
    <3>1. tk'[u].pc = "zremrange"
      BY <2>2, <2>3, QuietOK
    <3>2. RangeById(u)
      <4>1. CASE CheckLock(u) \/ ReadIndex(u) \/ PickQueue(u) \/ SetLock(u) \/ ReleaseLock(u)
        <5>1. \E pc \in {"page", "picked", "lock", "idle"} : Go(u, pc)
          BY <1>0, <4>1, GoesIs
        <5> QED BY <1>0, <3>1, <5>1, GoIs DEF Pcs
      <4>2. CASE Card(u) \/ RemoveFromIndex(u)
        BY <1>0, <3>1, <4>2, CardIs, RemoveFromIndexIs, CallDoneIs
      <4>3. CASE ~RangeById(u)
        BY <1>0, <2>3, <3>1, <4>1, <4>2, <4>3, LookupGuidIs, ReadMessagesIs, RemoveAnsweredIs,
          ReadChunksIs, ReadFirstIs, FindOldIs, FindGuidIs DEF Quiet
      <4> QED BY <4>3
    <3> QED BY <1>0, <2>2, <3>2, RangeByIdIs DEF Stored, Z
  <2>4. CASE RemoveById(u) \/ DeleteGuid(u)
    <3>1. tk[u].pc \in {"zremrange", "hdel"} /\ tk'[u].held = tk[u].held
      BY <1>0, <2>4, GoesIs, GoIs DEF At
    <3> QED BY <2>2, <3>1 DEF Carrying
  <2>5. CASE DeleteQueue(u) \/ DeleteMetadata(u)
    BY <1>0, <2>2, <2>5, GoesIs, GoIs
  <2>6. CASE DeleteRev(u)
    <3>1. Removes(u) /\ GuidDone(u)
      BY <2>6, DeleteRevIs DEF Removes, At
    <3> QED BY <1>0, <2>2, <3>1, GuidDoneIs
  <2>7. CASE RemoveOld(u)
    <3>1. tk[u].pc = "zrem" /\ tk'[u].held = tk[u].held
      BY <2>2, <2>7, RemoveOldIs
    <3>2. tk[u].held \in Z(Queue(u))
      BY <3>1 DEF KeysInd, TakerOK, UpdateOK
    <3> QED BY <2>2, <3>1, <3>2 DEF Stored, Z
  <2>8. CASE AddRest(u) \/ CutTaker(u)
    BY <2>2, <2>8, AddRestIs, CutTakerIs
  <2> QED BY <2>1, <2>3, <2>4, <2>5, <2>6, <2>7, <2>8 DEF TakerCommand
<1> QED BY <1>1, <1>2

(* Where it is. *)
HandsHere ==
    \A u \in Takers, w \in Writers : Adding(u, w) \/ Carrying(u, w) => wq[w] = Queue(u)

LEMMA CarryingHere == Types /\ KeysInd => HandsHere
<1>1. ASSUME Types, KeysInd, NEW u \in Takers, NEW w \in Writers, Adding(u, w)
      PROVE  wq[w] = Queue(u)
  BY <1>1, HeldHere
<1>2. ASSUME Types, KeysInd, NEW u \in Takers, NEW w \in Writers, Carrying(u, w)
      PROVE  wq[w] = Queue(u)
  <2>1. HoldsId(u) /\ ~At(u, "range") /\ tk[u].held # NoValue /\ tk[u].held.guid = w
    BY <1>2, Bounds DEF Carrying, HoldsId, At, NoValue, None
  <2>2. Guid(u) = w
    BY <1>2, <2>1 DEF KeysInd, TakerOK, RemoveOK
  <2> QED BY <1>2, <2>1, <2>2, HeldHere
<1> QED BY <1>1, <1>2 DEF HandsHere

LEMMA GoneStep ==
    ASSUME Types, Types', KeysInd, KeysInd', Command, GoneIs
    PROVE  GoneIs'
<1>0. wq' = wq /\ Later /\ \A w \in Writers : wq[w] \in Queues
  BY Frame DEF Types, OtherTypes
<1>1. ASSUME NEW q \in Queues, NEW i \in DOMAIN out'[q]
      PROVE  wq'[out'[q][i].guid] = q /\ wpc'[out'[q][i].guid] \notin {"new", "number"}
  <2>1. out[q] \in Seq(Taken)
    BY DEF Types, OtherTypes
  <2>2. ASSUME i \in DOMAIN out[q], out'[q][i] = out[q][i]
        PROVE  wq'[out'[q][i].guid] = q /\ wpc'[out'[q][i].guid] \notin {"new", "number"}
    <3>1. out[q][i] \in Taken
      BY <2>1, <2>2
    <3>2. out[q][i].guid \in Writers
      BY <3>1 DEF Taken
    <3> QED BY <1>0, <2>2, <3>2 DEF GoneIs, Later
  <2>3. CASE out' = out
    BY <1>1, <2>2, <2>3
  <2>4. CASE out' # out
    <3>1. PICK t \in Takers, p \in Taken : Takes(t, p)
      BY <2>4, TakesIs
    <3>2. out'[q] = out[q] \/ (q = Queue(t) /\ out'[q] = Append(out[q], p))
      BY <3>1 DEF Takes, Types, OtherTypes
    <3>3. CASE out'[q] = out[q]
      BY <1>1, <2>2, <3>3
    <3>4. CASE q = Queue(t) /\ out'[q] = Append(out[q], p)
      <4>1. /\ DOMAIN Append(out[q], p) = 1..(Len(out[q]) + 1) /\ Len(out[q]) \in Nat
            /\ \A k \in 1..Len(out[q]) : Append(out[q], p)[k] = out[q][k]
            /\ Append(out[q], p)[Len(out[q]) + 1] = p /\ DOMAIN out[q] = 1..Len(out[q])
        BY <2>1, AppendIs
      <4>2. CASE i = Len(out[q]) + 1
        BY <1>0, <3>1, <3>4, <4>1, <4>2 DEF Takes
      <4>3. CASE i # Len(out[q]) + 1
        BY <1>1, <2>2, <3>4, <4>1, <4>3
      <4> QED BY <4>2, <4>3
    <3> QED BY <3>2, <3>3, <3>4
  <2> QED BY <2>3, <2>4
<1>2. ASSUME NEW w \in Writers, NEW u \in Takers, Adding(u, w)' \/ Carrying(u, w)'
      PROVE  wq[w] = Queue(u)
  <2>1. (Types /\ KeysInd => HandsHere)'
    BY CarryingHere, PTL
  <2> QED BY <1>0, <1>2, <2>1 DEF HandsHere, Queue
<1>3. ASSUME NEW w \in Writers, Gone(w)'
      PROVE  /\ w \notin Stored(wq[w])'
             /\ wq[w] \notin MessageQueues => \A u \in Takers : ~Adding(u, w)' /\ ~Carrying(u, w)'
  <2>1. CASE Gone(w)
    <3>1. wpc[w] \notin {"new", "number"} /\ w \notin Stored(wq[w])
      BY <1>0, <2>1 DEF GoneIs, Gone
    <3>2. ASSUME NEW t \in Takers, Adding(t, w), wq[w] \notin MessageQueues PROVE FALSE
      BY <2>1, <3>2 DEF GoneIs
    <3>3. \A t \in Takers : Adding(t, w) => wq[w] \notin MessageQueues
      BY HeldHere, TakerIs
    <3>4. w \notin Stored(wq[w])'
      BY <3>1, <3>2, <3>3, StoredGrows
    <3>5. ASSUME wq[w] \notin MessageQueues, NEW u \in Takers, Adding(u, w)' \/ Carrying(u, w)'
          PROVE  FALSE
      <4>1. Adding(u, w) \/ Carrying(u, w) \/ w \in Stored(wq[w])
        BY <1>2, <3>5, HoldStarts
      <4> QED BY <2>1, <3>1, <3>5, <4>1 DEF GoneIs
    <3> QED BY <3>4, <3>5
  <2>2. CASE ~Gone(w)
    <3>1. PICK t \in Takers, p \in Taken : Takes(t, p) /\ p.guid = w /\ p.order = Final
      BY <1>3, <2>2, GoneGrows
    <3>2. /\ KeepZ /\ wq[w] = Queue(t) /\ w \notin Stored(Queue(t)) /\ Queue(t) \in Queues
          /\ tk'[t].pc \in {"remove", "card", "idle"}
      BY <3>1 DEF Takes, Final
    <3>3. w \notin Stored(wq[w])'
      BY <1>0, <3>2, KeepStored
    <3>4. ASSUME wq[w] \notin MessageQueues, NEW u \in Takers, Adding(u, w)' \/ Carrying(u, w)'
          PROVE  FALSE
      <4>1. u = t
        BY <1>2, <3>2, <3>4, TakerIs
      <4> QED BY <3>2, <3>4, <4>1 DEF Adding, Carrying, At
    <3> QED BY <3>3, <3>4
  <2> QED BY <2>1, <2>2
<1> QED BY <1>0, <1>1, <1>3 DEF GoneIs

(* A guid that is done, kept and not cut is recorded while it is stored. *)
LEMMA StoredIsIn ==
    ASSUME Types, KeysInd, GoneIs, NEW w \in Writers \ cut, wpc[w] = "done", w \in Stored(wq[w])
    PROVE  In(w) /\ w \in DOMAIN M(wq[w])
<1>1. Kept(w)
  BY DEF KeysInd, AllKept
<1>2. ~Gone(w)
  BY DEF GoneIs
<1>3. \A u \in Takers : ~Adding(u, w)
  BY HeldHere
<1>4. ASSUME NEW u \in Takers, Removing(u, w) PROVE FALSE
  <2>1. Guid(u) = w /\ wq[w] = Queue(u)
    BY <1>4, HeldHere
  <2> QED BY <1>4, <2>1 DEF Removing, KeysInd, TakerOK, RemoveOK
<1> QED BY <1>1, <1>2, <1>3, <1>4 DEF Kept, In

(* A message is sent when the connection is done with its guid. *)
LEMMA SentGrows ==
    ASSUME Types, Command, NEW w, w \in sent', w \notin sent
    PROVE  \E t \in Takers :
             /\ t[1] = "each" /\ w = Guid(t) /\ Removes(t)
             /\ DeleteRev(t) \/ (LookupGuid(t) /\ w \notin DOMAIN M(Queue(t)))
<1>1. ASSUME NEW x \in Writers, InsertCommand(x) PROVE FALSE
  BY <1>1, InsertLater
<1>2. ASSUME NEW t \in Takers, TakerCommand(t), ~DeleteRev(t), ~LookupGuid(t) PROVE FALSE
  <2>1. CASE Quiet(t)
    BY ZenonT(60), <1>2, <2>1 DEF Quiet, RangeById, Card, RemoveFromIndex, CheckLock, ReadMessages,
      RemoveAnswered, ReadIndex, PickQueue, SetLock, ReleaseLock, ReadChunks, ReadFirst,
      FindOld, FindGuid, msgs
  <2>2. CASE ~Quiet(t)
    BY <1>2, <2>2, RemoveByIdIs, DeleteGuidIs, DeleteQueueIs, DeleteMetadataIs,
      RemoveOldStore, AddRestIs, CutTakerIs DEF TakerCommand
  <2> QED BY <2>1, <2>2
<1>3. PICK t \in Takers : DeleteRev(t) \/ LookupGuid(t)
  BY <1>1, <1>2, CommandIs DEF TakerCommand
<1>4. CASE DeleteRev(t)
  BY <1>4, DeleteRevIs DEF GuidDone, Removes, At
<1>5. CASE LookupGuid(t)
  <2>1. Guid(t) \notin DOMAIN M(Queue(t)) /\ GuidDone(t) /\ At(t, "remove")
    BY <1>5 DEF LookupGuid, msgs, M
  <2> QED BY <1>5, <2>1 DEF GuidDone, Removes, At
<1> QED BY <1>3, <1>4, <1>5

LEMMA NotSentStep ==
    ASSUME RedisNext, Types, Types', KeysInd, GoneIs, NotSentAgain
    PROVE  NotSentAgain'
<1>1. Command /\ wq' = wq /\ cut \subseteq cut'
  BY RacedIs, Frame
<1>2. ASSUME NEW w \in sent', w \notin cut', raced' = {}, w \in Stored(wq[w])' PROVE FALSE
  <2>1. raced = {} /\ ~Early /\ w \in Writers /\ w \notin cut
    BY <1>1, <1>2, RacedIs DEF Types, OtherTypes
  <2>2. CASE w \in sent
    <3>1. w \notin Stored(wq[w]) /\ wpc[w] \notin {"new", "number"} /\ wq[w] \in MessageQueues
      BY <2>1, <2>2 DEF NotSentAgain, KeysInd, SentIs
    <3>2. PICK t \in Takers : Adding(t, w)
      BY <1>1, <1>2, <2>1, <3>1, StoredGrows
    <3> QED BY <2>1, <3>1, <3>2, HeldHere, TakerIs
  <2>3. CASE w \notin sent
    <3>1. PICK t \in Takers :
             /\ t[1] = "each" /\ w = Guid(t) /\ Removes(t)
             /\ DeleteRev(t) \/ (LookupGuid(t) /\ w \notin DOMAIN M(Queue(t)))
      BY <1>1, <1>2, <2>3, SentGrows
    <3>2. w = tk[t].todo[1] /\ 1 \in DOMAIN tk[t].todo
      BY <3>1, TodoHere DEF Types
    <3>3. wq[w] = Queue(t) /\ wpc[w] \notin {"new", "number"} /\ Queue(t) \in Queues
      BY <3>2, TakerIs DEF KeysInd, TakerOK, TodoOK
    <3>4. KeepZ
      BY <3>1, DeleteRevIs, QuietStore DEF Quiet
    <3>5. w \in Stored(Queue(t))
      BY <1>1, <1>2, <3>3, <3>4, KeepStored
    <3>6. CASE DeleteRev(t)
      <4>1. tk[t].pc = "hdelrev"
        BY <3>6, DeleteRevIs DEF At
      <4> QED BY <3>1, <3>5, <4>1 DEF KeysInd, TakerOK, RemoveOK
    <3>7. CASE LookupGuid(t) /\ w \notin DOMAIN M(Queue(t))
      <4>1. At(t, "remove")
        BY <3>7 DEF LookupGuid
      <4>2. ~Active(w)
        BY <2>1, <3>1, <4>1 DEF Early
      <4>3. wpc[w] # "cut"
        BY <2>1 DEF KeysInd, CutNoted
      <4>4. wpc[w] = "done"
        BY <2>1, <3>3, <4>2, <4>3 DEF Active, Types, OtherTypes
      <4> QED BY <2>1, <3>3, <3>5, <3>7, <4>4, StoredIsIn
    <3> QED BY <3>1, <3>6, <3>7
  <2> QED BY <2>2, <2>3
<1> QED BY <1>2 DEF NotSentAgain

(* Who takes a queue out of the index. *)
LEMMA IndexShrinks ==
    ASSUME Types, Command, NEW q \in Queues, QueueKey(q) \in index[IndexKey(q)],
           QueueKey(q) \notin index'[IndexKey(q)]
    PROVE  \E t \in Takers : Queue(t) = q /\ (PickQueue(t) \/ RemoveFromIndex(t))
<1>1. ASSUME NEW x \in Writers, InsertCommand(x) PROVE FALSE
  BY <1>1, NumberIs, AddValueIs, SetGuidIs, SetRevIs, AddToIndexIs, CutInsertIs DEF InsertCommand
<1>2. ASSUME NEW t \in Takers, TakerCommand(t), ~PickQueue(t), ~RemoveFromIndex(t) PROVE FALSE
  <2>1. CASE Quiet(t)
    BY ZenonT(60), <1>2, <2>1 DEF Quiet, LookupGuid, RangeById, Card, CheckLock, ReadMessages,
      RemoveAnswered, ReadIndex, SetLock, ReleaseLock, ReadChunks, ReadFirst,
      FindOld, FindGuid, store
  <2>2. CASE ~Quiet(t)
    BY <1>2, <2>2, RemoveByIdIs, DeleteGuidIs, DeleteRevIs, DeleteQueueIs, DeleteMetadataIs,
      RemoveOldStore, AddRestIs, CutTakerIs DEF TakerCommand
  <2> QED BY <2>1, <2>2
<1>3. PICK t \in Takers : PickQueue(t) \/ RemoveFromIndex(t)
  BY <1>1, <1>2, CommandIs DEF TakerCommand
<1>4. index' = [index EXCEPT ![IndexKey(Queue(t))] = @ \ {QueueKey(Queue(t))}]
  BY <1>3 DEF PickQueue, RemoveFromIndex
<1>5. QueueKey(q) = QueueKey(Queue(t))
  BY <1>4 DEF Types, StoreTypes
<1> QED BY <1>3, <1>5, KeysDiffer, TakerIs

(* The persister gives a queue up when it is empty. *)
LEMMA PersisterStops ==
    ASSUME Types, Command, NEW t \in Takers, t[1] = "persist",
           tk[t].pc \notin {"idle", "unlock"}, tk'[t].pc \in {"idle", "unlock"}
    PROVE  Z(Queue(t)) = {}
<1>0. TakerTypes /\ StoreTypes
  BY DEF Types
<1>1. TakerCommand(t)
  <2>1. ~\E x \in Writers : InsertCommand(x)
    BY InsertLater
  <2> QED BY <2>1, CommandIs, TakerFrame DEF TakerCommand, Moves
<1>2. CASE Quiet(t)
  <2>1. CASE CheckLock(t) \/ ReadIndex(t) \/ ReleaseLock(t)
    BY <1>0, <2>1, GoesIs DEF At
  <2>2. CASE PickQueue(t) \/ SetLock(t)
    <3>1. \E pc \in {"page", "lock"} : Go(t, pc)
      BY <1>0, <2>2, GoesIs
    <3> QED BY <1>0, <3>1, GoIs DEF Pcs
  <2>3. CASE ReadMessages(t)
    BY <1>0, <2>3, ReadMessagesIs
  <2>4. CASE ReadChunks(t) \/ (\E n \in Amounts : ReadFirst(t, n)) \/ FindOld(t) \/ FindGuid(t)
             \/ \E w \in Writers : RemoveAnswered(t, w)
    BY <1>0, <2>4, ReadChunksIs, ReadFirstIs, FindOldIs, FindGuidIs, RemoveAnsweredIs
  <2>5. CASE Card(t) \/ RemoveFromIndex(t)
    BY <1>0, <2>5, CardIs, RemoveFromIndexIs, CallDoneIs
  <2>6. CASE LookupGuid(t) \/ RangeById(t)
    BY <1>0, <2>6, LookupGuidIs, RangeByIdIs
  <2> QED BY <1>2, <2>1, <2>2, <2>3, <2>4, <2>5, <2>6 DEF Quiet
<1>3. CASE RemoveById(t) \/ DeleteGuid(t) \/ DeleteQueue(t) \/ DeleteMetadata(t)
  BY <1>0, <1>3, GoesIs, GoIs
<1>4. CASE DeleteRev(t)
  <2>1. Removes(t) /\ GuidDone(t)
    BY <1>4, DeleteRevIs DEF Removes, At
  <2> QED BY <1>0, <2>1, GuidDoneIs
<1>5. CASE RemoveOld(t) \/ AddRest(t) \/ CutTaker(t)
  BY <1>5, RemoveOldIs, AddRestIs, CutTakerIs
<1> QED BY <1>1, <1>2, <1>3, <1>4, <1>5 DEF TakerCommand

LEMMA IndexStep ==
    ASSUME RedisNext, Types, Types', Sound => KeysInd, IndexCovers
    PROVE  IndexCovers'
<1>1. /\ Sound /\ Command /\ wq' = wq /\ cut \subseteq cut' /\ KeysInd
      /\ \A x \in Writers : wq[x] \in Queues
  BY RacedIs, Frame DEF Types, OtherTypes
<1>2. ASSUME NEW w \in Writers, wpc'[w] = "done", w \notin cut', wq[w] \in MessageQueues,
             w \in Stored(wq[w])'
      PROVE  \/ QueueKey(wq[w]) \in index'[IndexKey(wq[w])]
             \/ tk'[<<"persist", wq[w]>>].pc \notin {"idle", "unlock"}
  <2>1. CASE wpc[w] # "done"
    <3>1. AddToIndex(w)
      <4>1. PICK x \in Writers : InsertCommand(x)
        BY <1>1, <1>2, <2>1, CommandIs, TakerFrame DEF TakerCommand
      <4>2. AddToIndex(x) /\ x = w
        <5>1. \/ AddToIndex(x) /\ wpc' = [wpc EXCEPT ![x] = "done"]
              \/ \E pc \in {"number", "value", "guid", "rev", "cut"} :
                    wpc' = [wpc EXCEPT ![x] = pc]
          BY <4>1, NumberIs, AddValueIs, SetGuidIs, SetRevIs, AddToIndexIs, CutInsertIs
             DEF InsertCommand
        <5> QED BY <1>2, <2>1, <5>1 DEF Types, OtherTypes
      <4> QED BY <4>2
    <3> QED BY <3>1, AddToIndexIs
  <2>2. CASE wpc[w] = "done"
    <3>1. w \in Stored(wq[w])
      <4>1. \A t \in Takers : ~Adding(t, w)
        BY <1>1, <1>2, HeldHere, TakerIs
      <4> QED BY <1>1, <1>2, <2>2, <4>1, StoredGrows
    <3>2. Z(wq[w]) # {}
      BY <3>1 DEF Stored, Z
    <3>3. PICK t \in Takers : t = <<"persist", wq[w]>>
      BY <1>2, TakerIs
    <3>4. t[1] = "persist" /\ Queue(t) = wq[w]
      BY <3>3 DEF Queue
    <3>5. \/ QueueKey(wq[w]) \in index[IndexKey(wq[w])]
          \/ tk[t].pc \notin {"idle", "unlock"}
      BY <1>1, <1>2, <2>2, <3>1, <3>3 DEF IndexCovers, Done
    <3>6. CASE tk[t].pc \notin {"idle", "unlock"}
      BY <1>1, <3>2, <3>3, <3>4, <3>6, PersisterStops
    <3>7. CASE QueueKey(wq[w]) \in index[IndexKey(wq[w])]
      <4>1. CASE QueueKey(wq[w]) \in index'[IndexKey(wq[w])]
        BY <4>1
      <4>2. CASE QueueKey(wq[w]) \notin index'[IndexKey(wq[w])]
        <5>1. PICK u \in Takers : Queue(u) = wq[w] /\ (PickQueue(u) \/ RemoveFromIndex(u))
          BY <1>1, <3>7, <4>2, IndexShrinks
        <5>2. CASE RemoveFromIndex(u)
          <6>1. Draining(u)
            BY <5>2, RemoveFromIndexIs DEF Draining, Types
          <6> QED BY <1>1, <3>2, <5>1, <6>1 DEF KeysInd, TakerOK, DrainOK
        <5>3. CASE PickQueue(u)
          <6>1. u[1] = "persist" /\ Go(u, "lock") /\ "lock" \in Pcs
            BY <5>3, GoesIs DEF Types, Pcs
          <6>2. u = t
            BY <3>3, <5>1, <6>1 DEF Takers, Queue
          <6>3. tk'[t].pc = "lock"
            BY <6>1, <6>2, GoIs DEF Types
          <6> QED BY <3>3, <6>3
        <5> QED BY <5>1, <5>2, <5>3
      <4> QED BY <4>1, <4>2
    <3> QED BY <3>5, <3>6, <3>7
  <2> QED BY <2>1, <2>2
<1> QED BY <1>1, <1>2 DEF IndexCovers, Done

-----------------------------------------------------------------------------
(***************************************************************************)
(* The pieces of a payload follow each other.                              *)
(***************************************************************************)
LEMMA ReachedOn ==
    ASSUME NEW s \in Seq(Taken), NEW p \in Taken, NEW v \in Value
    PROVE  /\ Reached(s, v) /\ p.guid # v.guid => Reached(Append(s, p), v)
           /\ p.guid = v.guid /\ p.hi = v.off /\ p.order = v.order + 1 => Reached(Append(s, p), v)
           /\ Reached(s, v) /\ p.guid = v.guid /\ p.lo = v.off + 1
              /\ p.order \in {v.order, Final} => Continues(Append(s, p), Len(s) + 1, p)
<1>1. /\ DOMAIN Append(s, p) = 1..(Len(s) + 1) /\ Len(s) \in Nat /\ Len(Append(s, p)) = Len(s) + 1
      /\ \A i \in 1..Len(s) : Append(s, p)[i] = s[i]
      /\ Append(s, p)[Len(s) + 1] = p
  BY AppendIs
<1>2. PICK a, n : a = Append(s, p) /\ n = Len(s)
  OBVIOUS
<1>3. /\ n \in Nat /\ Len(a) = n + 1 /\ a[n + 1] = p /\ \A i \in 1..n : a[i] = s[i]
  BY <1>1, <1>2
<1>4. ASSUME Reached(s, v), p.guid # v.guid PROVE Reached(a, v)
  <2>1. CASE v.off = 0
    BY <2>1 DEF Reached
  <2>2. CASE v.off # 0
    <3>1. PICK i \in 1..n : /\ s[i].guid = v.guid /\ s[i].hi = v.off /\ s[i].order = v.order + 1
                            /\ \A k \in (i + 1)..n : s[k].guid # v.guid
      BY <1>2, <1>4, <2>2 DEF Reached
    <3>2. i \in 1..(n + 1) /\ \A k \in (i + 1)..(n + 1) : a[k].guid # v.guid
      BY <1>3, <1>4, <3>1
    <3> QED BY <1>3, <3>1, <3>2 DEF Reached
  <2> QED BY <2>1, <2>2
<1>5. ASSUME p.guid = v.guid, p.hi = v.off, p.order = v.order + 1 PROVE Reached(a, v)
  <2>1. n + 1 \in 1..(n + 1) /\ \A k \in (n + 1 + 1)..(n + 1) : FALSE
    BY <1>3
  <2> QED BY <1>3, <1>5, <2>1 DEF Reached
<1>6. ASSUME Reached(s, v), p.guid = v.guid, p.lo = v.off + 1, p.order \in {v.order, Final}
      PROVE  Continues(a, n + 1, p)
  <2>0. v.off \in Nat /\ v.order \in Int /\ n + 1 - 1 = n
    BY <1>3, Bounds DEF Value
  <2>1. CASE v.off = 0
    BY <1>6, <2>0, <2>1 DEF Continues
  <2>2. CASE v.off # 0
    <3>1. PICK i \in 1..n : /\ s[i].guid = v.guid /\ s[i].hi = v.off /\ s[i].order = v.order + 1
                            /\ \A k \in (i + 1)..n : s[k].guid # v.guid
      BY <1>2, <1>6, <2>2 DEF Reached
    <3>2. a[i] = s[i] /\ \A k \in (i + 1)..n : a[k].guid # v.guid
      BY <1>3, <3>1
    <3>3. a[i].order - 1 = v.order
      BY <2>0, <3>1, <3>2
    <3>4. p.order \in {a[i].order - 1, Final}
      BY <1>6, <3>3
    <3>5. a[i].hi = p.lo - 1 /\ a[i].guid = p.guid
      BY <1>6, <2>0, <3>1, <3>2
    <3>6. i \in 1..(n + 1 - 1) /\ \A k \in (i + 1)..(n + 1 - 1) : a[k].guid # p.guid
      BY <1>6, <2>0, <3>1, <3>2
    <3>7. PICK j \in Nat : j = n + 1
      BY <1>3
    <3>8. i \in 1..(j - 1) /\ j - 1 = n
      BY <1>3, <3>1, <3>7
    <3>10. \A k \in (i + 1)..(j - 1) : a[k].guid # p.guid
      BY <1>6, <3>2, <3>8
    <3>9. Continues(a, j, p)
      BY <3>4, <3>5, <3>8, <3>10, Zenon DEF Continues
    <3> QED BY <3>7, <3>9
  <2> QED BY <2>1, <2>2
<1> QED BY <1>2, <1>4, <1>5, <1>6

(* A value comes by an insert, or as the rest of one. *)
LEMMA ValueComes ==
    ASSUME Types, Command, NEW q \in Queues, NEW v \in Z(q)'
    PROVE  \/ v \in Z(q)
           \/ v.off = 0
           \/ \E t \in Takers : AddRest(t) /\ Queue(t) = q
<1>1. ASSUME \A r \in Queues : Z(r)' \subseteq Z(r) PROVE v \in Z(q)
  BY <1>1
<1>2. ASSUME KeepZ PROVE v \in Z(q)
  BY <1>2 DEF KeepZ
<1>3. ASSUME NEW x \in Writers, InsertCommand(x), ~AddValue(x) PROVE v \in Z(q)
  BY <1>2, <1>3, NumberIs, SetGuidIs, SetRevIs, AddToIndexIs, CutInsertIs DEF InsertCommand
<1>4. ASSUME NEW x \in Writers, AddValue(x) PROVE v \in Z(q) \/ v.off = 0
  <2>1. PICK y : y = [id |-> wid[x], guid |-> x, off |-> 0, order |-> 0]
    OBVIOUS
  <2>2. /\ Z(wq[x])' = Z(wq[x]) \cup {y} /\ y.off = 0
        /\ \A p \in Others(wq[x]) : Z(p)' = Z(p)
    BY <1>4, <2>1, AddValueIs
  <2>3. wq' = wq
    BY Frame
  <2> QED BY <2>2, <2>3 DEF Others
<1>5. ASSUME NEW t \in Takers, TakerCommand(t), ~AddRest(t) PROVE v \in Z(q)
  <2>1. CASE Quiet(t) \/ CutTaker(t) \/ DeleteGuid(t) \/ DeleteRev(t) \/ DeleteMetadata(t)
    BY <1>2, <2>1, QuietStore, DeleteGuidIs, DeleteRevIs, DeleteMetadataIs
  <2>2. CASE RemoveById(t) \/ DeleteQueue(t) \/ RemoveOld(t)
    <3>1. /\ Z(Queue(t))' \subseteq Z(Queue(t))
          /\ \A p \in Others(Queue(t)) : Z(p)' = Z(p)
      BY <2>2, RemoveByIdIs, DeleteQueueIs, RemoveOldStore
    <3> QED BY <1>1, <3>1 DEF Others
  <2> QED BY <1>5, <2>1, <2>2 DEF TakerCommand
<1>6. ASSUME NEW t \in Takers, AddRest(t) PROVE v \in Z(q) \/ Queue(t) = q
  <2>1. \A p \in Others(Queue(t)) : Z(p)' = Z(p)
    BY <1>6, AddRestIs
  <2> QED BY <2>1 DEF Others
<1> QED BY <1>3, <1>4, <1>5, <1>6, CommandIs DEF TakerCommand

(* A taker holds what it read in its queue. *)
LEMMA HeldComes ==
    ASSUME Types, KeysInd, Command, NEW t \in Takers
    PROVE  tk'[t].held \in {tk[t].held, NoValue} \cup Z(Queue(t))
<1>0. TakerTypes /\ StoreTypes
  BY DEF Types
<1>1. CASE tk'[t] = tk[t]
  BY <1>1
<1>2. CASE tk'[t] # tk[t]
  <2>1. TakerCommand(t)
    <3>1. ~\E x \in Writers : InsertCommand(x)
      BY <1>2, InsertLater
    <3> QED BY <1>2, <3>1, CommandIs, TakerFrame DEF TakerCommand, Moves
  <2>2. CASE Quiet(t)
    <3>1. CASE CheckLock(t) \/ ReadIndex(t) \/ PickQueue(t) \/ SetLock(t) \/ ReleaseLock(t)
      BY <1>0, <3>1, GoesIs, GoIs
    <3>2. CASE Card(t) \/ RemoveFromIndex(t)
      BY <1>0, <3>2, CardIs, RemoveFromIndexIs, CallDoneIs
    <3>3. CASE FindOld(t)
      <4>1. CASE tk'[t].held = NoValue
        BY <4>1
      <4>2. CASE tk'[t].held # NoValue
        <5>1. PICK v \in Z(Queue(t)) :
                v.id = tk[t].id /\ tk'[t].held = [tk[t].held EXCEPT !.order = v.order]
          BY <1>0, <3>3, <4>2, FindOldIs
        <5>2. tk[t].pc = "old"
          BY <1>0, <3>3, FindOldIs
        <5>3. tk[t].held \in Z(Queue(t)) /\ tk[t].id = tk[t].held.id
          BY <5>2 DEF KeysInd, TakerOK, UpdateOK
        <5>4. v = tk[t].held /\ v \in Value
          BY <1>0, <5>1, <5>3, TakerIs, IdsDiffer DEF KeysInd, StoreTypes
        <5>5. tk'[t].held = v
          BY <5>1, <5>4 DEF Value
        <5> QED BY <5>5
      <4> QED BY <4>1, <4>2
    <3>4. CASE LookupGuid(t) \/ RangeById(t) \/ ReadMessages(t)
      BY <1>0, <3>4, LookupGuidIs, RangeByIdIs, ReadMessagesIs
    <3>5. CASE (\E w \in Writers : RemoveAnswered(t, w)) \/ ReadChunks(t) \/ FindGuid(t)
               \/ \E n \in Amounts : ReadFirst(t, n)
      BY <1>0, <3>5, RemoveAnsweredIs, ReadChunksIs, ReadFirstIs, FindGuidIs
    <3> QED BY <2>2, <3>1, <3>2, <3>3, <3>4, <3>5 DEF Quiet
  <2>3. CASE RemoveById(t) \/ DeleteGuid(t) \/ DeleteQueue(t) \/ DeleteMetadata(t)
    BY <1>0, <2>3, GoesIs, GoIs
  <2>4. CASE DeleteRev(t)
    <3>1. Removes(t) /\ GuidDone(t)
      BY <2>4, DeleteRevIs DEF Removes, At
    <3> QED BY <1>0, <3>1, GuidDoneIs
  <2>5. CASE RemoveOld(t) \/ AddRest(t) \/ CutTaker(t)
    BY <2>5, RemoveOldIs, AddRestIs, CutTakerIs
  <2> QED BY <2>1, <2>2, <2>3, <2>4, <2>5 DEF TakerCommand
<1> QED BY <1>1, <1>2

(* Only one taker takes a piece in a step. *)
LEMMA OneTakes ==
    ASSUME Types, KeysInd, Command, NEW t \in Takers, AddRest(t), NEW u \in Takers, NEW p, Takes(u, p)
    PROVE  u = t
<1>1. Moves(t)
  BY AddRestIs
<1>2. tk'[u].held # tk[u].held
  BY Bounds DEF Takes
<1> QED BY <1>1, <1>2 DEF Moves

LEMMA ProgressStep ==
    ASSUME Types, Types', KeysInd, Command, Progress
    PROVE  Progress'
<1>0. out \in [Queues -> Seq(Taken)]
  BY DEF Types, OtherTypes
<1>1. ASSUME NEW q \in Queues \ MessageQueues, out'[q] = out[q],
             \A t \in Takers : AddRest(t) => Queue(t) # q
      PROVE  /\ \A v \in Z(q)' : Reached(out'[q], v)
             /\ \A t \in Takers : Queue(t) = q /\ tk'[t].held # NoValue => Reached(out'[q], tk'[t].held)
  <2>1. \A v \in Z(q)' : Reached(out[q], v)
    BY <1>1, ValueComes DEF Progress, Reached
  <2>2. ASSUME NEW t \in Takers, Queue(t) = q, tk'[t].held # NoValue PROVE Reached(out[q], tk'[t].held)
    <3>1. tk'[t].held = tk[t].held \/ tk'[t].held \in Z(q)
      BY <2>2, HeldComes
    <3> QED BY <1>1, <2>2, <3>1 DEF Progress
  <2> QED BY <1>1, <2>1, <2>2
<1>2. ASSUME NEW q \in Queues \ MessageQueues
      PROVE  /\ \A v \in Z(q)' : Reached(out'[q], v)
             /\ \A t \in Takers : Queue(t) = q /\ tk'[t].held # NoValue => Reached(out'[q], tk'[t].held)
  <2>1. CASE out' = out
    <3>1. ASSUME NEW t \in Takers, AddRest(t) PROVE FALSE
      <4>1. PICK p \in Taken : out' = [out EXCEPT ![Queue(t)] = Append(@, p)]
        BY <3>1, AddRestIs
      <4>2. Queue(t) \in Queues
        BY TakerIs
      <4>3. PICK s \in Seq(Taken) : s = out[Queue(t)]
        BY <1>0, <4>2
      <4>4. Append(s, p) # s
        BY <4>3
      <4> QED BY <1>0, <2>1, <4>1, <4>2, <4>3, <4>4
    <3> QED BY <1>1, <2>1, <3>1
  <2>2. CASE out' # out
    <3>1. PICK t \in Takers, p \in Taken : Takes(t, p)
      BY <2>2, TakesIs
    <3>2. CASE q # Queue(t)
      <4>1. out'[q] = out[q]
        BY <1>0, <3>1, <3>2 DEF Takes
      <4> QED BY <1>1, <3>1, <3>2, <4>1, OneTakes
    <3>3. CASE q = Queue(t)
      <4>1. out'[q] = Append(out[q], p) /\ out[q] \in Seq(Taken) /\ p.guid \notin Stored(q)
        BY <1>0, <3>1, <3>3 DEF Takes
      <4>2. ASSUME NEW v \in Z(q) PROVE Reached(out'[q], v)
        <5>1. v.guid # p.guid /\ v \in Value
          BY <4>1 DEF Stored, Z, Types, StoreTypes
        <5> QED BY <4>1, <5>1, ReachedOn DEF Progress
      <4>3. ASSUME NEW u \in Takers, Queue(u) = q, tk'[u].held # NoValue PROVE FALSE
        <5>1. u = t
          BY <3>3, <4>3, TakerIs
        <5> QED BY <3>1, <4>3, <5>1 DEF Takes
      <4>4. CASE DeleteRev(t) /\ KeepZ
        BY <4>2, <4>3, <4>4 DEF KeepZ
      <4>5. CASE AddRest(t)
        <5>1. PICK rest \in Value :
                /\ rest.guid = tk[t].held.guid /\ rest.order = tk[t].held.order - 1
                /\ Z(Queue(t))' = Z(Queue(t)) \cup {rest}
                /\ Piece(tk[t].held, rest.off, tk[t].held.order) \in Taken
                /\ out' = [out EXCEPT ![Queue(t)] =
                             Append(@, Piece(tk[t].held, rest.off, tk[t].held.order))]
          BY <4>5, AddRestIs
        <5>2. PICK r \in Taken : r = Piece(tk[t].held, rest.off, tk[t].held.order)
          BY <5>1
        <5>3. r.guid = rest.guid /\ r.hi = rest.off /\ r.order = tk[t].held.order
          BY <5>1, <5>2 DEF Piece
        <5>4. tk[t].held.order \in Int
          <6>1. tk[t].held \in Value
            BY <4>5, AddRestIs
          <6> QED BY <6>1 DEF Value
        <5>5. r.order = rest.order + 1
          BY <5>1, <5>3, <5>4
        <5>6. out'[q] = Append(out[q], r)
          BY <1>0, <3>3, <5>1, <5>2
        <5>7. Reached(out'[q], rest)
          BY <4>1, <5>3, <5>5, <5>6, ReachedOn
        <5>8. Z(q)' = Z(q) \cup {rest}
          <6>1. Queue(t)' = Queue(t)
            BY DEF Queue
          <6> QED BY <3>3, <5>1, <6>1
        <5> QED BY <4>2, <4>3, <5>7, <5>8
      <4> QED BY <3>1, <4>4, <4>5 DEF Takes
    <3> QED BY <3>2, <3>3
  <2> QED BY <2>1, <2>2
<1>3. ASSUME NEW q \in Queues \ MessageQueues, NEW t \in Takers, Queue(t)' = q
      PROVE  Queue(t) = q
  BY <1>3 DEF Queue
<1> QED BY <1>2, <1>3 DEF Progress

-----------------------------------------------------------------------------
(***************************************************************************)
(* Nothing is taken before what was inserted before it.                    *)
(***************************************************************************)
(* What settles a writer stays. *)
LEMMA SettledStays ==
    ASSUME Types, KeysInd, Command, NEW w \in Writers, wpc[w] # "new"
    PROVE  /\ earlier'[w] = earlier[w] /\ earlier[w] \subseteq Writers
           /\ \A y \in earlier[w] : (y \in cut => y \in cut') /\ (Gone(y) => Gone(y)')
           /\ Settled(w) => Settled(w)'
<1>1. earlier'[w] = earlier[w] /\ earlier[w] \subseteq Writers /\ wq' = wq /\ cut \subseteq cut'
  BY Frame DEF Types, OtherTypes
<1>2. \A y \in earlier[w] : Gone(y) => Gone(y)'
  BY <1>1, GoneGrows
<1> QED BY <1>1, <1>2 DEF Settled

(* What is taken now was settled. *)
LEMMA TakesSettled ==
    ASSUME Types, KeysInd, InFront, NEW t \in Takers, NEW p, Takes(t, p),
           Queue(t) \notin MessageQueues
    PROVE  Settled(p.guid) /\ p.guid \in Writers
<1>1. t[1] \in {"stream", "page"} /\ p.guid \in Writers
  <2>1. p.guid \in Writers
    BY DEF Takes, Value
  <2> QED BY <2>1, TakerIs
<1>2. CASE Adding(t, p.guid)
  BY <1>1, <1>2 DEF InFront, HeldSettled, Adding, Updates, At
<1>3. CASE Removing(t, p.guid)
  <2>1. HoldsId(t) /\ Guid(t) = p.guid /\ Live(Guid(t)) /\ Removes(t)
    BY <1>1, <1>3, HeldHere DEF HoldsId, Removes
  <2>2. Guid(t) = tk[t].todo[1] /\ 1 \in DOMAIN tk[t].todo
    BY <2>1, TodoHere DEF Types
  <2>3. SettledBefore(tk[t].todo, 1)
    BY <1>1, <2>1, <2>2 DEF InFront, TodoSettled
  <2>4. \A j \in 1..(1 - 1) : FALSE
    OBVIOUS
  <2> QED BY <1>1, <2>1, <2>2, <2>3, <2>4 DEF SettledBefore, Settled
<1> QED BY <1>1, <1>2, <1>3 DEF Takes

(* A queue's pieces: as before, or one more. *)
LEMMA OutIs ==
    ASSUME Types, KeysInd, Command, NEW q \in Queues
    PROVE  /\ out[q] \in Seq(Taken) /\ Len(out[q]) \in Nat /\ DOMAIN out[q] = 1..Len(out[q])
           /\ \/ out'[q] = out[q]
              \/ \E t \in Takers, p \in Taken :
                   /\ Takes(t, p) /\ Queue(t) = q /\ out'[q] = Append(out[q], p)
                   /\ Len(out'[q]) = Len(out[q]) + 1 /\ DOMAIN out'[q] = 1..(Len(out[q]) + 1)
                   /\ \A i \in 1..Len(out[q]) : out'[q][i] = out[q][i]
                   /\ out'[q][Len(out[q]) + 1] = p
<1>0. out \in [Queues -> Seq(Taken)]
  BY DEF Types, OtherTypes
<1>1. PICK s \in Seq(Taken) : s = out[q]
  BY <1>0
<1>2. CASE out'[q] = out[q]
  BY <1>1, <1>2
<1>3. CASE out'[q] # out[q]
  <2>1. PICK t \in Takers, p \in Taken : Takes(t, p)
    BY <1>3, TakesIs
  <2>2. q = Queue(t) /\ out'[q] = Append(s, p)
    BY <1>0, <1>1, <1>3, <2>1 DEF Takes
  <2>3. /\ DOMAIN Append(s, p) = 1..(Len(s) + 1) /\ Len(s) \in Nat /\ DOMAIN s = 1..Len(s)
        /\ \A i \in 1..Len(s) : Append(s, p)[i] = s[i]
        /\ Append(s, p)[Len(s) + 1] = p /\ Len(Append(s, p)) = Len(s) + 1
    BY AppendIs
  <2> QED BY <1>1, <2>1, <2>2, <2>3
<1> QED BY <1>2, <1>3

(* Whose pieces they are. *)
LEMMA OutGuids ==
    ASSUME Types, GoneIs, NEW q \in Queues, NEW i \in DOMAIN out[q]
    PROVE  /\ out[q][i].guid \in Writers /\ wpc[out[q][i].guid] \notin {"new", "number"}
           /\ wq[out[q][i].guid] = q
<1>1. out[q][i] \in Taken
  <2>1. PICK s \in Seq(Taken) : s = out[q]
    BY DEF Types, OtherTypes
  <2> QED BY <2>1
<1> QED BY <1>1 DEF Taken, GoneIs

LEMMA OutSettledStep ==
    ASSUME Types, KeysInd, Command, GoneIs, InFront, OutSettled
    PROVE  OutSettled'
<1>1. ASSUME NEW q \in Queues \ MessageQueues, NEW i \in DOMAIN out'[q]
      PROVE  \E g \in Writers : g = out'[q][i].guid /\ Settled(g)'
  <2>1. ASSUME i \in DOMAIN out[q], out'[q][i] = out[q][i]
        PROVE  \E g \in Writers : g = out'[q][i].guid /\ Settled(g)'
    <3>1. PICK g \in Writers : g = out[q][i].guid /\ wpc[g] # "new"
      BY <2>1, OutGuids
    <3>2. Settled(g)
      BY <2>1, <3>1 DEF OutSettled
    <3> QED BY <2>1, <3>1, <3>2, SettledStays
  <2>2. CASE out'[q] = out[q]
    BY <1>1, <2>1, <2>2
  <2>3. CASE out'[q] # out[q]
    <3>1. PICK t \in Takers, p \in Taken :
            /\ Takes(t, p) /\ Queue(t) = q
            /\ DOMAIN out'[q] = 1..(Len(out[q]) + 1)
            /\ \A k \in 1..Len(out[q]) : out'[q][k] = out[q][k]
            /\ out'[q][Len(out[q]) + 1] = p
      BY <2>3, OutIs
    <3>2. Len(out[q]) \in Nat /\ DOMAIN out[q] = 1..Len(out[q])
      BY OutIs
    <3>3. CASE i = Len(out[q]) + 1
      <4>1. Settled(p.guid) /\ p.guid \in Writers /\ wpc[p.guid] # "new"
        BY <3>1, TakesSettled DEF Takes
      <4> QED BY <3>1, <3>3, <4>1, SettledStays
    <3>4. CASE i # Len(out[q]) + 1
      BY <1>1, <2>1, <3>1, <3>2, <3>4
    <3> QED BY <3>3, <3>4
  <2> QED BY <2>2, <2>3
<1> QED BY <1>1 DEF OutSettled, Settled

LEMMA PiecesStep ==
    ASSUME Types, KeysInd, Command, GoneIs, InFront, OutSettled, Progress, Pieces
    PROVE  Pieces'
<1>1. cut \subseteq cut' /\ wq' = wq
  BY Frame
<1>2. ASSUME NEW q \in Queues \ MessageQueues, NEW j \in 1..Len(out'[q])
      PROVE  PieceOK(q, j)'
  <2>0. Len(out[q]) \in Nat /\ DOMAIN out[q] = 1..Len(out[q]) /\ out[q] \in Seq(Taken)
    BY OutIs
  <2>1. \A i \in 1..Len(out[q]) : earlier'[out[q][i].guid] = earlier[out[q][i].guid]
    BY <2>0, OutGuids, SettledStays
  <2>2. ASSUME j \in 1..Len(out[q]), \A i \in 1..Len(out[q]) : out'[q][i] = out[q][i]
        PROVE  PieceOK(q, j)'
    <3>1. PieceOK(q, j)
      BY <2>2 DEF Pieces
    <3>2. \A i \in 1..(j - 1) : i \in 1..Len(out[q])
      BY <2>0, <2>2
    <3>3. \A i \in 1..(j - 1) : /\ out'[q][i] = out[q][i]
                                 /\ earlier'[out'[q][i].guid] = earlier[out[q][i].guid]
      BY <2>1, <2>2, <3>2
    <3>4. out'[q][j] = out[q][j]
      BY <2>2
    <3>5. \A i \in 1..(j - 1) : \A k \in (i + 1)..(j - 1) : k \in 1..(j - 1)
      BY <2>0, <2>2
    <3>6. Continues(out'[q], j, out'[q][j])
      BY <3>1, <3>3, <3>4, <3>5 DEF PieceOK, Continues
    <3> QED BY <1>1, <3>1, <3>3, <3>4, <3>6 DEF PieceOK
  <2>3. CASE out'[q] = out[q]
    BY <1>2, <2>2, <2>3
  <2>4. CASE out'[q] # out[q]
    <3>1. PICK t \in Takers, p \in Taken :
            /\ Takes(t, p) /\ Queue(t) = q /\ out'[q] = Append(out[q], p)
            /\ Len(out'[q]) = Len(out[q]) + 1
            /\ \A k \in 1..Len(out[q]) : out'[q][k] = out[q][k]
            /\ out'[q][Len(out[q]) + 1] = p
      BY <2>4, OutIs
    <3>2. CASE j # Len(out[q]) + 1
      BY <1>2, <2>0, <2>2, <3>1, <3>2
    <3>3. CASE j = Len(out[q]) + 1
      <4>1. p.guid \in Writers /\ ~Gone(p.guid) /\ wq[p.guid] = q
        <5>1. p.guid \in Writers /\ wq[p.guid] = q
          BY <3>1, TakesSettled DEF Takes
        <5>2. Adding(t, p.guid) \/ Carrying(t, p.guid)
          BY <3>1 DEF Takes, Removing, Carrying
        <5> QED BY <5>1, <5>2 DEF GoneIs
      <4>2. Continues(out'[q], j, p)
        <5>1. tk[t].held \in Value /\ tk[t].held # NoValue
          BY <3>1, Bounds DEF Takes
        <5>2. Reached(out[q], tk[t].held)
          BY <3>1, <5>1 DEF Progress
        <5> QED BY <2>0, <3>1, <3>3, <5>1, <5>2, ReachedOn DEF Takes
      <4>3. ASSUME NEW i \in 1..(j - 1)
            PROVE  /\ p.guid \in earlier'[out'[q][i].guid] => p.guid \in cut'
                   /\ out'[q][i].guid = p.guid => out'[q][i].order # Final
        <5>1. i \in DOMAIN out[q] /\ out'[q][i] = out[q][i]
          BY <2>0, <3>1, <3>3
        <5>2. Settled(out[q][i].guid) /\ wq[out[q][i].guid] = q
          BY <5>1, OutGuids DEF OutSettled
        <5>3. p.guid \in earlier[out[q][i].guid] => p.guid \in cut
          BY <4>1, <5>2 DEF Settled
        <5>4. out[q][i].guid = p.guid => out[q][i].order # Final
          BY <4>1, <5>1 DEF Gone
        <5> QED BY <1>1, <2>0, <2>1, <5>1, <5>3, <5>4
      <4>4. out'[q][j] = p
        BY <3>1, <3>3
      <4> QED BY <4>2, <4>3, <4>4 DEF PieceOK
    <3> QED BY <3>2, <3>3
  <2> QED BY <2>3, <2>4
<1> QED BY <1>2 DEF Pieces

(* What was inserted before a value lies before it. *)
LEMMA EarlierValue ==
    ASSUME Types, KeysInd, NEW t \in Takers, t[1] \in {"stream", "page"}, tk[t].pc = "idle",
           NEW v \in Z(Queue(t)), NEW y \in earlier[v.guid], wq[y] = Queue(t),
           y \notin cut, ~Gone(y)
    PROVE  /\ In(y) /\ wpc[y] = "done" /\ y \in Writers
           /\ \E x \in Z(Queue(t)) : x.guid = y /\ x.id = wid[y] /\ x.id < v.id
<1>0. Numbers /\ Values /\ Rising /\ EarlierDone /\ AllKept /\ Queue(t) \in Queues
  BY TakerIs DEF KeysInd
<1>1. v.guid \in Writers /\ wq[v.guid] = Queue(t) /\ v.id = wid[v.guid] /\ Live(v.guid)
  BY <1>0, IdsDiffer
<1>2. y \in Writers /\ wpc[y] = "done"
  BY <1>0, <1>1 DEF EarlierDone, Types, OtherTypes
<1>3. Kept(y)
  BY <1>0, <1>2 DEF AllKept
<1>4. ASSUME NEW u \in Takers, Adding(u, y) \/ Removing(u, y) PROVE FALSE
  <2>1. u = t
    BY <1>2, <1>4, HeldHere, TakerIs
  <2> QED BY <1>4, <2>1 DEF Adding, Removing, At
<1>5. y \in Stored(wq[y]) /\ In(y)
  BY <1>3, <1>4 DEF Kept
<1>6. PICK x \in Z(Queue(t)) : x.guid = y
  BY <1>5 DEF Stored, Z
<1>7. x.id = wid[y] /\ Live(y)
  BY <1>0, <1>6, IdsDiffer
<1>8. x.id < v.id
  BY <1>0, <1>1, <1>2, <1>7 DEF Rising
<1> QED BY <1>2, <1>5, <1>6, <1>7, <1>8

LEMMA FirstSettled ==
    ASSUME Types, KeysInd, NEW t \in Takers, t[1] \in {"stream", "page"}, tk[t].pc = "idle",
           NEW v \in Z(Queue(t)), \A u \in Z(Queue(t)) : v.id <= u.id
    PROVE  Settled(v.guid)
<1>0. Queue(t) \in Queues /\ v.id \in Nat /\ \A u \in Z(Queue(t)) : u.id \in Nat
  BY TakerIs DEF Types, StoreTypes, Value
<1>1. wq[v.guid] = Queue(t)
  BY <1>0 DEF KeysInd, Values
<1>2. ASSUME NEW y \in earlier[v.guid], wq[y] = Queue(t), y \notin cut, ~Gone(y) PROVE FALSE
  BY <1>0, <1>2, EarlierValue
<1> QED BY <1>1, <1>2 DEF Settled

(* The guids of a page of chunks. *)
LEMMA PageSettled ==
    ASSUME Types, KeysInd, NEW t \in Takers, ReadChunks(t), NEW i \in DOMAIN tk'[t].todo,
           Live(tk'[t].todo[i]), tk'[t].todo # tk[t].todo
    PROVE  SettledBefore(tk'[t].todo, i)
<1>0. /\ Numbers /\ Values /\ Fields /\ Queue(t) \in Queues /\ tk[t].pc = "idle" /\ t[1] = "page"
      /\ TakerTypes /\ StoreTypes
  BY TakerIs, ReadChunksIs DEF KeysInd, Types
<1>1. PICK s : s = tk'[t].todo
  OBVIOUS
<1>2. PICK page \in Seq(Z(Queue(t))) :
        /\ DOMAIN page = DOMAIN s
        /\ \A k \in DOMAIN page :
             /\ page[k] \in Z(Queue(t)) /\ page[k].id \in DOMAIN R(Queue(t))
             /\ s[k] = R(Queue(t))[page[k].id]
             /\ \A u \in Z(Queue(t)) :
                  Precedes(u, page[k]) /\ u.id \in DOMAIN R(Queue(t)) =>
                      \E j \in 1..(k - 1) : page[j] = u
  BY <1>0, <1>1, ReadChunksIs
<1>3. i \in DOMAIN page /\ Live(s[i]) /\ DOMAIN page = 1..Len(page) /\ Len(page) \in Nat
  BY <1>1, <1>2
<1>4. \A k \in DOMAIN page : /\ wq[s[k]] = Queue(t) /\ wid[s[k]] = page[k].id
                             /\ s[k] \in Writers
  BY <1>0, <1>2 DEF Fields, StoreTypes
<1>5. s[i] = page[i].guid /\ page[i] \in Z(Queue(t))
  BY <1>0, <1>2, <1>3, <1>4, IdsDiffer
<1>6. ASSUME NEW y \in earlier[s[i]], wq[y] = wq[s[i]], y \notin cut, ~Gone(y)
      PROVE  \E j \in 1..(i - 1) : s[j] = y
  <2>1. wq[y] = Queue(t)
    BY <1>3, <1>4, <1>6
  <2>2. /\ In(y) /\ wpc[y] = "done"
        /\ \E x \in Z(Queue(t)) : x.guid = y /\ x.id = wid[y] /\ x.id < page[i].id
    BY <1>0, <1>5, <1>6, <2>1, EarlierValue
  <2>3. PICK x \in Z(Queue(t)) : x.guid = y /\ x.id = wid[y] /\ x.id < page[i].id
    BY <2>2
  <2>4. x.id \in DOMAIN R(Queue(t)) /\ R(Queue(t))[x.id] = y
    BY <2>1, <2>2, <2>3 DEF In
  <2>5. Precedes(x, page[i])
    BY <2>3 DEF Precedes
  <2>6. PICK j \in 1..(i - 1) : page[j] = x
    BY <1>2, <1>3, <2>4, <2>5
  <2>7. j \in DOMAIN page
    BY <1>3, <2>6
  <2>8. s[j] = y
    BY <1>2, <2>4, <2>6, <2>7
  <2> QED BY <2>6, <2>8
<1> QED BY <1>1, <1>6 DEF SettledBefore

LEMMA HeldSettledStep ==
    ASSUME Types, KeysInd, Command, NEW t \in Takers, t[1] \in {"stream", "page"}, HeldSettled(t)
    PROVE  HeldSettled(t)'
<1>0. TakerTypes /\ StoreTypes /\ UpdateOK(t) /\ Values
  BY DEF Types, KeysInd, TakerOK
<1>1. ASSUME NEW v \in Z(Queue(t)), tk'[t].held.guid = v.guid, Settled(v.guid)
      PROVE  HeldSettled(t)'
  <2>1. v.guid \in Writers /\ wpc[v.guid] # "new"
    BY <1>0, TakerIs DEF Values, StoreTypes, Value
  <2>2. PICK g \in Writers : g = v.guid /\ Settled(g)'
    BY <1>1, <2>1, SettledStays
  <2> QED BY <1>1, <2>2 DEF HeldSettled, Settled
<1>2. ASSUME tk'[t].pc \notin {"old", "zrem", "zadd", "guid"} PROVE HeldSettled(t)'
  BY <1>2 DEF HeldSettled, Updates, At
<1>3. CASE tk'[t] = tk[t]
  <2>1. CASE tk[t].pc \in {"old", "zrem", "guid"}
    <3>1. tk[t].held \in Z(Queue(t)) /\ Settled(tk[t].held.guid)
      BY <1>0, <2>1 DEF UpdateOK, HeldSettled, Updates, At
    <3> QED BY <1>1, <1>3, <3>1
  <2>2. CASE tk[t].pc = "zadd"
    <3>1. Settled(tk[t].held.guid) /\ wpc[tk[t].held.guid] # "new"
      BY <1>0, <2>2 DEF UpdateOK, HeldSettled, Updates, At
    <3>2. tk[t].held \in Value
      BY <1>0, <2>2, RecordIs DEF TakerTyped, Updates
    <3>3. PICK g \in Writers : g = tk[t].held.guid
      BY <3>2 DEF Value
    <3>4. Settled(g)'
      BY <3>1, <3>3, SettledStays
    <3> QED BY <1>3, <3>3, <3>4 DEF HeldSettled, Settled
  <2> QED BY <1>2, <1>3, <2>1, <2>2
<1>4. CASE tk'[t] # tk[t]
  <2>1. TakerCommand(t)
    <3>1. ~\E x \in Writers : InsertCommand(x)
      BY <1>4, InsertLater
    <3> QED BY <1>4, <3>1, CommandIs, TakerFrame DEF TakerCommand, Moves
  <2>2. CASE Quiet(t)
    <3>1. CASE CheckLock(t) \/ ReadIndex(t) \/ PickQueue(t) \/ SetLock(t) \/ ReleaseLock(t)
      BY <1>0, <3>1, GoesIs
    <3>2. CASE Card(t) \/ RemoveFromIndex(t)
      BY <1>0, <1>2, <3>2, CardIs, RemoveFromIndexIs, CallDoneIs
    <3>3. CASE FindOld(t)
      <4>1. tk[t].pc = "old"
        BY <1>0, <3>3, FindOldIs
      <4>2. tk[t].held \in Z(Queue(t)) /\ Settled(tk[t].held.guid)
        BY <1>0, <4>1 DEF UpdateOK, HeldSettled, Updates, At
      <4>3. CASE tk'[t].pc = "idle"
        BY <1>2, <4>3
      <4>4. CASE tk'[t].pc # "idle"
        <5>1. \E o : tk'[t].held = [tk[t].held EXCEPT !.order = o]
          BY <1>0, <3>3, <4>4, FindOldIs
        <5>2. tk[t].held \in Value
          BY <1>0, <4>2, TakerIs DEF StoreTypes
        <5>3. tk'[t].held.guid = tk[t].held.guid
          BY <5>1, <5>2 DEF Value
        <5> QED BY <1>1, <4>2, <5>3
      <4> QED BY <4>3, <4>4
    <3>4. CASE LookupGuid(t) \/ RangeById(t) \/ ReadMessages(t)
      BY <1>0, <1>2, <3>4, LookupGuidIs, RangeByIdIs, ReadMessagesIs
    <3>5. CASE (\E w \in Writers : RemoveAnswered(t, w)) \/ ReadChunks(t) \/ FindGuid(t)
      BY <1>0, <1>2, <3>5, RemoveAnsweredIs, ReadChunksIs, FindGuidIs
    <3>6. CASE \E n \in Amounts : ReadFirst(t, n)
      <4>1. /\ tk[t].pc = "idle" /\ tk'[t].held \in Z(Queue(t))
            /\ \A u \in Z(Queue(t)) : tk'[t].held.id <= u.id
        BY <1>0, <3>6, ReadFirstIs
      <4> QED BY <1>1, <4>1, FirstSettled
    <3> QED BY <2>2, <3>1, <3>2, <3>3, <3>4, <3>5, <3>6 DEF Quiet
  <2>3. CASE RemoveById(t) \/ DeleteGuid(t) \/ DeleteQueue(t) \/ DeleteMetadata(t)
    <3>1. tk'[t].pc \in {"hdel", "hdelrev", "delmeta", "unindex"}
      BY <1>0, <2>3, GoesIs, GoIs
    <3> QED BY <1>2, <3>1
  <2>4. CASE DeleteRev(t)
    <3>1. Removes(t) /\ GuidDone(t)
      BY <2>4, DeleteRevIs DEF Removes, At
    <3>2. tk'[t].pc \in {"remove", "card"}
      BY <1>0, <3>1, GuidDoneIs
    <3> QED BY <1>2, <3>2
  <2>5. CASE RemoveOld(t)
    <3>1. tk[t].pc = "zrem"
      BY <2>5, RemoveOldIs
    <3>2. tk[t].held \in Z(Queue(t)) /\ Settled(tk[t].held.guid)
      BY <1>0, <3>1 DEF UpdateOK, HeldSettled, Updates, At
    <3>3. tk'[t].pc = "idle" \/ tk'[t].held = tk[t].held
      BY <2>5, RemoveOldIs
    <3> QED BY <1>1, <1>2, <3>2, <3>3
  <2>6. CASE AddRest(t) \/ CutTaker(t)
    BY <1>2, <2>6, AddRestIs, CutTakerIs
  <2> QED BY <2>1, <2>2, <2>3, <2>4, <2>5, <2>6 DEF TakerCommand
<1> QED BY <1>3, <1>4

LEMMA TodoFrom ==
    ASSUME Types, KeysInd, LiveStays, Command, NEW t \in Takers, NEW s, tk'[t].todo = s,
           \A i \in DOMAIN s : /\ s[i] \in Writers /\ wpc[s[i]] # "new"
                               /\ Live(s[i]) => SettledBefore(s, i)
    PROVE  TodoSettled(t)'
<1>1. wq' = wq
  BY Frame
<1>2. ASSUME NEW i \in DOMAIN s, Live(s[i])',
             NEW y \in earlier'[s[i]], wq[y] = wq[s[i]], y \notin cut', ~Gone(y)'
      PROVE  \E j \in 1..(i - 1) : s[j] = y
  <2>1. PICK g \in Writers : g = s[i] /\ wpc[g] # "new"
    OBVIOUS
  <2>2. Live(g)
    BY <1>2, <2>1 DEF LiveStays
  <2>3. y \in earlier[g] /\ y \notin cut /\ ~Gone(y)
    BY <1>2, <2>1, SettledStays
  <2> QED BY <1>2, <2>1, <2>2, <2>3 DEF SettledBefore
<1> QED BY <1>1, <1>2 DEF TodoSettled, SettledBefore

(* A guid that is done with is gone. *)
LEMMA HeadGone ==
    ASSUME Types, Types', KeysInd, KeysInd', Command, GoneIs, NEW t \in Takers,
           t[1] \in {"stream", "page"}, Removes(t), GuidDone(t),
           LookupGuid(t) \/ DeleteRev(t), NEW g \in Writers, g = Guid(t),
           wpc[g] = "done", g \notin cut'
    PROVE  Gone(g)'
<1>2. wq' = wq /\ wpc' = wpc /\ cut' = cut /\ KeepZ
  BY Frame, DeleteRevIs, QuietStore, QuietTypes DEF Quiet
<1>3. wq[g] = Queue(t) /\ Queue(t) \in Queues
  BY TodoHere, TakerIs DEF Types, KeysInd, TakerOK, TodoOK
<1>4. g \notin Stored(Queue(t))
  <2>1. CASE DeleteRev(t)
    <3>1. tk[t].pc = "hdelrev"
      BY <2>1, DeleteRevIs DEF At
    <3> QED BY <3>1 DEF KeysInd, TakerOK, RemoveOK
  <2>2. CASE LookupGuid(t)
    <3>1. g \notin DOMAIN M(Queue(t))
      <4>1. tk'[t].pc # "range"
        BY GuidDoneIs DEF Types
      <4> QED BY <2>2, <4>1, LookupGuidIs DEF Types
    <3> QED BY <1>2, <1>3, <3>1, StoredIsIn
  <2> QED BY <2>1, <2>2
<1>5. g \notin Stored(wq[g])'
  BY <1>2, <1>3, <1>4, KeepStored
<1>6. (Types /\ KeysInd => HandsHere)'
  BY CarryingHere, PTL
<1>7. tk'[t].pc \in {"remove", "card"}
  BY GuidDoneIs DEF Types
<1>8. ASSUME NEW u \in Takers, Adding(u, g)' \/ Removing(u, g)' PROVE FALSE
  <2>1. Adding(u, g)' \/ Carrying(u, g)'
    BY <1>8 DEF Removing, Carrying
  <2>2. wq'[g] = Queue(u)'
    BY <1>6, <2>1 DEF HandsHere
  <2>3. Queue(u) = Queue(t)
    BY <1>2, <1>3, <2>2 DEF Queue
  <2>4. u = t
    BY <2>3, TakerIs
  <2> QED BY <1>7, <2>1, <2>4 DEF Adding, Carrying, At
<1>9. Kept(g)'
  BY <1>2 DEF KeysInd, AllKept
<1> QED BY <1>5, <1>8, <1>9 DEF Kept

LEMMA TailSettled ==
    ASSUME Types, Types', KeysInd, KeysInd', LiveStays, Command, GoneIs, NEW t \in Takers,
           t[1] \in {"stream", "page"}, Removes(t), GuidDone(t),
           LookupGuid(t) \/ DeleteRev(t), TodoSettled(t)
    PROVE  TodoSettled(t)'
<1>1. PICK s \in Seq(Writers) : s = tk[t].todo /\ s # <<>>
  BY TodoHere DEF Types
<1>2. /\ Len(Tail(s)) = Len(s) - 1 /\ Len(s) \in Nat \ {0} /\ Tail(s) \in Seq(Writers)
      /\ \A i \in 1..(Len(s) - 1) : Tail(s)[i] = s[i + 1]
  BY <1>1, HeadTailIs
<1>3. tk'[t].todo = Tail(s) /\ Guid(t) = s[1]
  BY <1>1, GuidDoneIs, TodoHere DEF Types
<1>4. PICK r \in Seq(Writers) : r = Tail(s)
  BY <1>2
<1>5. /\ DOMAIN r = 1..(Len(s) - 1) /\ DOMAIN s = 1..Len(s)
      /\ \A i \in 1..(Len(s) - 1) : r[i] = s[i + 1]
  BY <1>2, <1>4
<1>6. wq' = wq /\ \A i \in DOMAIN s : s[i] \in Writers /\ wpc[s[i]] # "new"
  BY <1>1, Frame DEF KeysInd, TakerOK, TodoOK
<1>7. ASSUME NEW i \in DOMAIN r, Live(r[i])',
             NEW y \in earlier'[r[i]], wq[y] = wq[r[i]], y \notin cut', ~Gone(y)'
      PROVE  \E j \in 1..(i - 1) : r[j] = y
  <2>1. i + 1 \in DOMAIN s /\ r[i] = s[i + 1] /\ i + 1 - 1 = i /\ i \in Nat
    BY <1>2, <1>5
  <2>2. PICK g \in Writers : g = s[i + 1] /\ wpc[g] # "new"
    BY <1>6, <2>1
  <2>3. Live(g)
    BY <1>7, <2>1, <2>2 DEF LiveStays
  <2>4. y \in earlier[g] /\ y \notin cut /\ ~Gone(y) /\ y \in Writers
    BY <1>7, <2>1, <2>2, SettledStays
  <2>5. SettledBefore(s, i + 1)
    BY <1>1, <2>1, <2>2, <2>3 DEF TodoSettled
  <2>6. PICK j \in 1..i : s[j] = y
    BY <1>7, <2>1, <2>2, <2>4, <2>5 DEF SettledBefore
  <2>7. j # 1
    <3>1. ASSUME j = 1 PROVE FALSE
      <4>1. y = Guid(t) /\ wpc[y] = "done"
        BY <1>3, <2>2, <2>4, <2>6, <3>1 DEF KeysInd, EarlierDone
      <4> QED BY <1>7, <2>4, <4>1, HeadGone
    <3> QED BY <3>1
  <2>8. j - 1 \in 1..(i - 1) /\ r[j - 1] = s[j]
    BY SMTT(30), <1>2, <1>5, <2>1, <2>6, <2>7
  <2> QED BY <2>6, <2>8
<1>8. TodoSettled(t)'
  BY <1>3, <1>4, <1>6, <1>7 DEF TodoSettled, SettledBefore
<1> QED BY <1>8

LEMMA OneSettled ==
    ASSUME Types, KeysInd, LiveStays, Command, NEW t \in Takers, NEW g \in Writers,
           tk'[t].todo = <<g>>, wpc[g] # "new", Live(g) => Settled(g)
    PROVE  TodoSettled(t)'
<1>1. PICK s : s = <<g>>
  OBVIOUS
<1>2. DOMAIN s = {1} /\ s[1] = g
  BY <1>1
<1>3. Live(g) => SettledBefore(s, 1)
  BY <1>2 DEF Settled, SettledBefore
<1>4. \A i \in DOMAIN s : /\ s[i] \in Writers /\ wpc[s[i]] # "new"
                          /\ Live(s[i]) => SettledBefore(s, i)
  BY <1>2, <1>3
<1>5. tk'[t].todo = s
  BY <1>1
<1> QED BY <1>4, <1>5, TodoFrom

LEMMA NoneSettled ==
    ASSUME NEW t \in Takers, tk'[t].todo = <<>>
    PROVE  TodoSettled(t)'
<1>1. PICK s : s = <<>>
  OBVIOUS
<1>2. DOMAIN s = {}
  BY <1>1
<1> QED BY <1>1, <1>2 DEF TodoSettled

LEMMA TodoSettledStep ==
    ASSUME Types, Types', KeysInd, KeysInd', LiveStays, Command, GoneIs, NEW t \in Takers,
           t[1] \in {"stream", "page"}, HeldSettled(t), TodoSettled(t)
    PROVE  TodoSettled(t)'
<1>0. TakerTypes /\ StoreTypes /\ UpdateOK(t) /\ TodoOK(t) /\ Values /\ Numbers /\ Fields
  BY DEF Types, KeysInd, TakerOK
<1>1. ASSUME tk'[t].todo = tk[t].todo PROVE TodoSettled(t)'
  <2>1. PICK s \in Seq(Writers) : s = tk[t].todo
    BY <1>0, RecordIs
  <2>2. \A i \in DOMAIN s : /\ s[i] \in Writers /\ wpc[s[i]] # "new"
                            /\ Live(s[i]) => SettledBefore(s, i)
    BY <1>0, <2>1 DEF TodoSettled, TodoOK
  <2> QED BY <1>1, <2>1, <2>2, TodoFrom
<1>2. CASE tk'[t] = tk[t]
  BY <1>1, <1>2
<1>3. CASE tk'[t] # tk[t]
  <2>1. TakerCommand(t)
    <3>1. ~\E x \in Writers : InsertCommand(x)
      BY <1>3, InsertLater
    <3> QED BY <1>3, <3>1, CommandIs, TakerFrame DEF TakerCommand, Moves
  <2>2. CASE Quiet(t)
    <3>1. CASE CheckLock(t) \/ ReadIndex(t) \/ PickQueue(t) \/ SetLock(t) \/ ReleaseLock(t)
      BY <1>0, <3>1, GoesIs
    <3>2. CASE Card(t) \/ RemoveFromIndex(t)
      <4>1. tk'[t].todo = tk[t].todo \/ tk'[t].todo = <<>>
        BY <1>0, <3>2, CardIs, RemoveFromIndexIs, CallDoneIs
      <4> QED BY <1>1, <4>1, NoneSettled
    <3>3. CASE FindOld(t)
      <4>1. tk[t].pc = "old"
        BY <1>0, <3>3, FindOldIs
      <4>2. /\ tk[t].held \in Z(Queue(t)) /\ Settled(tk[t].held.guid)
            /\ tk[t].id = tk[t].held.id
        BY <1>0, <4>1 DEF UpdateOK, HeldSettled, Updates, At
      <4>3. CASE tk'[t].todo = <<>>
        BY <4>3, NoneSettled
      <4>4. CASE tk'[t].todo # <<>>
        <5>1. PICK v \in Z(Queue(t)) : v.id = tk[t].id /\ tk'[t].todo = <<v.guid>>
          BY <1>0, <3>3, <4>4, FindOldIs
        <5>2. v = tk[t].held /\ v.guid \in Writers
          BY <1>0, <4>2, <5>1, IdsDiffer, TakerIs
        <5>3. wpc[v.guid] # "new"
          BY <1>0, <5>1, TakerIs DEF Values
        <5> QED BY <4>2, <5>1, <5>2, <5>3, OneSettled
      <4> QED BY <4>3, <4>4
    <3>4. CASE LookupGuid(t)
      <4>1. CASE tk'[t].todo = tk[t].todo
        BY <1>1, <4>1
      <4>2. CASE tk'[t].todo # tk[t].todo
        <5>1. GuidDone(t) /\ Removes(t)
          BY <1>0, <3>4, <4>2, LookupGuidIs DEF Removes
        <5> QED BY <3>4, <5>1, TailSettled
      <4> QED BY <4>1, <4>2
    <3>5. CASE RangeById(t)
      BY <1>0, <1>1, <3>5, RangeByIdIs
    <3>6. CASE ReadMessages(t) \/ \E w \in Writers : RemoveAnswered(t, w)
      BY <1>0, <3>6, ReadMessagesIs, RemoveAnsweredIs
    <3>7. CASE ReadChunks(t)
      <4>1. CASE tk'[t].todo = tk[t].todo
        BY <1>1, <4>1
      <4>2. CASE tk'[t].todo # tk[t].todo
        <5>1. PICK s : s = tk'[t].todo
          OBVIOUS
        <5>2. \A i \in DOMAIN s :
                s[i] \in Writers /\ wpc[s[i]] # "new"
          <6>1. PICK page \in Seq(Z(Queue(t))) :
                  /\ DOMAIN page = DOMAIN s
                  /\ \A i \in DOMAIN page : /\ page[i].id \in DOMAIN R(Queue(t))
                                            /\ s[i] = R(Queue(t))[page[i].id]
            BY <1>0, <3>7, <4>2, <5>1, ReadChunksIs
          <6>2. Queue(t) \in Queues
            BY TakerIs
          <6>3. \A k \in DOMAIN R(Queue(t)) :
                  R(Queue(t))[k] \in Writers /\ wpc[R(Queue(t))[k]] # "new"
            BY <1>0, <6>2 DEF Fields, StoreTypes
          <6> QED BY <6>1, <6>3
        <5>3. \A i \in DOMAIN s : Live(s[i]) => SettledBefore(s, i)
          BY <3>7, <4>2, <5>1, PageSettled
        <5> QED BY <5>1, <5>2, <5>3, TodoFrom
      <4> QED BY <4>1, <4>2
    <3>8. CASE \E n \in Amounts : ReadFirst(t, n)
      BY <1>0, <1>1, <3>8, ReadFirstIs
    <3>9. CASE FindGuid(t)
      <4>1. tk[t].pc = "guid"
        BY <1>0, <3>9, FindGuidIs
      <4>2. /\ tk[t].held \in Z(Queue(t)) /\ Settled(tk[t].held.guid)
            /\ tk[t].id = tk[t].held.id
        BY <1>0, <4>1 DEF UpdateOK, HeldSettled, Updates, At
      <4>3. CASE tk'[t].todo = <<>>
        BY <4>3, NoneSettled
      <4>4. CASE tk'[t].todo # <<>>
        <5>1. /\ tk[t].id \in DOMAIN R(Queue(t))
              /\ tk'[t].todo = <<R(Queue(t))[tk[t].id]>>
          BY <1>0, <3>9, <4>4, FindGuidIs
        <5>2. PICK g \in Writers : g = R(Queue(t))[tk[t].id]
          BY <1>0, <5>1, TakerIs DEF StoreTypes
        <5>3. wq[g] = Queue(t) /\ wid[g] = tk[t].id /\ wpc[g] # "new"
          BY <1>0, <5>1, <5>2, TakerIs DEF Fields
        <5>4. Live(g) => g = tk[t].held.guid
          BY <1>0, <4>2, <5>3, IdsDiffer, TakerIs
        <5> QED BY <4>2, <5>1, <5>2, <5>3, <5>4, OneSettled
      <4> QED BY <4>3, <4>4
    <3> QED BY <2>2, <3>1, <3>2, <3>3, <3>4, <3>5, <3>6, <3>7, <3>8, <3>9 DEF Quiet
  <2>3. CASE RemoveById(t) \/ DeleteGuid(t) \/ DeleteQueue(t) \/ DeleteMetadata(t)
    <3>1. tk'[t].todo = tk[t].todo
      BY <1>0, <2>3, GoesIs, GoIs
    <3> QED BY <1>1, <3>1
  <2>4. CASE DeleteRev(t)
    <3>1. Removes(t) /\ GuidDone(t)
      BY <2>4, DeleteRevIs DEF Removes, At
    <3> QED BY <2>4, <3>1, TailSettled
  <2>5. CASE RemoveOld(t)
    <3>1. tk'[t].todo = <<>> \/ tk'[t].todo = tk[t].todo
      BY <2>5, RemoveOldIs
    <3> QED BY <1>1, <3>1, NoneSettled
  <2>6. CASE AddRest(t) \/ CutTaker(t)
    BY <2>6, AddRestIs, CutTakerIs, NoneSettled
  <2> QED BY <2>1, <2>2, <2>3, <2>4, <2>5, <2>6 DEF TakerCommand
<1> QED BY <1>2, <1>3

LEMMA InFrontStep ==
    ASSUME Types, Types', KeysInd, KeysInd', LiveStays, Command, GoneIs, InFront
    PROVE  InFront'
<1>1. ASSUME NEW t \in Takers, t[1] \in {"stream", "page"}
      PROVE  HeldSettled(t)' /\ TodoSettled(t)'
  <2>1. HeldSettled(t) /\ TodoSettled(t)
    BY <1>1 DEF InFront
  <2> QED BY <1>1, <2>1, HeldSettledStep, TodoSettledStep
<1> QED BY <1>1 DEF InFront

LEMMA OrderStep ==
    ASSUME Types, Types', KeysInd, KeysInd', LiveStays, Command, TakingInd
    PROVE  TakingInd'
BY GoneStep, ProgressStep, InFrontStep, OutSettledStep, PiecesStep DEF TakingInd

(* What the properties take from the invariant. *)
LEMMA IntactIs ==
    ASSUME Types, KeysInd, NEW w \in Writers, Done(w)
    PROVE  Recorded(w) \/ InHand(w) \/ Gone(w)
<1>0. Numbers /\ Values /\ Kept(w) /\ wq[w] \in Queues
  BY DEF KeysInd, AllKept, Done, Types, OtherTypes
<1>1. CASE w \in Stored(wq[w]) /\ In(w)
  <2>1. PICK v \in Z(wq[w]) : v.guid = w
    BY <1>1 DEF Stored, Z
  <2>2. v.id = wid[w] /\ \A u \in Z(wq[w]) : u # v => u.id # v.id /\ u.guid # w
    BY <1>0, <2>1, IdsDiffer DEF Values
  <2>3. /\ w \in DOMAIN M(wq[w]) /\ M(wq[w])[w] = v.id
        /\ v.id \in DOMAIN R(wq[w]) /\ R(wq[w])[v.id] = w
    BY <1>0, <1>1, <2>2 DEF In, Done, KeysInd, Fields
  <2>4. /\ v \in zset[QueueKey(wq[w])]
        /\ \A u \in zset[QueueKey(wq[w])] : u # v => u.id # v.id /\ u.guid # w
    BY <2>2 DEF Z
  <2>5. Recorded(w)
    BY <2>1, <2>3, <2>4 DEF Recorded, M, R
  <2> QED BY <2>5
<1>2. CASE \E t \in Takers : Adding(t, w)
  BY <1>2 DEF InHand, Adding
<1>3. CASE \E t \in Takers : Removing(t, w)
  <2>1. PICK t \in Takers : Removing(t, w)
    BY <1>3
  <2>2. Guid(t) = w
    BY <2>1, HeldHere
  <2> QED BY <2>1, <2>2 DEF InHand, Removing
<1> QED BY <1>0, <1>1, <1>2, <1>3 DEF Kept

LEMMA OrderIs ==
    ASSUME Types, KeysInd, NEW q \in Queues, NEW u \in Z(q), NEW v \in Z(q), u.guid \in earlier[v.guid]
    PROVE  u.id < v.id
<1>0. Numbers /\ Values /\ Rising
  BY DEF KeysInd
<1>1. /\ u.guid \in Writers /\ wq[u.guid] = q /\ u.id = wid[u.guid] /\ Live(u.guid)
      /\ v.guid \in Writers /\ wq[v.guid] = q /\ v.id = wid[v.guid] /\ Live(v.guid)
  BY <1>0, IdsDiffer
<1> QED BY <1>0, <1>1 DEF Rising

LEMMA TakenIs ==
    ASSUME Types, KeysInd, Pieces
    PROVE  TakenInOrder
<1>1. \A q \in Queues : \A u, v \in zset[QueueKey(q)] : u.guid \in earlier[v.guid] => u.id < v.id
  BY OrderIs DEF Z
<1>2. ASSUME NEW q \in Queues, q \notin MessageQueues, NEW j \in DOMAIN out[q]
      PROVE  PieceOK(q, j)
  BY <1>2 DEF Pieces, Types, OtherTypes
<1> QED BY <1>1, <1>2 DEF TakenInOrder, PieceOK, Continues

LEMMA TypesAre == Types => RedisTypeOK
<1> SUFFICES ASSUME Types PROVE RedisTypeOK
  OBVIOUS
<1>0. StoreTypes /\ OtherTypes /\ TakerTypes
  BY DEF Types
<1>1. ASSUME NEW q \in Queues
      PROVE /\ zset[QueueKey(q)] \subseteq Value
            /\ counter[MetadataKey(q)] \in Nat
            /\ DOMAIN ids[MetadataKey(q)] \subseteq Writers
            /\ \A i \in DOMAIN rev[RevKey(q)] : rev[RevKey(q)][i] \in Writers
            /\ index[IndexKey(q)] \subseteq {QueueKey(p) : p \in Queues}
  BY <1>0 DEF StoreTypes, Z, C, M, R
<1>2. ASSUME NEW q \in Queues, NEW i \in DOMAIN out[q] PROVE out[q][i].guid \in Writers
  <2>1. PICK s \in Seq(Taken) : s = out[q]
    BY <1>0 DEF OtherTypes
  <2>2. s[i] \in Taken
    BY <1>2, <2>1
  <2> QED BY <2>1, <2>2 DEF Taken
<1>3. DOMAIN tk = Takers
  BY <1>0 DEF TakerTypes
<1>4. ASSUME NEW t \in Takers
      PROVE tk[t].pc \in Pcs /\ tk[t].held \in Value \cup {NoValue}
  BY <1>0, RecordIs
<1> QED BY <1>0, <1>1, <1>2, <1>3, <1>4 DEF RedisTypeOK, StoreTypes, OtherTypes, Pcs

-----------------------------------------------------------------------------
(***************************************************************************)
(* The invariant holds and gives the properties.                           *)
(***************************************************************************)
LEMMA RedisStart == RedisInit => RedisInd
<1> SUFFICES ASSUME RedisInit PROVE RedisInd
  OBVIOUS
<1>1. /\ \A q \in Queues : Z(q) = {} /\ C(q) = 0 /\ M(q) = <<>> /\ R(q) = <<>>
                          /\ index[IndexKey(q)] = {} /\ out[q] = <<>>
      /\ \A w \in Writers : wpc[w] = "new" /\ earlier[w] = {}
      /\ \A t \in Takers : tk[t] = Idle
      /\ wq \in [Writers -> Queues]
  BY RedisAssumption DEF RedisInit, Z, C, M, R
<1>2. DOMAIN <<>> = {}
  OBVIOUS
<1>3. StoreTypes
  <2>1. ASSUME NEW q \in Queues
        PROVE  /\ Z(q) \subseteq Value /\ IsFiniteSet(Z(q))
               /\ C(q) \in Nat
               /\ DOMAIN M(q) \subseteq Writers
               /\ \A w \in DOMAIN M(q) : M(q)[w] \in Nat
               /\ \A i \in DOMAIN R(q) : R(q)[i] \in Writers
               /\ index[IndexKey(q)] \subseteq {QueueKey(p) : p \in Queues}
    <3>1. DOMAIN M(q) = {} /\ DOMAIN R(q) = {} /\ C(q) = 0 /\ Z(q) = {} /\ index[IndexKey(q)] = {}
      BY <1>1, <1>2
    <3>2. IsFiniteSet(Z(q))
      BY <3>1, FS_EmptySet
    <3> QED BY <3>1, <3>2
  <2>2. /\ DOMAIN zset = {QueueKey(q) : q \in Queues}
        /\ DOMAIN counter = {MetadataKey(q) : q \in Queues}
        /\ DOMAIN ids = {MetadataKey(q) : q \in Queues}
        /\ DOMAIN rev = {RevKey(q) : q \in Queues}
        /\ DOMAIN index = {IndexKey(q) : q \in Queues}
        /\ lock \subseteq {LockKey(q) : q \in Queues}
    BY DEF RedisInit
  <2> QED BY <2>1, <2>2 DEF StoreTypes
<1>4. OtherTypes
  <2>1. out \in [Queues -> Seq(Taken)]
    <3>1. <<>> \in Seq(Taken)
      OBVIOUS
    <3> QED BY <3>1 DEF RedisInit
  <2> QED BY <1>1, <2>1 DEF OtherTypes, RedisInit
<1>5. TakerTypes
  <2>1. tk \in [Takers -> TakerRecord]
    BY IdleIs DEF RedisInit
  <2>2. ASSUME NEW t \in Takers PROVE TakerTyped(t)
    <3>1. t[1] \in RolesOf("idle")
      BY TakerIs, RolesAre
    <3> QED BY <1>1, <3>1, IdleIs DEF TakerTyped, Removes, Updates, At
  <2> QED BY <2>1, <2>2 DEF TakerTypes
<1>6. /\ \A w \in Writers : ~Active(w) /\ w \notin Stored(wq[w]) /\ w \notin DOMAIN M(wq[w])
      /\ \A t \in Takers : ~HoldsId(t) /\ ~At(t, "zadd") /\ ~Draining(t) /\ ~Updates(t)
                          /\ ~At(t, "guid")
  <2>1. ASSUME NEW w \in Writers PROVE ~Active(w) /\ w \notin Stored(wq[w]) /\ w \notin DOMAIN M(wq[w])
    BY <1>1, <1>2 DEF Active, Stored, Z
  <2> QED BY <1>1, <2>1, IdleIs DEF HoldsId, At, Draining, Updates
<1>7. \A w \in Writers : ~Live(w)
  BY <1>6 DEF Live, Adding
<1>8. Values /\ Fields /\ Numbers /\ Rising /\ EarlierDone
  BY <1>1, <1>2, <1>7 DEF Values, Fields, Numbers, Rising, EarlierDone
<1>9. AllKept /\ CutNoted /\ SentIs
  BY <1>1 DEF AllKept, CutNoted, SentIs, RedisInit
<1>10. ASSUME NEW t \in Takers PROVE TakerOK(t)
  BY <1>1, <1>2, IdleIs DEF TakerOK, TodoOK, RemoveOK, UpdateOK, DrainOK, HoldsId, At, Draining
<1>11. ~Drain
  BY <1>6 DEF Drain
<1>12. \A q \in Queues : DOMAIN out[q] = {} /\ 1..Len(out[q]) = {}
  BY <1>1
<1>13. \A w \in Writers : ~Gone(w)
  BY <1>1, <1>12 DEF Gone
<1>14. GoneIs
  BY <1>12, <1>13 DEF GoneIs
<1>15. Progress
  BY <1>1, IdleIs DEF Progress
<1>16. Pieces /\ OutSettled
  BY <1>12 DEF Pieces, OutSettled
<1>17. InFront
  BY <1>1, <1>2, <1>6, IdleIs DEF InFront, HeldSettled, TodoSettled
<1>18. IndexCovers
  BY <1>1 DEF IndexCovers, Done
<1>19. NotSentAgain
  BY DEF NotSentAgain, RedisInit
<1> QED BY <1>3, <1>4, <1>5, <1>8, <1>9, <1>10, <1>11, <1>14, <1>15, <1>16, <1>17, <1>18, <1>19
        DEF RedisInd, Types, KeysInd, TakingInd

LEMMA RedisStutter == RedisInd /\ UNCHANGED redisVars => RedisInd'
<1> SUFFICES ASSUME RedisInd, UNCHANGED redisVars PROVE RedisInd'
  OBVIOUS
<1>1. /\ UNCHANGED <<zset, counter, ids, rev, index, lock>>
      /\ UNCHANGED <<wq, wpc, wid, tk, sent, answered, earlier, out, cut, raced>>
  BY DEF redisVars, store, writerVars, msgs
<1>2. Types'
  BY <1>1 DEF RedisInd, Types, StoreTypes, OtherTypes, TakerTypes, TakerTyped, Removes, Updates, At,
    Z, C, M, R
<1>3. Sound' = Sound /\ Drain' = Drain
  BY <1>1 DEF Sound, Drain, Active, Draining
<1>4. KeysInd => KeysInd'
  <2>1. \A w \in Writers : Live(w)' = Live(w) /\ Kept(w)' = Kept(w)
    BY <1>1 DEF Live, Kept, Active, Stored, M, R, HoldsId, Guid, Adding, Removing, At, In, Gone
  <2>2. \A t \in Takers : TakerOK(t)' = TakerOK(t)
    BY <1>1 DEF TakerOK, TodoOK, RemoveOK, UpdateOK, DrainOK, HoldsId, At, Draining, Stored, Guid, Z
  <2> QED BY <1>1, <2>1, <2>2 DEF KeysInd, Numbers, Rising, EarlierDone, Values, Fields, AllKept,
        CutNoted, SentIs, Z, C, M, R
<1>5. TakingInd => TakingInd'
  <2>1. \A w \in Writers : Live(w)' = Live(w)
    BY <1>1 DEF Live, Active, Stored, M, HoldsId, Guid, Adding, At
  <2>2. GoneIs => GoneIs'
    BY <1>1 DEF GoneIs, Gone, Stored, Adding, Carrying, At
  <2>3. Progress => Progress'
    BY <1>1 DEF Progress, Z
  <2>4. InFront => InFront'
    BY <1>1, <2>1 DEF InFront, HeldSettled, TodoSettled, Settled, SettledBefore, Gone, Updates, At,
      Live, Active, Stored, M,
      HoldsId, Guid, Adding
  <2>5. OutSettled => OutSettled'
    BY <1>1 DEF OutSettled, Settled, Gone
  <2>6. Pieces => Pieces'
    BY <1>1 DEF Pieces, PieceOK
  <2> QED BY <2>2, <2>3, <2>4, <2>5, <2>6 DEF TakingInd
<1>6. IndexCovers' /\ NotSentAgain'
  BY <1>1 DEF RedisInd, IndexCovers, NotSentAgain, Done, Stored, Sound
<1> QED BY <1>2, <1>3, <1>4, <1>5, <1>6 DEF RedisInd

LEMMA RedisKeeps == RedisInd /\ [RedisNext]_redisVars => RedisInd'
<1> SUFFICES ASSUME RedisInd, RedisNext PROVE RedisInd'
  BY RedisStutter
<1>1. Types /\ Types'
  BY TypesStep DEF RedisInd
<1>2. Sound /\ Command /\ (Sound' => ~Drain' /\ ~Stale)
  BY <1>1, RacedIs
<1>3. ~Drain /\ KeysInd /\ TakingInd /\ IndexCovers /\ NotSentAgain
  BY <1>2 DEF RedisInd
<1>4. Sound' => ~Drain' /\ KeysInd' /\ TakingInd'
  BY <1>1, <1>2, <1>3, KeysStep, OrderStep
<1>5. IndexCovers'
  BY <1>1, <1>3, IndexStep
<1>6. NotSentAgain'
  BY <1>1, <1>3, NotSentStep DEF TakingInd
<1> QED BY <1>1, <1>4, <1>5, <1>6 DEF RedisInd

LEMMA RedisHolds == RedisSpec => []RedisInd
BY RedisStart, RedisKeeps, PTL DEF RedisSpec

LEMMA RedisGives == RedisInd => RedisInv /\ QueueIntact /\ NotSentAgain /\ TakenInOrder
<1>1. RedisInd => RedisInv
  BY TypesAre DEF RedisInd, RedisInv
<1>2. RedisInd => QueueIntact
  BY IntactIs DEF RedisInd, QueueIntact
<1>3. RedisInd /\ Sound => TakenInOrder
  BY TakenIs DEF RedisInd, TakingInd
<1>4. ~Sound => TakenInOrder
  BY DEF TakenInOrder
<1> QED BY <1>1, <1>2, <1>3, <1>4 DEF RedisInd

(* The variables have their types, and a queue that holds messages is in   *)
(* the index or the persister has it, whatever interleaves and is cut      *)
(* short (insert, remove, get_message_queues_to_persist).                  *)
THEOREM RedisCorrect == RedisSpec => []RedisInv
BY RedisHolds, RedisGives, PTL

(* An insert that has returned is kept, as long as no insert overlaps the  *)
(* deletion of an empty queue and no counter starts again under a remove:  *)
(* no other interleaving of the commands of redis.rs, and no call that     *)
(* ends in the middle, makes the keys of a queue disagree about a value.   *)
THEOREM RedisIntact == RedisSpec => []QueueIntact
BY RedisHolds, RedisGives, PTL

(* A message that was sent is not in the queue any more, unless it was     *)
(* read before insert had recorded its guid (remove).                      *)
THEOREM NotSentTwice == RedisSpec => []NotSentAgain
BY RedisHolds, RedisGives, PTL

(* Values come out in the order of the inserts, and the pieces of a        *)
(* payload one after the other with descending orders, each byte once      *)
(* (get_first, update_value, dequeue_bytes).                               *)
THEOREM InOrderTaken == RedisSpec => []TakenInOrder
BY RedisHolds, RedisGives, PTL
=============================================================================
