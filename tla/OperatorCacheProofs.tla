------------------------- MODULE OperatorCacheProofs ------------------------
(***************************************************************************)
(* Proofs about OperatorCache, for any threads, streams, shapes, scalars   *)
(* (with any hash), tables and bounds: what is cached is typed, no object  *)
(* dies under its kernels, and the calls the cache owes an answer get it.  *)
(*                                                                         *)
(* The last rests on what holds of one object, of key k in thread t's      *)
(* cache, and the calls that wait on it, as long as its callers have kept  *)
(* the rules: a cast waits on the only stream with calls of the object;    *)
(* the buffer holds the table of every call with no cast up to it; between *)
(* two casts all calls have one table; and what the object remembers is    *)
(* the table of the calls after the last cast, or of the buffer.           *)
(***************************************************************************)
EXTENDS OperatorCache, SequenceTheorems, TLAPS

(* A waiting call's object is in its thread's cache, of the current        *)
(* generation, under the key of the call.                                  *)
Launched(e) ==
  /\ e.key = Key(e.call)
  /\ Object(e) # None
  /\ Object(e).born = e.born
  /\ generation[e.thread] = cache_generation

CacheInv ==
  TypeOK /\ \A s \in Streams : \A i \in DOMAIN queue[s] : Launched(queue[s][i])

(* No call of the object casts at the places of stream s after i, up to j. *)
NoCast(s, t, k, i, j) == \A m \in On(s, t, k) : i < m /\ m <= j => ~queue[s][m].cast

(* No call of the object has a cast to wait for. *)
Settled(t, k) == \A s \in Streams : \A m \in On(s, t, k) : ~queue[s][m].cast

(* What a buffer filled from table a holds, as far as the cache answers    *)
(* for it: who remembers addresses does not see a change in place.         *)
Holds(b, a) == b = Data(a) \/ (op # "rms_norm" /\ contents[a] # 0)

OneStream(t, k) ==
  \A s, u \in Streams : \A m \in On(s, t, k) :
    queue[s][m].cast /\ s # u => On(u, t, k) = {}

Ready(t, k) ==
  \A s \in Streams : \A i \in On(s, t, k) :
    NoCast(s, t, k, 0, i) => Holds(cache[t][k].buffer, queue[s][i].call.table)

Chained(t, k) ==
  \A s \in Streams : \A i, j \in On(s, t, k) :
    j < i /\ NoCast(s, t, k, j, i) => queue[s][j].call.table = queue[s][i].call.table

Remembered(t, k) ==
  op # "rms_norm" =>
    \A s \in Streams : \A j \in On(s, t, k) :
      (\A m \in On(s, t, k) : j < m => ~queue[s][m].cast)
      => queue[s][j].call.table = cache[t][k].memo

Filled(t, k) ==
  op # "rms_norm" =>
    /\ cache[t][k].memo \in Tables
    /\ Settled(t, k) => Holds(cache[t][k].buffer, cache[t][k].memo)

Kept(t, k) ==
  generation[t] = cache_generation /\ cache[t][k] # None /\ cache[t][k].kept

BufferInv(t, k) ==
  Kept(t, k) =>
    OneStream(t, k) /\ Ready(t, k) /\ Chained(t, k) /\ Remembered(t, k) /\ Filled(t, k)

IInv == CacheInv /\ \A t \in Threads : \A k \in Keys : BufferInv(t, k)

-----------------------------------------------------------------------------
(* Operators of the model. *)

LEMMA KeyType == \A c \in Calls : Key(c) \in Keys
BY DEF Key, Calls, Keys

LEMMA DataType ==
  ASSUME TypeOK, NEW a \in Tables
  PROVE  Data(a) \in DataSets
BY DEF TypeOK, Data, DataSets

LEMMA MadeObject ==
  ASSUME TypeOK, NEW c \in Calls
  PROVE  /\ Make(c) \in Objects
         /\ Make(c).born = cache_generation
         /\ Key(Make(c)) = Key(c)
         /\ op = "rotary_embedding" => /\ Make(c).memo = c.table
                                       /\ Make(c).buffer = Data(c.table)
         /\ op # "rotary_embedding" => Make(c).memo = None
<1>1. Data(c.table) \in DataSets
  BY DataType DEF Calls
<1>2. cache_generation \in Nat
  BY DEF TypeOK
<1> QED BY <1>1, <1>2 DEF Make, Objects, Calls, Key

LEMMA FlushedCache ==
  ASSUME TypeOK, NEW t \in Threads
  PROVE  /\ Flushed(t) \in [Keys -> Objects \cup {None}]
         /\ generation[t] = cache_generation => Flushed(t) = cache[t]
         /\ generation[t] # cache_generation => \A k \in Keys : Flushed(t)[k] = None
BY DEF TypeOK, Flushed

LEMMA FoundObject ==
  ASSUME TypeOK, NEW t \in Threads, NEW c \in Calls
  PROVE  /\ Found(t, c) \in Objects
         /\ Found(t, c).born = cache_generation
         /\ Key(Found(t, c)) = Key(c)
         /\ Found(t, c) = Make(c)
              \/ /\ generation[t] = cache_generation
                 /\ cache[t][Key(c)] # None
                 /\ Found(t, c) = cache[t][Key(c)]
         /\ generation[t] = cache_generation /\ cache[t][Key(c)] # None
              => Found(t, c) = cache[t][Key(c)]
<1>1. Key(c) \in Keys
  BY KeyType
<1>2. CASE Flushed(t)[Key(c)] = None
  <2>1. Found(t, c) = Make(c)
    BY <1>2 DEF Found
  <2>2. ~(generation[t] = cache_generation /\ cache[t][Key(c)] # None)
    BY <1>2, FlushedCache
  <2> QED BY <2>1, <2>2, MadeObject
<1>3. CASE Flushed(t)[Key(c)] # None
  <2>1. Found(t, c) = Flushed(t)[Key(c)]
    BY <1>3 DEF Found
  <2>2. generation[t] = cache_generation /\ Flushed(t) = cache[t]
    BY <1>1, <1>3, FlushedCache
  <2>3. cache[t][Key(c)] \in Objects
    BY <1>1, <1>3, <2>2, FlushedCache
  <2>4. cache[t][Key(c)].born = generation[t] /\ Key(cache[t][Key(c)]) = Key(c)
    BY <1>1, <1>3, <2>2 DEF TypeOK
  <2> QED BY <1>3, <2>1, <2>2, <2>3, <2>4
<1> QED BY <1>2, <1>3

(* The object of a call, as the call leaves it. *)
Called(t, s, c) ==
  [Refreshed(Found(t, c), c) EXCEPT
     !.kept = Found(t, c).kept /\ KeepsRules(t, s, c, Found(t, c))]

LEMMA CalledObject ==
  ASSUME TypeOK, NEW t \in Threads, NEW s \in Streams, NEW c \in Calls
  PROVE  /\ Called(t, s, c) \in Objects
         /\ Called(t, s, c).born = cache_generation
         /\ Key(Called(t, s, c)) = Key(c)
         /\ op # "rms_norm" => Called(t, s, c).memo = c.table
         /\ op # "rotary_embedding" \/ Found(t, c).memo = c.table
              => Called(t, s, c).buffer = Found(t, c).buffer
         /\ op = "rotary_embedding" /\ Found(t, c).memo # c.table
              => Called(t, s, c).buffer = Data(c.table)
         /\ Called(t, s, c).kept
              => Found(t, c).kept /\ KeepsRules(t, s, c, Found(t, c))
<1> DEFINE o == Found(t, c)
           b == o.kept /\ KeepsRules(t, s, c, o)
           r == Refreshed(o, c)
<1>1. /\ o \in Objects /\ o.born = cache_generation /\ Key(o) = Key(c)
  BY FoundObject
<1>2. Data(c.table) \in DataSets /\ c.table \in Tables
  BY DataType DEF Calls
<1>3. b \in BOOLEAN
  OBVIOUS
<1>4. Called(t, s, c) = [r EXCEPT !.kept = b]
  BY DEF Called
<1>5. b => Found(t, c).kept /\ KeepsRules(t, s, c, Found(t, c))
  OBVIOUS
<1> HIDE DEF o, b
<1>6. /\ r \in Objects
      /\ r.born = o.born
      /\ Key(r) = Key(o)
      /\ op # "rms_norm" => r.memo = c.table
      /\ op # "rotary_embedding" \/ o.memo = c.table => r.buffer = o.buffer
      /\ op = "rotary_embedding" /\ o.memo # c.table => r.buffer = Data(c.table)
  BY <1>1, <1>2 DEF Refreshed, Objects, Key
<1> HIDE DEF r
<1>7. /\ [r EXCEPT !.kept = b] \in Objects
      /\ [r EXCEPT !.kept = b].born = r.born
      /\ [r EXCEPT !.kept = b].memo = r.memo
      /\ [r EXCEPT !.kept = b].buffer = r.buffer
      /\ Key([r EXCEPT !.kept = b]) = Key(r)
      /\ [r EXCEPT !.kept = b].kept = b
  BY <1>3, <1>6 DEF Objects, Key
<1> QED BY <1>1, <1>4, <1>5, <1>6, <1>7 DEF o

(* A queue whose first entry was replaced. *)
LEMMA ReplacedHead ==
  ASSUME NEW S, NEW q \in Seq(S), q # <<>>, NEW e \in S
  PROVE  /\ <<e>> \o Tail(q) \in Seq(S)
         /\ DOMAIN (<<e>> \o Tail(q)) = DOMAIN q
         /\ (<<e>> \o Tail(q))[1] = e
         /\ \A i \in DOMAIN q : i # 1 => (<<e>> \o Tail(q))[i] = q[i]
<1>1. /\ Tail(q) \in Seq(S)
      /\ Len(Tail(q)) = Len(q) - 1
      /\ \A i \in 1 .. Len(q) - 1 : Tail(q)[i] = q[i + 1]
      /\ Len(q) \in Nat \ {0}
  BY HeadTailProperties, EmptySeq, LenProperties
<1>2. <<e>> \in Seq(S) /\ Len(<<e>>) = 1 /\ <<e>>[1] = e
  OBVIOUS
<1>3. <<e>> \o Tail(q) \in Seq(S) /\ Len(<<e>> \o Tail(q)) = Len(q)
  BY <1>1, <1>2, ConcatProperties
<1>4. \A i \in 1 .. Len(q) : (<<e>> \o Tail(q))[i] = IF i <= 1 THEN <<e>>[i] ELSE Tail(q)[i - 1]
  BY <1>1, <1>2, ConcatProperties
<1>5. DOMAIN q = 1 .. Len(q) /\ DOMAIN (<<e>> \o Tail(q)) = 1 .. Len(q)
  BY <1>3, LenProperties
<1> QED BY <1>1, <1>2, <1>3, <1>4, <1>5

LEMMA TailOfQueue ==
  ASSUME NEW S, NEW q \in Seq(S), q # <<>>
  PROVE  /\ Tail(q) \in Seq(S)
         /\ 1 \in DOMAIN q /\ Head(q) = q[1] /\ q[1] \in S
         /\ \A i \in DOMAIN Tail(q) : /\ i \in Nat \ {0}
                                    /\ i + 1 \in DOMAIN q
                                    /\ Tail(q)[i] = q[i + 1]
         /\ \A i \in DOMAIN q : i # 1 => i - 1 \in DOMAIN Tail(q)
<1>1. /\ Tail(q) \in Seq(S)
      /\ Head(q) \in S
      /\ Len(Tail(q)) = Len(q) - 1
      /\ \A i \in 1 .. Len(q) - 1 : Tail(q)[i] = q[i + 1]
      /\ Len(q) \in Nat \ {0}
  BY HeadTailProperties, EmptySeq, LenProperties
<1>2. DOMAIN q = 1 .. Len(q) /\ DOMAIN Tail(q) = 1 .. Len(q) - 1
  BY <1>1, LenProperties
<1>3. Head(q) = q[1]
  OBVIOUS
<1> QED BY <1>1, <1>2, <1>3

LEMMA AppendedQueue ==
  ASSUME NEW S, NEW q \in Seq(S), NEW e \in S
  PROVE  /\ Append(q, e) \in Seq(S)
         /\ DOMAIN q = 1 .. Len(q) /\ Len(q) \in Nat
         /\ DOMAIN Append(q, e) = 1 .. Len(q) + 1
         /\ \A i \in DOMAIN q : Append(q, e)[i] = q[i]
         /\ Append(q, e)[Len(q) + 1] = e
<1>1. /\ Append(q, e) \in Seq(S)
      /\ Len(Append(q, e)) = Len(q) + 1
      /\ \A i \in 1 .. Len(q) : Append(q, e)[i] = q[i]
      /\ Append(q, e)[Len(q) + 1] = e
  BY AppendProperties
<1> QED BY <1>1, LenProperties

-----------------------------------------------------------------------------
(* What the steps change. *)

LEMMA QueuedEntry ==
  ASSUME CacheInv, NEW s \in Streams, NEW i \in DOMAIN queue[s]
  PROVE  /\ i \in Nat \ {0}
         /\ queue[s][i] \in Entries
         /\ queue[s][i].thread \in Threads
         /\ queue[s][i].key \in Keys
         /\ queue[s][i].call \in Calls
         /\ queue[s][i].call.table \in Tables
         /\ Launched(queue[s][i])
         /\ Object(queue[s][i]) \in Objects
<1>1. queue[s] \in Seq(Entries)
  BY DEF CacheInv, TypeOK
<1>2. i \in 1 .. Len(queue[s]) /\ Len(queue[s]) \in Nat
  BY <1>1, LenProperties
<1>3. queue[s][i] \in Entries
  BY <1>1, <1>2, ElementOfSeq
<1>4. /\ queue[s][i].thread \in Threads
      /\ queue[s][i].key \in Keys
      /\ queue[s][i].call \in Calls
      /\ queue[s][i].call.table \in Tables
  BY <1>3 DEF Entries, Calls
<1>5. Launched(queue[s][i])
  BY DEF CacheInv
<1>6. Object(queue[s][i]) \in Objects
  BY <1>4, <1>5 DEF CacheInv, TypeOK, Launched, Object
<1> QED BY <1>2, <1>3, <1>4, <1>5, <1>6

(* A call adds one entry to one stream and leaves one object in one cache, *)
(* which is empty before if clear_cache was called.                        *)
LEMMA CallStep ==
  ASSUME CacheInv, NEW t \in Threads, NEW s \in Streams, NEW c \in Calls, Call(t, s, c)
  PROVE  /\ UNCHANGED <<op, cache_generation, contents>>
         /\ generation' = [generation EXCEPT ![t] = cache_generation]
         /\ queue' \in [Streams -> Seq(Entries)]
         /\ cache' \in [Threads -> [Keys -> Objects \cup {None}]]
         /\ \A u \in Streams \ {s} : queue'[u] = queue[u]
         /\ \A v \in Threads \ {t} : cache'[v] = cache[v]
         /\ \A k \in Keys \ {Key(c)} : cache'[t][k] = Flushed(t)[k]
         /\ cache'[t][Key(c)] = Called(t, s, c)
         /\ DOMAIN queue[s] = 1 .. Len(queue[s])
         /\ Len(queue[s]) \in Nat
         /\ DOMAIN queue'[s] = 1 .. Len(queue[s]) + 1
         /\ \A i \in DOMAIN queue[s] : queue'[s][i] = queue[s][i]
         /\ queue'[s][Len(queue[s]) + 1]
              = [thread |-> t, call |-> c, key |-> Key(c), born |-> cache_generation,
                 cast |-> Casts(Found(t, c), c)]
<1> DEFINE e == [thread |-> t, call |-> c, key |-> Key(c), born |-> Found(t, c).born,
                 cast |-> Casts(Found(t, c), c)]
           f == [Flushed(t) EXCEPT ![Key(c)] = Called(t, s, c)]
<1>1. TypeOK
  BY DEF CacheInv
<1>2. /\ Key(c) \in Keys
      /\ Found(t, c) \in Objects
      /\ Found(t, c).born = cache_generation
      /\ cache_generation \in Nat
      /\ Called(t, s, c) \in Objects
      /\ Flushed(t) \in [Keys -> Objects \cup {None}]
  BY <1>1, KeyType, FoundObject, CalledObject, FlushedCache DEF TypeOK
<1>3. e \in Entries
  <2>1. Casts(Found(t, c), c) \in BOOLEAN
    BY DEF Casts
  <2> HIDE DEF e
  <2> QED BY <1>2, <2>1 DEF Entries, e
<1>4. /\ UNCHANGED <<op, cache_generation, contents>>
      /\ generation' = [generation EXCEPT ![t] = cache_generation]
      /\ queue' = [queue EXCEPT ![s] = Append(queue[s], e)]
      /\ cache' = [cache EXCEPT ![t] = f]
  BY DEF Call, Called
<1>5. /\ queue \in [Streams -> Seq(Entries)]
      /\ queue[s] \in Seq(Entries)
      /\ cache \in [Threads -> [Keys -> Objects \cup {None}]]
  BY <1>1 DEF TypeOK
<1>6. e = [thread |-> t, call |-> c, key |-> Key(c), born |-> cache_generation,
           cast |-> Casts(Found(t, c), c)]
  BY <1>2
<1> HIDE DEF e
<1>7. /\ f \in [Keys -> Objects \cup {None}]
      /\ f[Key(c)] = Called(t, s, c)
      /\ \A k \in Keys \ {Key(c)} : f[k] = Flushed(t)[k]
  BY <1>2
<1> HIDE DEF f
<1>8. /\ cache'[t] = f /\ queue'[s] = Append(queue[s], e)
      /\ \A u \in Streams \ {s} : queue'[u] = queue[u]
      /\ \A v \in Threads \ {t} : cache'[v] = cache[v]
      /\ cache' \in [Threads -> [Keys -> Objects \cup {None}]]
  BY <1>4, <1>5, <1>7
<1>9. /\ Append(queue[s], e) \in Seq(Entries)
      /\ DOMAIN queue[s] = 1 .. Len(queue[s]) /\ Len(queue[s]) \in Nat
      /\ DOMAIN Append(queue[s], e) = 1 .. Len(queue[s]) + 1
      /\ \A i \in DOMAIN queue[s] : Append(queue[s], e)[i] = queue[s][i]
      /\ Append(queue[s], e)[Len(queue[s]) + 1] = e
  BY <1>3, <1>5, AppendedQueue
<1>10. queue' \in [Streams -> Seq(Entries)]
  BY <1>4, <1>5, <1>9
<1> QED BY <1>4, <1>6, <1>7, <1>8, <1>9, <1>10

(* A cast changes the mark of the first entry and its object's buffer. *)
LEMMA RunCastStep ==
  ASSUME CacheInv, NEW s \in Streams, RunCast(s)
  PROVE  LET e == queue[s][1] IN
         /\ UNCHANGED <<op, cache_generation, generation, contents>>
         /\ 1 \in DOMAIN queue[s]
         /\ queue' \in [Streams -> Seq(Entries)]
         /\ cache' \in [Threads -> [Keys -> Objects \cup {None}]]
         /\ \A u \in Streams \ {s} : queue'[u] = queue[u]
         /\ \A v \in Threads \ {e.thread} : cache'[v] = cache[v]
         /\ \A k \in Keys \ {e.key} : cache'[e.thread][k] = cache[e.thread][k]
         /\ DOMAIN queue'[s] = DOMAIN queue[s]
         /\ \A i \in DOMAIN queue[s] : i # 1 => queue'[s][i] = queue[s][i]
         /\ e.cast
         /\ queue'[s][1].thread = e.thread /\ queue'[s][1].call = e.call
         /\ queue'[s][1].key = e.key /\ queue'[s][1].born = e.born
         /\ ~queue'[s][1].cast
         /\ cache'[e.thread][e.key] \in Objects
         /\ cache'[e.thread][e.key].shape = Object(e).shape
         /\ cache'[e.thread][e.key].scalar = Object(e).scalar
         /\ cache'[e.thread][e.key].born = Object(e).born
         /\ cache'[e.thread][e.key].memo = Object(e).memo
         /\ cache'[e.thread][e.key].kept = Object(e).kept
         /\ cache'[e.thread][e.key].buffer = Data(e.call.table)
<1> DEFINE e == queue[s][1]
           n == [e EXCEPT !.cast = FALSE]
           o == [Object(e) EXCEPT !.buffer = Data(e.call.table)]
           f == [cache[e.thread] EXCEPT ![e.key] = o]
<1>1. TypeOK
  BY DEF CacheInv
<1>2. /\ queue \in [Streams -> Seq(Entries)]
      /\ queue[s] \in Seq(Entries)
      /\ queue[s] # <<>>
      /\ cache \in [Threads -> [Keys -> Objects \cup {None}]]
  BY <1>1 DEF TypeOK, RunCast
<1>3. 1 \in DOMAIN queue[s] /\ Head(queue[s]) = e /\ e \in Entries
  BY <1>2, TailOfQueue
<1>4. /\ e.thread \in Threads /\ e.key \in Keys /\ e.call.table \in Tables
      /\ Launched(e) /\ Object(e) \in Objects
  BY <1>3, QueuedEntry
<1>5. Alive(e)
  BY <1>4 DEF Launched, Alive
<1>6. /\ UNCHANGED <<op, cache_generation, generation, contents>>
      /\ e.cast
      /\ queue' = [queue EXCEPT ![s] = <<n>> \o Tail(queue[s])]
      /\ cache' = [cache EXCEPT ![e.thread][e.key].buffer = Data(e.call.table)]
  BY <1>3, <1>5 DEF RunCast
<1>7. /\ n \in Entries /\ n.thread = e.thread /\ n.call = e.call /\ n.key = e.key
      /\ n.born = e.born /\ ~n.cast
  BY <1>3 DEF Entries
<1>8. Data(e.call.table) \in DataSets
  BY <1>1, <1>4, DataType
<1>9. /\ o \in Objects
      /\ o.shape = Object(e).shape /\ o.scalar = Object(e).scalar
      /\ o.born = Object(e).born /\ o.memo = Object(e).memo
      /\ o.kept = Object(e).kept
      /\ o.buffer = Data(e.call.table)
  BY <1>4, <1>8 DEF Objects
<1>10. cache' = [cache EXCEPT ![e.thread] = f]
  BY <1>2, <1>4, <1>6 DEF Object
<1> HIDE DEF n, o
<1>11. /\ f \in [Keys -> Objects \cup {None}]
       /\ f[e.key] = o
       /\ \A k \in Keys \ {e.key} : f[k] = cache[e.thread][k]
  BY <1>2, <1>4, <1>9
<1> HIDE DEF f
<1>12. /\ cache'[e.thread] = f
       /\ \A v \in Threads \ {e.thread} : cache'[v] = cache[v]
       /\ cache' \in [Threads -> [Keys -> Objects \cup {None}]]
  BY <1>2, <1>4, <1>10, <1>11
<1>13. /\ <<n>> \o Tail(queue[s]) \in Seq(Entries)
       /\ DOMAIN (<<n>> \o Tail(queue[s])) = DOMAIN queue[s]
       /\ (<<n>> \o Tail(queue[s]))[1] = n
       /\ \A i \in DOMAIN queue[s] : i # 1 => (<<n>> \o Tail(queue[s]))[i] = queue[s][i]
  BY <1>2, <1>7, ReplacedHead
<1>14. /\ queue'[s] = <<n>> \o Tail(queue[s])
       /\ \A u \in Streams \ {s} : queue'[u] = queue[u]
       /\ queue' \in [Streams -> Seq(Entries)]
  BY <1>2, <1>6, <1>13
<1> QED BY <1>3, <1>6, <1>7, <1>9, <1>11, <1>12, <1>13, <1>14

(* A kernel's entry leaves its stream. *)
LEMMA RunKernelStep ==
  ASSUME CacheInv, NEW s \in Streams, RunKernel(s)
  PROVE  /\ UNCHANGED <<op, cache_generation, generation, cache, contents>>
         /\ 1 \in DOMAIN queue[s]
         /\ ~queue[s][1].cast
         /\ queue' \in [Streams -> Seq(Entries)]
         /\ \A u \in Streams \ {s} : queue'[u] = queue[u]
         /\ \A i \in DOMAIN queue'[s] : /\ i \in Nat \ {0}
                                       /\ i + 1 \in DOMAIN queue[s]
                                       /\ queue'[s][i] = queue[s][i + 1]
         /\ \A i \in DOMAIN queue[s] : i \in Nat \ {0} /\ (i # 1 => i - 1 \in DOMAIN queue'[s])
<1>1. TypeOK
  BY DEF CacheInv
<1>2. /\ queue \in [Streams -> Seq(Entries)]
      /\ queue[s] \in Seq(Entries)
      /\ queue[s] # <<>>
  BY <1>1 DEF TypeOK, RunKernel
<1>3. /\ 1 \in DOMAIN queue[s] /\ Head(queue[s]) = queue[s][1]
      /\ Tail(queue[s]) \in Seq(Entries)
      /\ \A i \in DOMAIN Tail(queue[s]) : /\ i \in Nat \ {0}
                                         /\ i + 1 \in DOMAIN queue[s]
                                         /\ Tail(queue[s])[i] = queue[s][i + 1]
      /\ \A i \in DOMAIN queue[s] : i # 1 => i - 1 \in DOMAIN Tail(queue[s])
  BY <1>2, TailOfQueue
<1>4. \A i \in DOMAIN queue[s] : i \in Nat \ {0}
  BY QueuedEntry
<1>5. /\ UNCHANGED <<op, cache_generation, generation, cache, contents>>
      /\ ~queue[s][1].cast
      /\ queue' = [queue EXCEPT ![s] = Tail(queue[s])]
  BY <1>3 DEF RunKernel
<1>6. /\ queue'[s] = Tail(queue[s])
      /\ \A u \in Streams \ {s} : queue'[u] = queue[u]
      /\ queue' \in [Streams -> Seq(Entries)]
  BY <1>2, <1>3, <1>5
<1> QED BY <1>3, <1>4, <1>5, <1>6

-----------------------------------------------------------------------------
(* Types, and objects that outlive their kernels. *)

LEMMA InitCache == Init => CacheInv
<1> SUFFICES ASSUME Init PROVE CacheInv
  OBVIOUS
<1>1. queue = [s \in Streams |-> <<>>] /\ <<>> \in Seq(Entries) /\ DOMAIN <<>> = {}
  BY EmptySeq, LenProperties DEF Init
<1>2. TypeOK
  BY <1>1 DEF Init, TypeOK
<1> QED BY <1>1, <1>2 DEF CacheInv

(* The entries of a step's new state, in terms of its functions. *)
LEMMA LaunchedNext ==
  ASSUME \A s \in Streams : \A i \in DOMAIN queue'[s] :
           LET e == queue'[s][i] IN
           /\ e.key = Key(e.call)
           /\ cache'[e.thread][e.key] # None
           /\ cache'[e.thread][e.key].born = e.born
           /\ generation'[e.thread] = cache_generation'
  PROVE  \A s \in Streams : \A i \in DOMAIN queue'[s] : Launched(queue[s][i])'
BY DEF Launched, Object, Key

LEMMA CallCache ==
  ASSUME CacheInv, NEW t \in Threads, NEW s \in Streams, NEW c \in Calls, Call(t, s, c)
  PROVE  CacheInv'
<1> DEFINE n == Len(queue[s]) + 1
<1>1. TypeOK
  BY DEF CacheInv
<1>2. /\ generation \in [Threads -> 0 .. cache_generation]
      /\ cache_generation \in Nat
      /\ Key(c) \in Keys
  BY <1>1, KeyType DEF TypeOK
<1>3. /\ UNCHANGED <<op, cache_generation, contents>>
      /\ generation' = [generation EXCEPT ![t] = cache_generation]
      /\ queue' \in [Streams -> Seq(Entries)]
      /\ cache' \in [Threads -> [Keys -> Objects \cup {None}]]
      /\ \A u \in Streams \ {s} : queue'[u] = queue[u]
      /\ \A v \in Threads \ {t} : cache'[v] = cache[v]
      /\ \A k \in Keys \ {Key(c)} : cache'[t][k] = Flushed(t)[k]
      /\ cache'[t][Key(c)] = Called(t, s, c)
  BY CallStep
<1>4. /\ generation' \in [Threads -> 0 .. cache_generation]
      /\ generation'[t] = cache_generation
      /\ \A v \in Threads \ {t} : generation'[v] = generation[v]
  BY <1>2, <1>3
<1>5. /\ cache'[t][Key(c)] \in Objects
      /\ cache'[t][Key(c)] # None
      /\ cache'[t][Key(c)].born = cache_generation
      /\ Key(cache'[t][Key(c)]) = Key(c)
  BY <1>1, <1>3, CalledObject, NoneIsNothing
<1>6. ASSUME NEW k \in Keys \ {Key(c)}, cache'[t][k] # None
      PROVE  /\ generation[t] = cache_generation
             /\ cache'[t][k] = cache[t][k]
             /\ cache'[t][k].born = cache_generation
             /\ Key(cache'[t][k]) = k
  <2>1. cache'[t][k] = Flushed(t)[k]
    BY <1>3
  <2>2. generation[t] = cache_generation /\ Flushed(t) = cache[t]
    BY <1>1, <1>6, <2>1, FlushedCache
  <2> QED BY <1>1, <1>6, <2>1, <2>2 DEF TypeOK
<1>7. \A v \in Threads : \A k \in Keys :
        cache'[v][k] # None => cache'[v][k].born = generation'[v] /\ Key(cache'[v][k]) = k
  <2> SUFFICES ASSUME NEW v \in Threads, NEW k \in Keys, cache'[v][k] # None
               PROVE  cache'[v][k].born = generation'[v] /\ Key(cache'[v][k]) = k
    OBVIOUS
  <2>1. CASE v # t
    BY <1>1, <1>3, <1>4, <2>1 DEF TypeOK
  <2>2. CASE v = t /\ k # Key(c)
    BY <1>4, <1>6, <2>2
  <2>3. CASE v = t /\ k = Key(c)
    BY <1>4, <1>5, <2>3
  <2> QED BY <2>1, <2>2, <2>3
<1>8. TypeOK'
  <2>1. \A v \in Threads : \A k \in Keys :
          cache'[v][k] # None => cache'[v][k].born = generation'[v] /\ Key(cache[v][k])' = k
    BY <1>7 DEF Key
  <2> QED BY <1>1, <1>3, <1>4, <2>1 DEF TypeOK, Key
<1>9. ASSUME NEW e \in Entries, Launched(e)
      PROVE  /\ e.key = Key(e.call)
             /\ cache'[e.thread][e.key] # None
             /\ cache'[e.thread][e.key].born = e.born
             /\ generation'[e.thread] = cache_generation
  <2>1. /\ e.key = Key(e.call) /\ cache[e.thread][e.key] # None
        /\ cache[e.thread][e.key].born = e.born
        /\ generation[e.thread] = cache_generation
    BY <1>9 DEF Launched, Object
  <2>2. e.thread \in Threads /\ e.key \in Keys
    BY DEF Entries
  <2>3. CASE e.thread # t
    BY <1>3, <1>4, <2>1, <2>2, <2>3
  <2>4. CASE e.thread = t /\ e.key # Key(c)
    <3>1. Flushed(t) = cache[t]
      BY <1>1, <2>1, <2>4, FlushedCache
    <3> QED BY <1>3, <1>4, <2>1, <2>2, <2>4, <3>1
  <2>5. CASE e.thread = t /\ e.key = Key(c)
    <3>1. cache[t][Key(c)].born = cache_generation
      BY <1>1, <1>2, <2>1, <2>5 DEF TypeOK
    <3> QED BY <1>4, <1>5, <2>1, <2>5, <3>1
  <2> QED BY <2>3, <2>4, <2>5
<1>10. ASSUME NEW u \in Streams, NEW i \in DOMAIN queue'[u]
       PROVE  LET e == queue'[u][i] IN
              /\ e.key = Key(e.call)
              /\ cache'[e.thread][e.key] # None
              /\ cache'[e.thread][e.key].born = e.born
              /\ generation'[e.thread] = cache_generation
  <2>1. CASE i \in DOMAIN queue[u] /\ queue'[u][i] = queue[u][i]
    BY <1>9, <2>1, QueuedEntry
  <2>2. CASE u = s /\ i = n
    <3>1. queue'[s][n] = [thread |-> t, call |-> c, key |-> Key(c),
                          born |-> cache_generation, cast |-> Casts(Found(t, c), c)]
      BY CallStep
    <3>2. /\ queue'[s][n].thread = t /\ queue'[s][n].call = c
          /\ queue'[s][n].key = Key(c) /\ queue'[s][n].born = cache_generation
      BY <3>1
    <3> QED BY <1>4, <1>5, <2>2, <3>2
  <2>3. CASE u = s /\ i # n
    <3>1. /\ DOMAIN queue[s] = 1 .. Len(queue[s])
          /\ Len(queue[s]) \in Nat
          /\ DOMAIN queue'[s] = 1 .. n
          /\ \A j \in DOMAIN queue[s] : queue'[s][j] = queue[s][j]
      BY CallStep
    <3>2. i \in 1 .. Len(queue[s])
      BY <2>3, <3>1
    <3>3. i \in DOMAIN queue[u] /\ queue'[u][i] = queue[u][i]
      BY <2>3, <3>1, <3>2
    <3> QED BY <2>1, <3>3
  <2>4. CASE u # s
    BY <1>3, <2>1, <2>4
  <2> QED BY <2>2, <2>3, <2>4
<1> QED BY <1>3, <1>8, <1>10, LaunchedNext DEF CacheInv

LEMMA RunCastCache ==
  ASSUME CacheInv, NEW s \in Streams, RunCast(s)
  PROVE  CacheInv'
<1> DEFINE h == queue[s][1]
<1>1. TypeOK
  BY DEF CacheInv
<1>2. /\ UNCHANGED <<op, cache_generation, generation, contents>>
      /\ 1 \in DOMAIN queue[s]
      /\ queue' \in [Streams -> Seq(Entries)]
      /\ cache' \in [Threads -> [Keys -> Objects \cup {None}]]
      /\ \A u \in Streams \ {s} : queue'[u] = queue[u]
      /\ \A v \in Threads \ {h.thread} : cache'[v] = cache[v]
      /\ \A k \in Keys \ {h.key} : cache'[h.thread][k] = cache[h.thread][k]
      /\ DOMAIN queue'[s] = DOMAIN queue[s]
      /\ \A i \in DOMAIN queue[s] : i # 1 => queue'[s][i] = queue[s][i]
      /\ queue'[s][1].thread = h.thread /\ queue'[s][1].call = h.call
      /\ queue'[s][1].key = h.key /\ queue'[s][1].born = h.born
  BY RunCastStep
<1>3. /\ cache'[h.thread][h.key] \in Objects
      /\ cache'[h.thread][h.key].shape = Object(h).shape
      /\ cache'[h.thread][h.key].scalar = Object(h).scalar
      /\ cache'[h.thread][h.key].born = Object(h).born
  BY RunCastStep
<1>4. h.thread \in Threads /\ h.key \in Keys /\ Object(h) \in Objects /\ Launched(h)
  BY <1>2, QueuedEntry
<1> HIDE DEF h
<1>5. ASSUME NEW v \in Threads, NEW k \in Keys
      PROVE  /\ cache'[v][k] # None <=> cache[v][k] # None
             /\ cache[v][k] # None => /\ cache'[v][k].born = cache[v][k].born
                                      /\ Key(cache'[v][k]) = Key(cache[v][k])
  <2>1. CASE v = h.thread /\ k = h.key
    BY <1>3, <1>4, <2>1, NoneIsNothing DEF Object, Key
  <2>2. CASE ~(v = h.thread /\ k = h.key)
    BY <1>2, <1>4, <2>2
  <2> QED BY <2>1, <2>2
<1>6. TypeOK'
  <2>1. ASSUME NEW v \in Threads, NEW k \in Keys, cache'[v][k] # None
        PROVE  cache'[v][k].born = generation[v] /\ Key(cache'[v][k]) = k
    BY <1>1, <1>5, <2>1 DEF TypeOK
  <2>2. \A v \in Threads : \A k \in Keys :
          cache'[v][k] # None => cache'[v][k].born = generation[v] /\ Key(cache[v][k])' = k
    BY <2>1 DEF Key
  <2> QED BY <1>1, <1>2, <2>2 DEF TypeOK
<1>7. ASSUME NEW e \in Entries, Launched(e)
      PROVE  /\ e.key = Key(e.call)
             /\ cache'[e.thread][e.key] # None
             /\ cache'[e.thread][e.key].born = e.born
             /\ generation[e.thread] = cache_generation
  <2>1. e.thread \in Threads /\ e.key \in Keys
    BY DEF Entries
  <2> QED BY <1>5, <1>7, <2>1 DEF Launched, Object
<1>8. ASSUME NEW u \in Streams, NEW i \in DOMAIN queue'[u]
      PROVE  LET e == queue'[u][i] IN
             /\ e.key = Key(e.call)
             /\ cache'[e.thread][e.key] # None
             /\ cache'[e.thread][e.key].born = e.born
             /\ generation[e.thread] = cache_generation
  <2>1. CASE i \in DOMAIN queue[u] /\ queue'[u][i] = queue[u][i]
    BY <1>7, <2>1, QueuedEntry
  <2>2. CASE u = s /\ i = 1
    <3>1. h = queue[s][1] /\ h \in Entries
      BY <1>2, QueuedEntry DEF h
    <3> QED BY <1>2, <1>4, <1>7, <2>2, <3>1
  <2> QED BY <1>2, <2>1, <2>2
<1> QED BY <1>2, <1>6, <1>8, LaunchedNext DEF CacheInv

LEMMA RunKernelCache ==
  ASSUME CacheInv, NEW s \in Streams, RunKernel(s)
  PROVE  CacheInv'
<1>1. TypeOK
  BY DEF CacheInv
<1>2. /\ UNCHANGED <<op, cache_generation, generation, cache, contents>>
      /\ queue' \in [Streams -> Seq(Entries)]
      /\ \A u \in Streams \ {s} : queue'[u] = queue[u]
      /\ \A i \in DOMAIN queue'[s] : /\ i + 1 \in DOMAIN queue[s]
                                    /\ queue'[s][i] = queue[s][i + 1]
  BY RunKernelStep
<1>3. TypeOK'
  <2>1. \A v \in Threads : \A k \in Keys :
          cache[v][k] # None => cache[v][k].born = generation[v] /\ Key(cache[v][k])' = k
    BY <1>1, <1>2 DEF TypeOK, Key
  <2> QED BY <1>1, <1>2, <2>1 DEF TypeOK
<1>4. ASSUME NEW u \in Streams, NEW i \in DOMAIN queue'[u]
      PROVE  LET e == queue'[u][i] IN
             /\ e.key = Key(e.call)
             /\ cache[e.thread][e.key] # None
             /\ cache[e.thread][e.key].born = e.born
             /\ generation[e.thread] = cache_generation
  <2>1. Launched(queue'[u][i])
    BY <1>2, QueuedEntry
  <2> QED BY <2>1 DEF Launched, Object
<1> QED BY <1>2, <1>3, <1>4, LaunchedNext DEF CacheInv

LEMMA OverwriteCache ==
  ASSUME CacheInv, NEW a \in Tables, Overwrite(a)
  PROVE  CacheInv'
<1>1. TypeOK
  BY DEF CacheInv
<1>2. /\ UNCHANGED <<op, cache_generation, generation, cache, queue>>
      /\ contents' = [contents EXCEPT ![a] = contents[a] + 1]
  BY DEF Overwrite
<1>3. contents' \in [Tables -> Nat]
  BY <1>1, <1>2 DEF TypeOK
<1>4. TypeOK'
  <2>1. \A v \in Threads : \A k \in Keys :
          cache[v][k] # None => cache[v][k].born = generation[v] /\ Key(cache[v][k])' = k
    BY <1>1, <1>2 DEF TypeOK, Key
  <2> QED BY <1>1, <1>2, <1>3, <2>1 DEF TypeOK
<1> QED BY <1>2, <1>4 DEF CacheInv, Launched, Object, Key

(* clear_cache is called between test modules, when no kernel waits.       *)
LEMMA NextModuleCache ==
  ASSUME CacheInv, NextModule
  PROVE  CacheInv'
<1>1. TypeOK
  BY DEF CacheInv
<1>2. /\ UNCHANGED <<op, generation, cache, queue>>
      /\ cache_generation' = cache_generation + 1
      /\ contents' = [a \in Tables |-> 0]
      /\ \A s \in Streams : queue[s] = <<>>
  BY DEF NextModule
<1>3. cache_generation' \in Nat /\ generation' \in [Threads -> 0 .. cache_generation']
  BY <1>1, <1>2 DEF TypeOK
<1>4. TypeOK'
  <2>1. \A v \in Threads : \A k \in Keys :
          cache[v][k] # None => cache[v][k].born = generation[v] /\ Key(cache[v][k])' = k
    BY <1>1, <1>2 DEF TypeOK, Key
  <2>2. contents' \in [Tables -> Nat]
    BY <1>2
  <2> QED BY <1>1, <1>2, <1>3, <2>1, <2>2 DEF TypeOK
<1>5. \A s \in Streams : queue'[s] = <<>> /\ DOMAIN <<>> = {}
  BY <1>2, EmptySeq, LenProperties
<1> QED BY <1>4, <1>5 DEF CacheInv

LEMMA StepCache == CacheInv /\ [Next]_cacheVars => CacheInv'
<1> SUFFICES ASSUME CacheInv, [Next]_cacheVars PROVE CacheInv'
  OBVIOUS
<1>1. CASE \E t \in Threads : \E s \in Streams : \E c \in Calls : Call(t, s, c)
  BY <1>1, CallCache
<1>2. CASE \E s \in Streams : RunCast(s) \/ RunKernel(s)
  BY <1>2, RunCastCache, RunKernelCache
<1>3. CASE \E a \in Tables : Overwrite(a)
  BY <1>3, OverwriteCache
<1>4. CASE NextModule
  BY <1>4, NextModuleCache
<1>5. CASE UNCHANGED cacheVars
  BY <1>5 DEF cacheVars, CacheInv, TypeOK, Launched, Object, Key
<1> QED BY <1>1, <1>2, <1>3, <1>4, <1>5 DEF Next

(* The inductive invariant of the cache (operator.h:181-209): besides the  *)
(* types, every waiting kernel's object is in its thread's cache, under    *)
(* the key of the kernel's call.                                           *)
THEOREM CacheStaysTyped == Spec => []CacheInv
<1>1. Init => CacheInv
  BY InitCache
<1>2. CacheInv /\ [Next]_cacheVars => CacheInv'
  BY StepCache
<1> QED BY <1>1, <1>2, PTL DEF Spec

(* Types; no thread is ahead of clear_cache; a cache holds objects of its  *)
(* thread's generation only, under the key they were made for              *)
(* (operator.h:187-192).                                                   *)
THEOREM TypeCorrect == Spec => []TypeOK
<1>1. CacheInv => TypeOK
  BY DEF CacheInv
<1> QED BY <1>1, CacheStaysTyped, PTL

(* However calls of any threads on any streams, kernels and clear_cache    *)
(* interleave, no object is destroyed, and its buffer freed, while its     *)
(* kernels wait.                                                           *)
THEOREM ObjectsOutliveTheirKernels == Spec => []PendingObjectsAlive
<1>1. CacheInv => PendingObjectsAlive
  BY DEF CacheInv, Launched, PendingObjectsAlive, Alive
<1> QED BY <1>1, CacheStaysTyped, PTL

-----------------------------------------------------------------------------
(* What an object's buffer holds. *)

LEMMA OnPlaces ==
  ASSUME NEW s, NEW t, NEW k, NEW i
  PROVE  i \in On(s, t, k) <=>
           i \in DOMAIN queue[s] /\ queue[s][i].thread = t /\ queue[s][i].key = k
BY DEF On

LEMMA OnPlacesNext ==
  ASSUME NEW s, NEW t, NEW k, NEW i
  PROVE  i \in On(s, t, k)' <=>
           i \in DOMAIN queue'[s] /\ queue'[s][i].thread = t /\ queue'[s][i].key = k
BY DEF On

(* A step that does nothing to an object, to what waits on it and to data  *)
(* that concern it.                                                        *)
LEMMA SameObject ==
  ASSUME NEW t \in Threads, NEW k \in Keys, BufferInv(t, k),
         Kept(t, k)' => Kept(t, k),
         op' = op, cache'[t][k] = cache[t][k],
         \A s \in Streams : On(s, t, k)' = On(s, t, k),
         \A s \in Streams : \A i \in On(s, t, k) : queue'[s][i] = queue[s][i],
         \A b : \A a \in Tables : Holds(b, a) => Holds(b, a)',
         \A s \in Streams : \A i \in On(s, t, k) : queue[s][i].call.table \in Tables
  PROVE  BufferInv(t, k)'
<1> SUFFICES ASSUME Kept(t, k)
             PROVE  /\ OneStream(t, k)' /\ Ready(t, k)' /\ Chained(t, k)'
                    /\ Remembered(t, k)' /\ Filled(t, k)'
  BY DEF BufferInv
<1>0. OneStream(t, k) /\ Ready(t, k) /\ Chained(t, k) /\ Remembered(t, k) /\ Filled(t, k)
  BY DEF BufferInv
<1>1. OneStream(t, k)'
  BY <1>0 DEF OneStream
<1>2. Ready(t, k)'
  BY <1>0 DEF Ready, NoCast
<1>3. Chained(t, k)'
  BY <1>0 DEF Chained, NoCast
<1>4. Remembered(t, k)'
  BY <1>0 DEF Remembered
<1>5. Filled(t, k)'
  BY <1>0 DEF Filled, Settled
<1> QED BY <1>1, <1>2, <1>3, <1>4, <1>5

(* Places of an object's calls, and the entries there. *)
LEMMA PlacesKnown ==
  ASSUME CacheInv, NEW s \in Streams, NEW t \in Threads, NEW k \in Keys, NEW i \in On(s, t, k)
  PROVE  /\ i \in DOMAIN queue[s] /\ i \in Nat \ {0}
         /\ queue[s][i] \in Entries
         /\ queue[s][i].thread = t /\ queue[s][i].key = k
         /\ queue[s][i].call.table \in Tables
         /\ generation[t] = cache_generation
         /\ cache[t][k] # None
         /\ cache[t][k] \in Objects
<1>1. i \in DOMAIN queue[s] /\ queue[s][i].thread = t /\ queue[s][i].key = k
  BY DEF On
<1> QED BY <1>1, QueuedEntry DEF Launched, Object

LEMMA RunKernelBuffer ==
  ASSUME CacheInv, NEW s \in Streams, RunKernel(s),
         NEW t \in Threads, NEW k \in Keys, BufferInv(t, k)
  PROVE  BufferInv(t, k)'
<1> DEFINE d(u) == IF u = s THEN 1 ELSE 0
<1>1. /\ UNCHANGED <<op, cache_generation, generation, cache, contents>>
      /\ ~queue[s][1].cast
      /\ \A u \in Streams \ {s} : queue'[u] = queue[u]
      /\ \A i \in DOMAIN queue'[s] : /\ i \in Nat \ {0}
                                    /\ i + 1 \in DOMAIN queue[s]
                                    /\ queue'[s][i] = queue[s][i + 1]
      /\ \A i \in DOMAIN queue[s] : i \in Nat \ {0} /\ (i # 1 => i - 1 \in DOMAIN queue'[s])
  BY RunKernelStep
<1>2. ASSUME NEW u \in Streams, NEW i \in On(u, t, k)'
      PROVE  i \in Nat \ {0} /\ i + d(u) \in On(u, t, k) /\ queue'[u][i] = queue[u][i + d(u)]
  <2>1. i \in DOMAIN queue'[u] /\ queue'[u][i].thread = t /\ queue'[u][i].key = k
    BY <1>2, OnPlacesNext
  <2>2. CASE u = s
    BY <1>1, <2>1, <2>2, OnPlaces
  <2>3. CASE u # s
    <3>1. queue'[u] = queue[u] /\ i \in On(u, t, k)
      BY <1>1, <2>1, <2>3, OnPlaces
    <3> QED BY <2>3, <3>1, PlacesKnown
  <2> QED BY <2>2, <2>3
<1>3. ASSUME NEW u \in Streams, NEW m \in On(u, t, k)
      PROVE  /\ m \in Nat \ {0}
             /\ d(u) < m => /\ m - d(u) \in On(u, t, k)'
                            /\ queue'[u][m - d(u)] = queue[u][m]
             /\ m <= d(u) => ~queue[u][m].cast
  <2>1. /\ m \in DOMAIN queue[u] /\ queue[u][m].thread = t /\ queue[u][m].key = k
        /\ m \in Nat \ {0}
    BY <1>3, PlacesKnown
  <2>2. CASE u = s
    <3>1. m <= 1 => m = 1
      BY <2>1
    <3>2. 1 < m => m - 1 \in DOMAIN queue'[s] /\ queue'[s][m - 1] = queue[s][m]
      <4> SUFFICES ASSUME 1 < m
                   PROVE  m - 1 \in DOMAIN queue'[s] /\ queue'[s][m - 1] = queue[s][m]
        OBVIOUS
      <4>1. m - 1 \in DOMAIN queue'[s]
        BY <1>1, <2>1, <2>2
      <4>2. queue'[s][m - 1] = queue[s][(m - 1) + 1] /\ (m - 1) + 1 = m
        BY <1>1, <2>1, <4>1
      <4> QED BY <4>1, <4>2
    <3> QED BY <1>1, <2>1, <2>2, <3>1, <3>2, OnPlacesNext
  <2>3. CASE u # s
    <3>1. queue'[u] = queue[u] /\ d(u) = 0 /\ m - 0 = m
      BY <1>1, <2>1, <2>3
    <3> QED BY <2>1, <3>1, OnPlacesNext
  <2> QED BY <2>2, <2>3
<1>4. \A u \in Streams : d(u) \in Nat
  OBVIOUS
<1> HIDE DEF d
<1>5. ASSUME NEW u \in Streams, NEW i \in Nat, NEW j \in Nat, NoCast(u, t, k, i, j)'
      PROVE  NoCast(u, t, k, i + d(u), j + d(u))
  <2> SUFFICES ASSUME NEW m \in On(u, t, k), i + d(u) < m, m <= j + d(u)
               PROVE  ~queue[u][m].cast
    BY DEF NoCast
  <2>1. /\ m \in Nat /\ d(u) < m
        /\ m - d(u) \in On(u, t, k)' /\ queue'[u][m - d(u)] = queue[u][m]
    <3>1. m \in Nat /\ d(u) < m
      BY <1>3, <1>4
    <3> QED BY <1>3, <3>1
  <2>2. i < m - d(u) /\ m - d(u) <= j
    BY <1>4, <2>1
  <2> QED BY <1>5, <2>1, <2>2 DEF NoCast
<1>6. ASSUME NEW u \in Streams, NEW j \in Nat, NoCast(u, t, k, 0, j)'
      PROVE  NoCast(u, t, k, 0, j + d(u))
  <2> SUFFICES ASSUME NEW m \in On(u, t, k), 0 < m, m <= j + d(u)
               PROVE  ~queue[u][m].cast
    BY DEF NoCast
  <2>1. CASE m <= d(u)
    BY <1>3, <2>1
  <2>2. CASE d(u) < m
    <3>1. NoCast(u, t, k, 0 + d(u), j + d(u))
      BY <1>5, <1>6
    <3>2. 0 + d(u) < m
      BY <1>4, <2>2
    <3> QED BY <3>1, <3>2 DEF NoCast
  <2>3. m \in Nat /\ d(u) \in Nat
    BY <1>3, <1>4
  <2> QED BY <2>1, <2>2, <2>3
<1>7. \A b : \A a : Holds(b, a) => Holds(b, a)'
  BY <1>1 DEF Holds, Data
<1> SUFFICES ASSUME Kept(t, k)
             PROVE  /\ OneStream(t, k)' /\ Ready(t, k)' /\ Chained(t, k)'
                    /\ Remembered(t, k)' /\ Filled(t, k)'
  BY <1>1 DEF BufferInv, Kept
<1>8. OneStream(t, k) /\ Ready(t, k) /\ Chained(t, k) /\ Remembered(t, k) /\ Filled(t, k)
  BY DEF BufferInv
<1>9. OneStream(t, k)'
  <2> SUFFICES ASSUME NEW v \in Streams, NEW u \in Streams, NEW m \in On(v, t, k)',
                      queue'[v][m].cast, v # u, NEW i \in On(u, t, k)'
               PROVE  FALSE
    BY DEF OneStream
  <2>1. m + d(v) \in On(v, t, k) /\ queue[v][m + d(v)].cast /\ i + d(u) \in On(u, t, k)
    BY <1>2
  <2> QED BY <1>8, <2>1 DEF OneStream
<1>10. Ready(t, k)'
  <2> SUFFICES ASSUME NEW u \in Streams, NEW i \in On(u, t, k)', NoCast(u, t, k, 0, i)'
               PROVE  Holds(cache[t][k].buffer, queue'[u][i].call.table)
    BY <1>1 DEF Ready, Holds, Data
  <2>1. i \in Nat /\ i + d(u) \in On(u, t, k) /\ queue'[u][i] = queue[u][i + d(u)]
    BY <1>2
  <2>2. NoCast(u, t, k, 0, i + d(u))
    BY <1>6, <2>1
  <2>3. Holds(cache[t][k].buffer, queue[u][i + d(u)].call.table)
    BY <1>8, <2>1, <2>2 DEF Ready
  <2> QED BY <2>1, <2>3
<1>11. Chained(t, k)'
  <2> SUFFICES ASSUME NEW u \in Streams, NEW i \in On(u, t, k)', NEW j \in On(u, t, k)',
                      j < i, NoCast(u, t, k, j, i)'
               PROVE  queue'[u][j].call.table = queue'[u][i].call.table
    BY DEF Chained
  <2>1. /\ i \in Nat /\ i + d(u) \in On(u, t, k) /\ queue'[u][i] = queue[u][i + d(u)]
        /\ j \in Nat /\ j + d(u) \in On(u, t, k) /\ queue'[u][j] = queue[u][j + d(u)]
    BY <1>2
  <2>2. NoCast(u, t, k, j + d(u), i + d(u)) /\ j + d(u) < i + d(u)
    BY <1>4, <1>5, <2>1
  <2> QED BY <1>8, <2>1, <2>2 DEF Chained
<1>12. Remembered(t, k)'
  <2> SUFFICES ASSUME op # "rms_norm", NEW u \in Streams, NEW j \in On(u, t, k)',
                      \A m \in On(u, t, k)' : j < m => ~queue'[u][m].cast
               PROVE  queue'[u][j].call.table = cache[t][k].memo
    BY <1>1 DEF Remembered
  <2>1. j \in Nat /\ j + d(u) \in On(u, t, k) /\ queue'[u][j] = queue[u][j + d(u)]
    BY <1>2
  <2>2. ASSUME NEW m \in On(u, t, k), j + d(u) < m PROVE ~queue[u][m].cast
    <3>1. m \in Nat /\ d(u) < m
      BY <1>3, <1>4, <2>1, <2>2
    <3>2. m - d(u) \in On(u, t, k)' /\ queue'[u][m - d(u)] = queue[u][m]
      BY <1>3, <3>1
    <3>3. j < m - d(u)
      BY <1>4, <2>1, <2>2, <3>1
    <3> QED BY <3>2, <3>3
  <2> QED BY <1>8, <2>1, <2>2 DEF Remembered
<1>13. Filled(t, k)'
  <2> SUFFICES ASSUME op # "rms_norm"
               PROVE  /\ cache[t][k].memo \in Tables
                      /\ Settled(t, k)' => Holds(cache[t][k].buffer, cache[t][k].memo)
    BY <1>1 DEF Filled, Holds, Data
  <2>1. ASSUME Settled(t, k)', NEW u \in Streams, NEW m \in On(u, t, k)
        PROVE  ~queue[u][m].cast
    <3>1. CASE m <= d(u)
      BY <1>3, <3>1
    <3>2. CASE d(u) < m
      BY <1>3, <2>1, <3>2 DEF Settled
    <3>3. m \in Nat /\ d(u) \in Nat
      BY <1>3, <1>4
    <3> QED BY <3>1, <3>2, <3>3
  <2> QED BY <1>8, <2>1 DEF Filled, Settled
<1> QED BY <1>9, <1>10, <1>11, <1>12, <1>13

LEMMA RunCastBuffer ==
  ASSUME CacheInv, NEW s \in Streams, RunCast(s),
         NEW t \in Threads, NEW k \in Keys, BufferInv(t, k)
  PROVE  BufferInv(t, k)'
<1> DEFINE h == queue[s][1]
<1>1. /\ UNCHANGED <<op, cache_generation, generation, contents>>
      /\ 1 \in DOMAIN queue[s]
      /\ \A u \in Streams \ {s} : queue'[u] = queue[u]
      /\ \A v \in Threads \ {h.thread} : cache'[v] = cache[v]
      /\ \A l \in Keys \ {h.key} : cache'[h.thread][l] = cache[h.thread][l]
      /\ DOMAIN queue'[s] = DOMAIN queue[s]
      /\ \A i \in DOMAIN queue[s] : i # 1 => queue'[s][i] = queue[s][i]
      /\ h.cast
      /\ queue'[s][1].thread = h.thread /\ queue'[s][1].call = h.call
      /\ queue'[s][1].key = h.key
      /\ ~queue'[s][1].cast
  BY RunCastStep
<1>2. /\ cache'[h.thread][h.key] # None
      /\ cache'[h.thread][h.key].memo = Object(h).memo
      /\ cache'[h.thread][h.key].kept = Object(h).kept
      /\ cache'[h.thread][h.key].buffer = Data(h.call.table)
  BY RunCastStep, NoneIsNothing
<1>3. h.thread \in Threads /\ h.key \in Keys /\ Launched(h) /\ h.call.table \in Tables
  BY <1>1, QueuedEntry
<1> HIDE DEF h
<1>4. ASSUME NEW u \in Streams, NEW i
      PROVE  i \in On(u, t, k)' <=> i \in On(u, t, k)
  <2>1. CASE u = s /\ i = 1
    BY <1>1, <2>1, OnPlaces, OnPlacesNext DEF h
  <2>2. CASE u # s \/ i # 1
    BY <1>1, <2>2, OnPlaces, OnPlacesNext
  <2> QED BY <2>1, <2>2
<1>5. \A u \in Streams : On(u, t, k)' = On(u, t, k)
  BY <1>4
<1>6. \A b : \A a : Holds(b, a) => Holds(b, a)'
  BY <1>1 DEF Holds, Data
<1>7. ASSUME NEW u \in Streams, NEW i \in On(u, t, k)
      PROVE  /\ i \in DOMAIN queue[u] /\ i \in Nat \ {0}
             /\ queue[u][i].call.table \in Tables
             /\ queue'[u][i].call = queue[u][i].call
             /\ queue'[u][i].cast => queue[u][i].cast
             /\ u # s \/ i # 1 => queue'[u][i] = queue[u][i]
  <2>1. /\ i \in DOMAIN queue[u] /\ i \in Nat \ {0} /\ queue[u][i].call.table \in Tables
    BY <1>7, PlacesKnown
  <2>2. CASE u = s /\ i = 1
    BY <1>1, <2>1, <2>2 DEF h
  <2>3. CASE u # s \/ i # 1
    BY <1>1, <2>1, <2>3
  <2> QED BY <2>1, <2>2, <2>3
<1>8. CASE ~(t = h.thread /\ k = h.key)
  <2>1. cache'[t][k] = cache[t][k]
    BY <1>1, <1>3, <1>8
  <2>2. 1 \notin On(s, t, k)
    BY <1>8, OnPlaces DEF h
  <2>3. \A u \in Streams : \A i \in On(u, t, k) :
          queue'[u][i] = queue[u][i] /\ queue[u][i].call.table \in Tables
    BY <1>7, <2>2
  <2>4. Kept(t, k)' => Kept(t, k)
    BY <1>1, <2>1 DEF Kept
  <2> QED BY <1>1, <1>5, <1>6, <2>1, <2>3, <2>4, SameObject
<1>9. CASE t = h.thread /\ k = h.key
  <2>1. /\ cache'[t][k].memo = cache[t][k].memo
        /\ cache'[t][k].buffer = Data(h.call.table)
        /\ Kept(t, k)' => Kept(t, k)
    BY <1>1, <1>2, <1>3, <1>9 DEF Object, Kept, Launched
  <2>2. 1 \in On(s, t, k) /\ queue[s][1] = h
    BY <1>1, <1>9, OnPlaces DEF h
  <2> SUFFICES ASSUME Kept(t, k)
               PROVE  /\ OneStream(t, k)' /\ Ready(t, k)' /\ Chained(t, k)'
                      /\ Remembered(t, k)' /\ Filled(t, k)'
    BY <2>1 DEF BufferInv
  <2>3. OneStream(t, k) /\ Ready(t, k) /\ Chained(t, k) /\ Remembered(t, k) /\ Filled(t, k)
    BY DEF BufferInv
  <2>4. \A u \in Streams \ {s} : On(u, t, k) = {}
    BY <1>1, <2>2, <2>3 DEF OneStream
  <2>5. Holds(Data(h.call.table), h.call.table)
    BY DEF Holds
  <2>6. OneStream(t, k)'
    BY <1>5, <1>7, <2>3 DEF OneStream
  <2>7. Ready(t, k)'
    <3> SUFFICES ASSUME NEW u \in Streams, NEW i \in On(u, t, k), NoCast(u, t, k, 0, i)'
                 PROVE  Holds(Data(h.call.table), queue[u][i].call.table)
      BY <1>1, <1>5, <1>7, <2>1 DEF Ready, Holds, Data
    <3>1. u = s
      BY <2>4
    <3>2. CASE i = 1
      BY <2>2, <2>5, <3>1, <3>2
    <3>3. CASE i # 1
      <4>1. i \in Nat /\ 1 < i
        BY <1>7, <3>3
      <4>2. NoCast(s, t, k, 1, i)
        <5> SUFFICES ASSUME NEW m \in On(s, t, k), 1 < m, m <= i PROVE ~queue[s][m].cast
          BY DEF NoCast
        <5>1. m \in Nat /\ 0 < m /\ m # 1
          BY <1>7
        <5>2. ~queue'[s][m].cast
          BY <1>5, <3>1, <5>1 DEF NoCast
        <5> QED BY <1>7, <5>1, <5>2
      <4>3. queue[s][1].call.table = queue[s][i].call.table
        BY <2>2, <2>3, <3>1, <4>1, <4>2 DEF Chained
      <4> QED BY <2>2, <2>5, <3>1, <4>3
    <3> QED BY <3>2, <3>3
  <2>8. Chained(t, k)'
    <3> SUFFICES ASSUME NEW u \in Streams, NEW i \in On(u, t, k), NEW j \in On(u, t, k),
                        j < i, NoCast(u, t, k, j, i)'
                 PROVE  queue[u][j].call.table = queue[u][i].call.table
      BY <1>5, <1>7 DEF Chained
    <3>1. NoCast(u, t, k, j, i)
      <4> SUFFICES ASSUME NEW m \in On(u, t, k), j < m, m <= i PROVE ~queue[u][m].cast
        BY DEF NoCast
      <4>1. m \in Nat /\ j \in Nat \ {0} /\ m # 1
        BY <1>7
      <4> QED BY <1>5, <1>7, <4>1 DEF NoCast
    <3> QED BY <2>3, <3>1 DEF Chained
  <2>9. Remembered(t, k)'
    <3> SUFFICES ASSUME op # "rms_norm", NEW u \in Streams, NEW j \in On(u, t, k),
                        \A m \in On(u, t, k) : j < m => ~queue'[u][m].cast
                 PROVE  queue[u][j].call.table = cache[t][k].memo
      BY <1>1, <1>5, <1>7, <2>1 DEF Remembered
    <3>1. ASSUME NEW m \in On(u, t, k), j < m PROVE ~queue[u][m].cast
      <4>1. m \in Nat /\ j \in Nat \ {0} /\ m # 1
        BY <1>7, <3>1
      <4> QED BY <1>7, <3>1, <4>1
    <3> QED BY <2>3, <3>1 DEF Remembered
  <2>10. Filled(t, k)'
    <3> SUFFICES ASSUME op # "rms_norm"
                 PROVE  /\ cache[t][k].memo \in Tables
                        /\ Settled(t, k)' => Holds(Data(h.call.table), cache[t][k].memo)
      BY <1>1, <2>1 DEF Filled, Holds, Data
    <3>1. cache[t][k].memo \in Tables
      BY <2>3 DEF Filled
    <3>2. ASSUME Settled(t, k)' PROVE Holds(Data(h.call.table), cache[t][k].memo)
      <4>1. ASSUME NEW m \in On(s, t, k), 1 < m PROVE ~queue[s][m].cast
        <5>1. m # 1 /\ ~queue'[s][m].cast
          BY <1>5, <1>7, <3>2, <4>1 DEF Settled
        <5> QED BY <1>7, <5>1
      <4>2. h.call.table = cache[t][k].memo
        BY <2>2, <2>3, <4>1 DEF Remembered
      <4> QED BY <2>5, <4>2
    <3> QED BY <3>1, <3>2
  <2> QED BY <2>6, <2>7, <2>8, <2>9, <2>10
<1> QED BY <1>8, <1>9

(* A call does nothing to other objects. *)
LEMMA CallOthers ==
  ASSUME CacheInv, NEW t \in Threads, NEW s \in Streams, NEW c \in Calls, Call(t, s, c),
         NEW v \in Threads, NEW k \in Keys, ~(v = t /\ k = Key(c)), BufferInv(v, k)
  PROVE  BufferInv(v, k)'
<1> DEFINE n == Len(queue[s]) + 1
<1>1. TypeOK
  BY DEF CacheInv
<1>2. /\ UNCHANGED <<op, cache_generation, contents>>
      /\ generation' = [generation EXCEPT ![t] = cache_generation]
      /\ \A u \in Streams \ {s} : queue'[u] = queue[u]
      /\ \A w \in Threads \ {t} : cache'[w] = cache[w]
      /\ \A l \in Keys \ {Key(c)} : cache'[t][l] = Flushed(t)[l]
      /\ DOMAIN queue[s] = 1 .. Len(queue[s])
      /\ Len(queue[s]) \in Nat
      /\ DOMAIN queue'[s] = 1 .. n
      /\ \A i \in DOMAIN queue[s] : queue'[s][i] = queue[s][i]
  BY CallStep
<1>3. queue'[s][n].thread = t /\ queue'[s][n].key = Key(c)
  <2>1. queue'[s][n] = [thread |-> t, call |-> c, key |-> Key(c), born |-> cache_generation,
                        cast |-> Casts(Found(t, c), c)]
    BY CallStep
  <2> QED BY <2>1
<1>4. n \notin DOMAIN queue[s] /\ DOMAIN queue'[s] = DOMAIN queue[s] \cup {n}
  BY <1>2
<1> HIDE DEF n
<1>5. ASSUME NEW u \in Streams, NEW i
      PROVE  i \in On(u, v, k)' <=> i \in On(u, v, k)
  <2>1. CASE u = s
    BY <1>2, <1>3, <1>4, <2>1, OnPlaces, OnPlacesNext
  <2>2. CASE u # s
    BY <1>2, <2>2, OnPlaces, OnPlacesNext
  <2> QED BY <2>1, <2>2
<1>6. \A u \in Streams : On(u, v, k)' = On(u, v, k)
  BY <1>5
<1>7. \A u \in Streams : \A i \in On(u, v, k) :
        queue'[u][i] = queue[u][i] /\ queue[u][i].call.table \in Tables
  BY <1>2, PlacesKnown
<1>8. \A b : \A a \in Tables : Holds(b, a) => Holds(b, a)'
  BY <1>2 DEF Holds, Data
<1>9. CASE v # t
  <2>1. cache'[v] = cache[v] /\ generation'[v] = generation[v]
    BY <1>1, <1>2, <1>9 DEF TypeOK
  <2>2. Kept(v, k)' => Kept(v, k)
    BY <1>2, <2>1 DEF Kept
  <2> QED BY <1>2, <1>6, <1>7, <1>8, <2>1, <2>2, SameObject
<1>10. CASE v = t /\ k # Key(c) /\ generation[t] = cache_generation
  <2>1. cache'[v][k] = cache[v][k]
    BY <1>1, <1>2, <1>10, FlushedCache
  <2>2. Kept(v, k)' => Kept(v, k)
    BY <1>10, <2>1 DEF Kept
  <2> QED BY <1>2, <1>6, <1>7, <1>8, <2>1, <2>2, SameObject
<1>11. CASE v = t /\ k # Key(c) /\ generation[t] # cache_generation
  <2>1. cache'[v][k] = None
    BY <1>1, <1>2, <1>11, FlushedCache
  <2> QED BY <2>1 DEF BufferInv, Kept
<1> QED BY <1>9, <1>10, <1>11

(* What the rules leave of the cases in which a call finds its object. *)
LEMMA CallKept ==
  ASSUME CacheInv, NEW t \in Threads, NEW s \in Streams, NEW c \in Calls,
         BufferInv(t, Key(c)), Called(t, s, c).kept
  PROVE  LET k == Key(c)
             o == Found(t, c)
             r == Called(t, s, c)
         IN
         /\ (\E u \in Streams : On(u, t, k) # {}) =>
              Kept(t, k) /\ o = cache[t][k] /\ r.buffer = o.buffer
         /\ Casts(o, c) \/ ~Settled(t, k) => \A u \in Streams \ {s} : On(u, t, k) = {}
         /\ ~Casts(o, c) /\ Settled(t, k) => Holds(r.buffer, c.table)
         /\ ~Casts(o, c) => op # "rms_norm"
         /\ ~Casts(o, c) /\ (\E u \in Streams : On(u, t, k) # {}) => c.table = o.memo
<1> DEFINE k == Key(c)
           o == Found(t, c)
           r == Called(t, s, c)
<1>1. TypeOK /\ k \in Keys /\ c.table \in Tables
  BY KeyType DEF CacheInv, Calls
<1>2. /\ o \in Objects
      /\ o = Make(c) \/ (generation[t] = cache_generation /\ cache[t][k] # None /\ o = cache[t][k])
      /\ generation[t] = cache_generation /\ cache[t][k] # None => o = cache[t][k]
  BY <1>1, FoundObject
<1>3. /\ op # "rotary_embedding" \/ o.memo = c.table => r.buffer = o.buffer
      /\ op = "rotary_embedding" /\ o.memo # c.table => r.buffer = Data(c.table)
      /\ o.kept /\ KeepsRules(t, s, c, o)
  BY <1>1, CalledObject
<1>4. /\ Casts(o, c) \/ ~Settled(t, k) => \A u \in Streams \ {s} : On(u, t, k) = {}
      /\ op = "rotary_embedding" /\ o.memo # c.table => \A u \in Streams : On(u, t, k) = {}
  BY <1>3 DEF KeepsRules, Settled
<1>5. /\ op = "rotary_embedding" => Make(c).memo = c.table /\ Make(c).buffer = Data(c.table)
      /\ op # "rotary_embedding" => Make(c).memo # c.table
  BY <1>1, MadeObject, NoneIsNothing
<1>6. op \in {"rms_norm", "add_rms_norm", "rotary_embedding"}
  BY <1>1, KnownOperators DEF TypeOK
<1>7. /\ op = "rms_norm" => Casts(o, c)
      /\ op = "add_rms_norm" => (Casts(o, c) <=> o.memo # c.table)
      /\ op = "rotary_embedding" => ~Casts(o, c)
  BY DEF Casts
<1> HIDE DEF o, r
<1>8. ASSUME \E u \in Streams : On(u, t, k) # {}
      PROVE  Kept(t, k) /\ o = cache[t][k] /\ r.buffer = o.buffer
  <2>1. generation[t] = cache_generation /\ cache[t][k] # None
    BY <1>1, <1>8, PlacesKnown
  <2> QED BY <1>2, <1>3, <1>4, <1>8, <2>1 DEF Kept
<1>9. ASSUME ~Casts(o, c), Settled(t, k)
      PROVE  Holds(r.buffer, c.table)
  <2>1. CASE op = "rotary_embedding" /\ o.memo # c.table
    BY <1>3, <2>1 DEF Holds
  <2>2. CASE o.memo = c.table /\ o = Make(c)
    BY <1>3, <1>5, <1>6, <2>2 DEF Holds
  <2>3. CASE /\ o.memo = c.table
             /\ generation[t] = cache_generation /\ cache[t][k] # None /\ o = cache[t][k]
    <3>1. Kept(t, k)
      BY <1>3, <2>3 DEF Kept
    <3>2. op # "rms_norm"
      BY <1>7, <1>9
    <3>3. Holds(o.buffer, o.memo)
      BY <1>9, <2>3, <3>1, <3>2 DEF BufferInv, Filled
    <3> QED BY <1>3, <2>3, <3>3
  <2>4. o.memo = c.table \/ (op = "rotary_embedding" /\ o.memo # c.table)
    BY <1>6, <1>7, <1>9
  <2> QED BY <1>2, <2>1, <2>2, <2>3, <2>4
<1>10. ~Casts(o, c) => op # "rms_norm"
  BY <1>7
<1>11. ~Casts(o, c) /\ (\E u \in Streams : On(u, t, k) # {}) => c.table = o.memo
  BY <1>4, <1>6, <1>7
<1> QED BY <1>4, <1>8, <1>9, <1>10, <1>11 DEF o, r

LEMMA CallBuffer ==
  ASSUME CacheInv, NEW t \in Threads, NEW s \in Streams, NEW c \in Calls, Call(t, s, c),
         BufferInv(t, Key(c))
  PROVE  BufferInv(t, Key(c))'
<1> DEFINE k == Key(c)
           o == Found(t, c)
           r == Called(t, s, c)
           n == Len(queue[s]) + 1
<1>1. TypeOK /\ k \in Keys /\ c.table \in Tables
  BY KeyType DEF CacheInv, Calls
<1>2. /\ UNCHANGED <<op, cache_generation, contents>>
      /\ \A u \in Streams \ {s} : queue'[u] = queue[u]
      /\ cache'[t][k] = r
      /\ DOMAIN queue[s] = 1 .. Len(queue[s])
      /\ Len(queue[s]) \in Nat
      /\ DOMAIN queue'[s] = 1 .. n
      /\ \A i \in DOMAIN queue[s] : queue'[s][i] = queue[s][i]
      /\ queue'[s][n] = [thread |-> t, call |-> c, key |-> k, born |-> cache_generation,
                         cast |-> Casts(o, c)]
  BY CallStep
<1>3. /\ queue'[s][n].thread = t /\ queue'[s][n].key = k
      /\ queue'[s][n].call = c /\ queue'[s][n].cast = Casts(o, c)
  BY <1>2
<1>4. /\ n \in Nat
      /\ n \notin DOMAIN queue[s] /\ DOMAIN queue'[s] = DOMAIN queue[s] \cup {n}
      /\ \A i \in DOMAIN queue[s] : i < n /\ i \in Nat \ {0}
  BY <1>2
<1>5. op # "rms_norm" => r.memo = c.table
  BY <1>1, CalledObject
<1>6. Key(c)' = k
  BY DEF Key
<1> SUFFICES ASSUME r.kept PROVE BufferInv(t, k)'
  <2>1. ~r.kept => ~Kept(t, k)'
    BY <1>2, <1>6 DEF Kept
  <2> QED BY <1>6, <2>1 DEF BufferInv
<1>7. /\ (\E u \in Streams : On(u, t, k) # {}) =>
           Kept(t, k) /\ o = cache[t][k] /\ r.buffer = o.buffer
      /\ Casts(o, c) \/ ~Settled(t, k) => \A u \in Streams \ {s} : On(u, t, k) = {}
      /\ ~Casts(o, c) /\ Settled(t, k) => Holds(r.buffer, c.table)
      /\ ~Casts(o, c) => op # "rms_norm"
      /\ ~Casts(o, c) /\ (\E u \in Streams : On(u, t, k) # {}) => c.table = o.memo
  BY CallKept
<1> HIDE DEF k, o, r, n
<1>8. ASSUME NEW u \in Streams, NEW i
      PROVE  i \in On(u, t, k)' <=> i \in On(u, t, k) \/ (u = s /\ i = n)
  <2>1. CASE u = s
    BY <1>2, <1>3, <1>4, <2>1, OnPlaces, OnPlacesNext
  <2>2. CASE u # s
    BY <1>2, <2>2, OnPlaces, OnPlacesNext
  <2> QED BY <2>1, <2>2
<1>9. ASSUME NEW u \in Streams, NEW i \in On(u, t, k)
      PROVE  /\ queue'[u][i] = queue[u][i] /\ i \in Nat \ {0}
             /\ u = s => i < n
             /\ r.buffer = cache[t][k].buffer
             /\ ~Casts(o, c) => c.table = cache[t][k].memo
             /\ OneStream(t, k) /\ Ready(t, k) /\ Chained(t, k)
             /\ Remembered(t, k) /\ Filled(t, k)
  <2>1. i \in DOMAIN queue[u] /\ i \in Nat \ {0}
    BY <1>1, <1>9, PlacesKnown
  <2>2. queue'[u][i] = queue[u][i] /\ (u = s => i < n)
    BY <1>2, <1>4, <2>1
  <2>3. BufferInv(t, k)
    BY DEF k
  <2> QED BY <1>7, <1>9, <2>1, <2>2, <2>3 DEF BufferInv
<1>10. ASSUME NEW u \in Streams, NEW m \in On(u, t, k), queue[u][m].cast
       PROVE  ~Settled(t, k) /\ u = s
  <2>1. ~Settled(t, k)
    BY <1>10 DEF Settled
  <2> QED BY <1>7, <1>10, <2>1
<1>11. ASSUME NEW u \in Streams, NEW i \in On(u, t, k), NEW j \in Nat, NoCast(u, t, k, j, i)'
       PROVE  NoCast(u, t, k, j, i)
  BY <1>8, <1>9, <1>11 DEF NoCast
<1>12. OneStream(t, k)'
  <2> SUFFICES ASSUME NEW v \in Streams, NEW u \in Streams, NEW m \in On(v, t, k)',
                      queue'[v][m].cast, v # u, NEW i \in On(u, t, k)'
               PROVE  FALSE
    BY DEF OneStream
  <2>1. CASE v = s /\ m = n
    BY <1>3, <1>7, <1>8, <2>1
  <2>2. CASE m \in On(v, t, k)
    <3>1. ~Settled(t, k) /\ v = s
      BY <1>9, <1>10, <2>2
    <3> QED BY <1>7, <1>8, <3>1
  <2> QED BY <1>8, <2>1, <2>2
<1>13. Ready(t, k)'
  <2> SUFFICES ASSUME NEW u \in Streams, NEW i \in On(u, t, k)', NoCast(u, t, k, 0, i)'
               PROVE  Holds(r.buffer, queue'[u][i].call.table)
    BY <1>2 DEF Ready, Holds, Data
  <2>1. CASE i \in On(u, t, k)
    <3>1. NoCast(u, t, k, 0, i)
      BY <1>11, <2>1
    <3> QED BY <1>9, <2>1, <3>1 DEF Ready
  <2>2. CASE u = s /\ i = n
    <3>1. ~Casts(o, c)
      BY <1>3, <1>4, <1>8, <2>2 DEF NoCast, n
    <3>2. Settled(t, k)
      <4> SUFFICES ASSUME NEW v \in Streams, NEW m \in On(v, t, k), queue[v][m].cast
                   PROVE  FALSE
        BY DEF Settled
      <4>1. v = s /\ m \in On(s, t, k)' /\ queue'[s][m].cast
        BY <1>8, <1>9, <1>10
      <4>2. 0 < m /\ m <= n
        BY <1>4, <1>9, <4>1
      <4> QED BY <2>2, <4>1, <4>2 DEF NoCast
    <3> QED BY <1>3, <1>7, <2>2, <3>1, <3>2
  <2> QED BY <1>8, <2>1, <2>2
<1>14. Chained(t, k)'
  <2> SUFFICES ASSUME NEW u \in Streams, NEW i \in On(u, t, k)', NEW j \in On(u, t, k)',
                      j < i, NoCast(u, t, k, j, i)'
               PROVE  queue'[u][j].call.table = queue'[u][i].call.table
    BY DEF Chained
  <2>1. CASE i \in On(u, t, k)
    <3>1. j \in On(u, t, k)
      BY <1>4, <1>8, <1>9, <2>1
    <3>2. NoCast(u, t, k, j, i)
      BY <1>9, <1>11, <2>1, <3>1
    <3> QED BY <1>9, <2>1, <3>1, <3>2 DEF Chained
  <2>2. CASE u = s /\ i = n
    <3>1. j \in On(s, t, k)
      BY <1>4, <1>8, <2>2
    <3>2. ~Casts(o, c)
      BY <1>3, <1>4, <1>8, <2>2 DEF NoCast
    <3>3. ASSUME NEW m \in On(s, t, k), j < m PROVE ~queue[s][m].cast
      <4>1. m \in On(s, t, k)' /\ m <= n /\ queue'[s][m] = queue[s][m]
        BY <1>4, <1>8, <1>9
      <4> QED BY <2>2, <3>3, <4>1 DEF NoCast
    <3>4. queue[s][j].call.table = cache[t][k].memo
      BY <1>7, <1>9, <3>1, <3>2, <3>3 DEF Remembered
    <3> QED BY <1>3, <1>9, <2>2, <3>1, <3>2, <3>4
  <2> QED BY <1>8, <2>1, <2>2
<1>15. Remembered(t, k)'
  <2> SUFFICES ASSUME op # "rms_norm", NEW u \in Streams, NEW j \in On(u, t, k)',
                      \A m \in On(u, t, k)' : j < m => ~queue'[u][m].cast
               PROVE  queue'[u][j].call.table = c.table
    BY <1>2, <1>5 DEF Remembered
  <2>1. CASE u = s /\ j = n
    BY <1>3, <2>1
  <2>2. CASE j \in On(u, t, k)
    <3>1. ~Casts(o, c)
      <4>1. CASE u = s
        BY <1>3, <1>8, <1>9, <2>2, <4>1
      <4>2. CASE u # s
        BY <1>7, <2>2, <4>2
      <4> QED BY <4>1, <4>2
    <3>2. \A m \in On(u, t, k) : j < m => ~queue[u][m].cast
      BY <1>8, <1>9
    <3>3. queue[u][j].call.table = cache[t][k].memo
      BY <1>9, <2>2, <3>2 DEF Remembered
    <3> QED BY <1>9, <2>2, <3>1, <3>3
  <2> QED BY <1>8, <2>1, <2>2
<1>16. Filled(t, k)'
  <2> SUFFICES ASSUME op # "rms_norm", Settled(t, k)'
               PROVE  Holds(r.buffer, c.table)
    BY <1>1, <1>2, <1>5 DEF Filled, Holds, Data
  <2>1. ~Casts(o, c)
    BY <1>3, <1>8 DEF Settled
  <2>2. Settled(t, k)
    BY <1>8, <1>9 DEF Settled
  <2> QED BY <1>7, <2>1, <2>2
<1> QED BY <1>12, <1>13, <1>14, <1>15, <1>16 DEF BufferInv

(* A table that changes in place is read by no waiting kernel, and an      *)
(* operator that remembers addresses does not answer for it any more.      *)
LEMMA OverwriteBuffer ==
  ASSUME CacheInv, NEW a \in Tables, Overwrite(a),
         NEW t \in Threads, NEW k \in Keys, BufferInv(t, k)
  PROVE  BufferInv(t, k)'
<1>1. TypeOK
  BY DEF CacheInv
<1>2. /\ UNCHANGED <<op, cache_generation, generation, cache, queue>>
      /\ contents' = [contents EXCEPT ![a] = contents[a] + 1]
      /\ contents[a] \in Nat
      /\ contents \in [Tables -> Nat]
  BY <1>1 DEF Overwrite, TypeOK
<1>3. \A s \in Streams : \A i \in DOMAIN queue[s] : queue[s][i].call.table # a
  BY DEF Overwrite, Reads
<1>4. \A s \in Streams : On(s, t, k)' = On(s, t, k)
  BY <1>2 DEF On
<1>5. contents'[a] # 0 /\ \A x \in Tables \ {a} : contents'[x] = contents[x]
  BY <1>2
<1> SUFFICES ASSUME Kept(t, k)
             PROVE  /\ OneStream(t, k)' /\ Ready(t, k)' /\ Chained(t, k)'
                    /\ Remembered(t, k)' /\ Filled(t, k)'
  BY <1>2 DEF BufferInv, Kept
<1>6. OneStream(t, k) /\ Ready(t, k) /\ Chained(t, k) /\ Remembered(t, k) /\ Filled(t, k)
  BY DEF BufferInv
<1>7. OneStream(t, k)' /\ Chained(t, k)' /\ Remembered(t, k)'
  BY <1>2, <1>4, <1>6 DEF OneStream, Chained, Remembered, NoCast
<1>8. Ready(t, k)'
  <2> SUFFICES ASSUME NEW s \in Streams, NEW i \in On(s, t, k), NoCast(s, t, k, 0, i)
               PROVE  Holds(cache[t][k].buffer, queue[s][i].call.table)'
    BY <1>2, <1>4 DEF Ready, NoCast
  <2>1. queue[s][i].call.table \in Tables \ {a}
    BY <1>3, PlacesKnown
  <2>2. Holds(cache[t][k].buffer, queue[s][i].call.table)
    BY <1>6 DEF Ready
  <2> QED BY <1>2, <1>5, <2>1, <2>2 DEF Holds, Data
<1>9. Filled(t, k)'
  <2> SUFFICES ASSUME op # "rms_norm"
               PROVE  /\ cache[t][k].memo \in Tables
                      /\ Settled(t, k) => Holds(cache[t][k].buffer, cache[t][k].memo)'
    BY <1>2, <1>4 DEF Filled, Settled
  <2>1. /\ cache[t][k].memo \in Tables
        /\ Settled(t, k) => Holds(cache[t][k].buffer, cache[t][k].memo)
    BY <1>6 DEF Filled
  <2> QED BY <1>2, <1>5, <2>1 DEF Holds, Data
<1> QED BY <1>7, <1>8, <1>9

LEMMA NextModuleBuffer ==
  ASSUME CacheInv, NextModule, NEW t \in Threads, NEW k \in Keys
  PROVE  BufferInv(t, k)'
<1>1. generation'[t] # cache_generation'
  BY DEF NextModule, CacheInv, TypeOK
<1> QED BY <1>1 DEF BufferInv, Kept

LEMMA StepBuffer == IInv /\ [Next]_cacheVars => IInv'
<1> SUFFICES ASSUME IInv, [Next]_cacheVars PROVE IInv'
  OBVIOUS
<1>1. CacheInv /\ CacheInv' /\ \A v \in Threads : \A k \in Keys : BufferInv(v, k)
  BY StepCache DEF IInv
<1>2. \A c \in Calls : Key(c) \in Keys
  BY KeyType
<1>3. CASE \E t \in Threads : \E s \in Streams : \E c \in Calls : Call(t, s, c)
  <2>1. PICK t \in Threads, s \in Streams, c \in Calls : Call(t, s, c)
    BY <1>3
  <2>2. ASSUME NEW v \in Threads, NEW k \in Keys
        PROVE  BufferInv(v, k)'
    <3>1. CASE v = t /\ k = Key(c)
      <4>1. Key(c)' = Key(c)
        BY DEF Key
      <4> QED BY <1>1, <1>2, <2>1, <3>1, <4>1, CallBuffer
    <3>2. CASE ~(v = t /\ k = Key(c))
      BY <1>1, <2>1, <3>2, CallOthers
    <3> QED BY <3>1, <3>2
  <2> QED BY <1>1, <2>2 DEF IInv
<1>4. CASE \E s \in Streams : RunCast(s) \/ RunKernel(s)
  BY <1>1, <1>4, RunCastBuffer, RunKernelBuffer DEF IInv
<1>5. CASE \E a \in Tables : Overwrite(a)
  BY <1>1, <1>5, OverwriteBuffer DEF IInv
<1>6. CASE NextModule
  BY <1>1, <1>6, NextModuleBuffer DEF IInv
<1>7. CASE UNCHANGED cacheVars
  <2>1. ASSUME NEW v \in Threads, NEW k \in Keys
        PROVE  BufferInv(v, k)'
    BY <1>1, <1>7 DEF cacheVars, BufferInv, Kept, OneStream, Ready, Chained, Remembered,
                      Filled, Settled, NoCast, Holds, Data, On
  <2> QED BY <1>1, <2>1 DEF IInv
<1> QED BY <1>3, <1>4, <1>5, <1>6, <1>7 DEF Next

(* The inductive invariant of the buffers: what a buffer holds when a      *)
(* kernel's turn comes is what its call needs, along the casts that wait   *)
(* before it (kernel_custom.h, rotary_embedding/kernel.h), on any number   *)
(* of streams, as long as the object's callers have kept the rules.        *)
THEOREM BuffersFollowQueues == Spec => []IInv
<1>1. Init => IInv
  <2> SUFFICES ASSUME Init, NEW t \in Threads, NEW k \in Keys PROVE BufferInv(t, k)
    BY InitCache DEF IInv
  <2>1. cache[t][k] = None
    BY DEF Init
  <2> QED BY <2>1 DEF BufferInv, Kept
<1>2. IInv /\ [Next]_cacheVars => IInv'
  BY StepBuffer
<1> QED BY <1>1, <1>2, PTL DEF Spec

(* The kernel a stream comes to, whose call the cache owes an answer,      *)
(* computes what an operator made for its call alone would: whatever calls *)
(* shared the object on whatever streams before, and whatever happened     *)
(* between its call and its turn (operator.h:177-200).                     *)
THEOREM OwedCallsAreAnswered == Spec => []CachingInvisible
<1>1. IInv => CachingInvisible
  <2> SUFFICES ASSUME IInv, NEW s \in Streams, Due(s)
               PROVE  LET e == Head(queue[s]) IN
                      Alive(e) /\ (Owed(e) => Computed(e) = Answer(e.call))
    BY DEF CachingInvisible
  <2> DEFINE e == queue[s][1]
             t == e.thread
             k == e.key
  <2>1. TypeOK /\ CacheInv
    BY DEF IInv, CacheInv
  <2>2. queue[s] \in Seq(Entries) /\ queue[s] # <<>> /\ ~Head(queue[s]).cast
    BY <2>1 DEF Due, TypeOK
  <2>3. 1 \in DOMAIN queue[s] /\ Head(queue[s]) = e
    BY <2>2, TailOfQueue
  <2>4. /\ t \in Threads /\ k \in Keys /\ e.call \in Calls /\ e.call.table \in Tables
        /\ Launched(e) /\ Object(e) \in Objects
    BY <2>1, <2>3, QueuedEntry
  <2>5. Alive(e)
    BY <2>4 DEF Launched, Alive
  <2>6. ASSUME Owed(e) PROVE Computed(e) = Answer(e.call)
    <3> DEFINE o == cache[t][k]
    <3>1. /\ k = Key(e.call) /\ o # None /\ o \in Objects
          /\ generation[t] = cache_generation /\ Key(o) = k
      BY <2>1, <2>4 DEF Launched, Object, TypeOK
    <3>2. Kept(t, k)
      BY <2>6, <3>1 DEF Owed, Kept, Object
    <3>3. Ready(t, k)
      BY <2>4, <3>2 DEF IInv, BufferInv
    <3>4. 1 \in On(s, t, k)
      BY <2>3, OnPlaces
    <3>5. NoCast(s, t, k, 0, 1)
      <4>1. \A m \in On(s, t, k) : m \in Nat /\ (0 < m /\ m <= 1 => m = 1)
        BY <2>1, <2>4, PlacesKnown
      <4> QED BY <2>2, <2>3, <4>1 DEF NoCast
    <3>6. Holds(o.buffer, e.call.table)
      BY <3>3, <3>4, <3>5 DEF Ready
    <3>7. o.buffer = Data(e.call.table)
      BY <2>6, <3>6 DEF Holds, Owed
    <3>8. o.shape = e.call.shape /\ ScalarHash[o.scalar] = ScalarHash[e.call.scalar]
      <4>1. Key(o) = Key(e.call)
        BY <3>1
      <4> HIDE DEF e, o
      <4> QED BY <4>1 DEF Key
    <3>9. op = "rotary_embedding" => o.scalar = e.call.scalar
      BY <2>6, <3>1, <3>8 DEF Owed, Objects
    <3> QED BY <3>7, <3>8, <3>9 DEF Computed, Answer, Object
  <2> QED BY <2>3, <2>5, <2>6
<1> QED BY <1>1, BuffersFollowQueues, PTL
=============================================================================
