--------------------------- MODULE OperatorCache ----------------------------
(***************************************************************************)
(* Operator<Key>::Call and clear_cache (src/operator.h), with the state    *)
(* that cached Ascend operators keep between calls: a device buffer of     *)
(* their own, filled from a tensor of the caller, and the address it was   *)
(* filled from.                                                            *)
(*                                                                         *)
(*   rms_norm          the custom kernel casts the weight into the buffer  *)
(*                     on the stream, in every call                        *)
(*   add_rms_norm      the same, only when the weight's address changed    *)
(*   rotary_embedding  expands the tables on the host and uploads them     *)
(*                     with a blocking copy, when the address changed      *)
(*                                                                         *)
(* Objects are found by the geometry of the tensors and a hash of the      *)
(* other arguments, never by addresses.  Caches belong to threads.  Every  *)
(* call names a stream in its handle, which is no part of the key: one     *)
(* object, with its one buffer, serves all streams of a thread, and a      *)
(* stream takes calls of all threads.  A call runs under the GIL and is    *)
(* one step; its kernels run later, in order within a stream only.         *)
(***************************************************************************)
EXTENDS Naturals, Sequences, FiniteSets

CONSTANTS
  Threads,         \* host threads
  Streams,         \* device streams
  Operators,       \* subset of {"rms_norm", "add_rms_norm", "rotary_embedding"}
  Shapes,          \* geometries of the tensors
  Scalars,         \* values of the arguments that are not tensors
  ScalarHash,      \* ScalarHash[x]: HashCombine of scalar x
  Tables,          \* addresses of weights, or of cos/sin tables
  None,
  MaxPending,      \* bound on the calls that wait on all streams
  MaxGeneration,   \* bound on clear_cache
  MaxVersion       \* bound on the changes of a table between two clear_cache

ASSUME CacheBounds ==
  MaxPending \in Nat /\ MaxGeneration \in Nat /\ MaxVersion \in Nat
ASSUME KnownOperators ==
  Operators \subseteq {"rms_norm", "add_rms_norm", "rotary_embedding"}

Calls == [shape : Shapes, scalar : Scalars, table : Tables]
Keys == [shape : Shapes, scalar_hash : {ScalarHash[x] : x \in Scalars}]

(* The data a table holds: its address, the module that put them there and *)
(* the changes since.                                                      *)
DataSets == Tables \X Nat \X Nat

(* A cached object: the attributes it was made with, the generation it was *)
(* made in, the address it remembers, what its buffer holds, and (not in   *)
(* the code) whether its callers have kept to KeepsRules so far.  An entry *)
(* of a stream: a call whose kernel waits, the thread and the key its      *)
(* object is found under, and whether a cast waits in front of the kernel. *)
Objects ==
  [shape : Shapes, scalar : Scalars, born : Nat, memo : Tables \cup {None},
   buffer : DataSets \cup {None}, kept : BOOLEAN]
Entries == [thread : Threads, call : Calls, key : Keys, born : Nat, cast : BOOLEAN]

ASSUME NoneIsNothing == None \notin Tables /\ None \notin Objects

VARIABLES
  op,                \* the operator looked at, fixed
  cache_generation,  \* Operator::cache_generation_
  generation,        \* generation[t]: the thread's copy in Call
  cache,             \* cache[t][k]: thread t's object of key k, or None
  queue,             \* queue[s]: entries that wait on stream s
  contents           \* contents[a]: changes of table a since clear_cache

cacheVars == <<op, cache_generation, generation, cache, queue, contents>>

Data(a) == <<a, cache_generation, contents[a]>>

(* CacheKey::Build: no address, no stream, and only the hash of what is no *)
(* tensor.                                                                 *)
Key(c) == [shape |-> c.shape, scalar_hash |-> ScalarHash[c.scalar]]

(* The object an entry launches on, if it has not been destroyed. *)
Object(e) == cache[e.thread][e.key]
Alive(e) == Object(e) # None /\ Object(e).born = e.born

(* The places of all entries that wait. *)
Waiting == UNION {{s} \X DOMAIN queue[s] : s \in Streams}

(* The places in stream s of the entries of thread t's object of key k. *)
On(s, t, k) == {i \in DOMAIN queue[s] : queue[s][i].thread = t /\ queue[s][i].key = k}

-----------------------------------------------------------------------------
Init ==
  /\ op \in Operators
  /\ cache_generation = 0
  /\ generation = [t \in Threads |-> 0]
  /\ cache = [t \in Threads |-> [k \in Keys |-> None]]
  /\ queue = [s \in Streams |-> <<>>]
  /\ contents = [a \in Tables |-> 0]

(* A new object.  RotaryEmbedding uploads its tables when it is made. *)
Make(c) ==
  LET eager == op = "rotary_embedding"
  IN [shape |-> c.shape, scalar |-> c.scalar, born |-> cache_generation,
      memo |-> IF eager THEN c.table ELSE None,
      buffer |-> IF eager THEN Data(c.table) ELSE None, kept |-> TRUE]

(* Mutants of Flushed: clear_cache is never noticed; a cache of limited    *)
(* size that is emptied when it is full.                                   *)
FlushedNever(t) == cache[t]
FlushedWhenFull(t) ==
  IF generation[t] # cache_generation \/ \A k \in Keys : cache[t][k] # None
  THEN [k \in Keys |-> None] ELSE cache[t]

(* cache.clear() when clear_cache was called since the last call. *)
Flushed(t) ==
  IF generation[t] # cache_generation THEN [k \in Keys |-> None] ELSE cache[t]

(* The object of call c: cache.find, else Make. *)
Found(t, c) ==
  LET o == Flushed(t)[Key(c)] IN IF o = None THEN Make(c) ELSE o

(* Whether operator() puts a cast of the weight on the stream. *)
Casts(o, c) ==
  \/ op = "rms_norm"
  \/ op = "add_rms_norm" /\ o.memo # c.table

(* Mutant of Refreshed: the tables are uploaded by the constructor only.    *)
RefreshedMemoOnly(o, c) ==
  [o EXCEPT !.memo = IF op = "rms_norm" THEN @ ELSE c.table]

(* What operator() changes at once: the remembered address and, for tables *)
(* uploaded from the host, the buffer.                                     *)
Refreshed(o, c) ==
  [o EXCEPT
     !.memo = IF op = "rms_norm" THEN @ ELSE c.table,
     !.buffer = IF op = "rotary_embedding" /\ o.memo # c.table
                THEN Data(c.table) ELSE @]

(* The rules under which callers may share object o of thread t.  The code *)
(* checks none of them:                                                    *)
(*   - while a cast waits, or is put on a stream, the object's calls wait  *)
(*     on one stream only: nothing orders a kernel of another stream after *)
(*     the cast (add_rms_norm/kernel_custom.h:107).  Those of a            *)
(*     rotary_embedding object always wait on one stream: they also share  *)
(*     the rows they gather (cos_dev_), which the model leaves out;        *)
(*   - another cos/sin table is passed only when none of the calls waits.  *)
KeepsRules(t, s, c, o) ==
  LET waiting(u) == On(u, t, Key(c))
      casting == \/ Casts(o, c)
                 \/ \E u \in Streams : \E i \in waiting(u) : queue[u][i].cast
      rotary == op = "rotary_embedding"
  IN /\ casting \/ rotary => \A u \in Streams \ {s} : waiting(u) = {}
     /\ rotary /\ o.memo # c.table => \A u \in Streams : waiting(u) = {}

(* Operator::Call on stream s: flush, find or make, refresh, launch. *)
Call(t, s, c) ==
  /\ Cardinality(Waiting) < MaxPending
  /\ generation' = [generation EXCEPT ![t] = cache_generation]
  /\ LET o == Found(t, c)
         kept == o.kept /\ KeepsRules(t, s, c, o)
     IN
     /\ cache' = [cache EXCEPT ![t] =
          [Flushed(t) EXCEPT ![Key(c)] = [Refreshed(o, c) EXCEPT !.kept = kept]]]
     /\ queue' = [queue EXCEPT ![s] =
          Append(@, [thread |-> t, call |-> c, key |-> Key(c), born |-> o.born,
                     cast |-> Casts(o, c)])]
  /\ UNCHANGED <<op, cache_generation, contents>>

-----------------------------------------------------------------------------
(* The device. *)

RunCast(s) ==
  /\ queue[s] # <<>>
  /\ LET e == Head(queue[s]) IN
     /\ e.cast
     /\ queue' = [queue EXCEPT ![s] = <<[e EXCEPT !.cast = FALSE]>> \o Tail(@)]
     /\ IF Alive(e)
        THEN cache' = [cache EXCEPT ![e.thread][e.key].buffer = Data(e.call.table)]
        ELSE UNCHANGED cache
  /\ UNCHANGED <<op, cache_generation, generation, contents>>

(* What a kernel computes from: the shape its object was made with, what   *)
(* the object's buffer holds, and the scalars, which the custom kernels    *)
(* take from the call and RotaryEmbedding from its construction as well.   *)
Computed(e) ==
  [shape |-> Object(e).shape,
   scalar |-> IF op = "rotary_embedding" THEN Object(e).scalar ELSE e.call.scalar,
   data |-> Object(e).buffer]

RunKernel(s) ==
  /\ queue[s] # <<>>
  /\ ~Head(queue[s]).cast
  /\ queue' = [queue EXCEPT ![s] = Tail(@)]
  /\ UNCHANGED <<op, cache_generation, generation, cache, contents>>

-----------------------------------------------------------------------------
(* The caller. *)

Reads(a) == \E s \in Streams : \E i \in DOMAIN queue[s] : queue[s][i].call.table = a

(* A table changes in place, under no kernel that reads it. *)
Overwrite(a) ==
  /\ contents[a] < MaxVersion
  /\ ~Reads(a)
  /\ contents' = [contents EXCEPT ![a] = @ + 1]
  /\ UNCHANGED <<op, cache_generation, generation, cache, queue>>

(* Between two test modules everything has run; the next one clears the    *)
(* caches and puts other data at the old addresses (tests/conftest.py).    *)
NextModule ==
  /\ cache_generation < MaxGeneration
  /\ \A s \in Streams : queue[s] = <<>>
  /\ cache_generation' = cache_generation + 1
  /\ contents' = [a \in Tables |-> 0]
  /\ UNCHANGED <<op, generation, cache, queue>>

Next ==
  \/ \E t \in Threads : \E s \in Streams : \E c \in Calls : Call(t, s, c)
  \/ \E s \in Streams : RunCast(s) \/ RunKernel(s)
  \/ \E a \in Tables : Overwrite(a)
  \/ NextModule

Spec == Init /\ [][Next]_cacheVars

-----------------------------------------------------------------------------
(* Types, and what the lazy flush maintains: no thread is ahead of         *)
(* clear_cache, and a cache holds objects of the thread's generation only, *)
(* under the key they were made for.                                       *)
TypeOK ==
  /\ op \in Operators
  /\ cache_generation \in Nat
  /\ generation \in [Threads -> 0 .. cache_generation]
  /\ cache \in [Threads -> [Keys -> Objects \cup {None}]]
  /\ \A t \in Threads : \A k \in Keys :
       cache[t][k] # None => cache[t][k].born = generation[t] /\ Key(cache[t][k]) = k
  /\ queue \in [Streams -> Seq(Entries)]
  /\ contents \in [Tables -> Nat]

(* No object is destroyed while its kernels wait: its destructor frees the *)
(* buffer at once (rms_norm/kernel_custom.h:82-90), whatever the stream    *)
(* still has to do.                                                        *)
PendingObjectsAlive == \A s \in Streams : \A i \in DOMAIN queue[s] : Alive(queue[s][i])

(* The kernel that runs next on stream s. *)
Due(s) == queue[s] # <<>> /\ ~Head(queue[s]).cast

(* A kernel about to run finds its own call's data in the object's buffer. *)
(* rotary_embedding/kernel.h:176-179 says so of calls with different       *)
(* cos/sin caches on one cached object.                                    *)
KernelsReadOwnTable ==
  \A s \in Streams : LET e == Head(queue[s]) IN
    Due(s) /\ Alive(e) => Object(e).buffer = Data(e.call.table)

(* What an operator made for call c alone would compute from. *)
Answer(c) == [shape |-> c.shape, scalar |-> c.scalar, data |-> Data(c.table)]

(* The calls the cache owes that answer: the rules were kept on the object;*)
(* an operator that remembers the address is used with a table that has    *)
(* not changed in place since clear_cache; and one that keeps scalars, with*)
(* a scalar that shares its hash with no other (operator.h:83 compares the *)
(* hashes only).                                                           *)
Owed(e) ==
  /\ Object(e).kept
  /\ op # "rms_norm" => contents[e.call.table] = 0
  /\ op = "rotary_embedding" =>
       \A x \in Scalars : ScalarHash[x] = ScalarHash[e.call.scalar] => x = e.call.scalar

(* Caching operators by geometry is invisible to these calls: each kernel, *)
(* whenever its stream comes to it, computes what an operator made for its *)
(* call alone would have computed.                                         *)
CachingInvisible ==
  \A s \in Streams : LET e == Head(queue[s]) IN
    Due(s) => Alive(e) /\ (Owed(e) => Computed(e) = Answer(e.call))
=============================================================================
