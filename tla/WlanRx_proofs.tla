---------------------------- MODULE WlanRx_proofs ----------------------------
(***************************************************************************)
(* Proofs about the receive data plane for every pool size and every       *)
(* number of frames.                                                       *)
(***************************************************************************)
EXTENDS WlanRx, FiniteSetTheorems, SequenceTheorems, TLAPS

(* Counting a frame keeps the counters natural numbers.                      *)
LEMMA BumpType ==
  ASSUME stats \in [Interfaces -> [Counters -> Nat]],
         NEW i \in Interfaces, NEW c \in Counters, Bump(i, c)
  PROVE  stats' \in [Interfaces -> [Counters -> Nat]]
<1>1. [stats[i] EXCEPT ![c] = @ + 1] \in [Counters -> Nat]
  OBVIOUS
<1> QED
  BY <1>1 DEF Bump

(* What rx_main does with a job it receives: it takes it up, or it skips it. *)
LEMMA RecvCases ==
  ASSUME rx_main_recv
  PROVE  /\ worker.pc = "recv" /\ rx_queue # <<>> /\ rx_queue' = Tail(rx_queue)
         /\ UNCHANGED <<rx_free_mask, rx_storage, active, stats, producer, arrived, delivered>>
         /\ \/ /\ RT_EOK \in RecvResults
               /\ worker' = [pc |-> "check", job |-> Head(rx_queue)] /\ lost' = lost
            \/ lost' = lost \cup {Head(rx_queue)} /\ worker' = worker
  BY DEF rx_main_recv

(* The types of the receive path's state are preserved by both threads.      *)
THEOREM TypeCorrect == Spec => []TypeOK
<1>1. Init => TypeOK
  BY PoolAssumption, MaxFramesAssumption
  DEF Init, TypeOK, Interfaces, Blocks, Jobs, Counters, pool_initial_mask, NoFrame
<1>2. TypeOK /\ [Next]_vars => TypeOK'
  <2> SUFFICES ASSUME TypeOK, [Next]_vars PROVE TypeOK'
    OBVIOUS
  <2> USE DEF TypeOK
  <2>1. ASSUME NEW i \in Interfaces, rx_enqueue_allocate(i) PROVE TypeOK'
    <3>1. CASE rx_free_mask[i] = {}
      <4>1. stats' \in [Interfaces -> [Counters -> Nat]]
        BY <2>1, <3>1, BumpType DEF rx_enqueue_allocate, pool_take, Counters
      <4> QED
        BY <2>1, <3>1, <4>1, MaxFramesAssumption DEF rx_enqueue_allocate, pool_take
    <3>2. CASE rx_free_mask[i] # {}
      <4>1. PICK b \in Blocks :
              /\ rx_free_mask' = [rx_free_mask EXCEPT ![i] = @ \ {b}]
              /\ producer' = [pc |-> "copy", block |-> b,
                              frame |-> [interface_id |-> i, seq |-> arrived + 1]]
              /\ UNCHANGED stats
        BY <2>1, <3>2 DEF rx_enqueue_allocate
      <4>2. [interface_id |-> i, seq |-> arrived + 1] \in Frames
        BY <2>1, MaxFramesAssumption DEF rx_enqueue_allocate, Frames
      <4> QED
        BY <2>1, <4>1, <4>2, MaxFramesAssumption DEF rx_enqueue_allocate
    <3> QED
      BY <3>1, <3>2
  <2>2. CASE rx_enqueue_copy
    BY <2>2 DEF rx_enqueue_copy, Frames
  <2>3. CASE rx_enqueue_send
    <3> DEFINE i == producer.frame.interface_id
               job == [interface_id |-> i, block |-> producer.block]
    <3>1. i \in Interfaces /\ producer.block \in Blocks /\ job \in Jobs
      BY <2>3 DEF rx_enqueue_send, Frames, Jobs
    <3>2. CASE Len(rx_queue) < RxQueueDepth
      <4>1. rx_queue' = Append(rx_queue, job) /\ UNCHANGED <<rx_free_mask, stats>>
        BY <2>3, <3>2 DEF rx_enqueue_send
      <4>2. rx_queue' \in Seq(Jobs)
        BY <3>1, <4>1, AppendProperties
      <4> QED
        BY <2>3, <4>1, <4>2 DEF rx_enqueue_send
    <3>3. CASE ~(Len(rx_queue) < RxQueueDepth)
      <4>1. /\ Bump(i, "queue_full")
            /\ rx_free_mask' = [rx_free_mask EXCEPT ![i] = @ \cup {producer.block}]
            /\ UNCHANGED rx_queue
        BY <2>3, <3>3 DEF rx_enqueue_send, pool_put
      <4>2. stats' \in [Interfaces -> [Counters -> Nat]]
        BY <3>1, <4>1, BumpType DEF Counters
      <4> QED
        BY <2>3, <3>1, <4>1, <4>2 DEF rx_enqueue_send
    <3> QED
      BY <3>2, <3>3
  <2>4. CASE rx_main_recv
    <3>1. Head(rx_queue) \in Jobs /\ Tail(rx_queue) \in Seq(Jobs)
      BY <2>4, RecvCases, HeadTailProperties
    <3>2. /\ UNCHANGED <<rx_free_mask, rx_storage, active, stats, producer, arrived, delivered>>
          /\ rx_queue' = Tail(rx_queue)
      BY <2>4, RecvCases, Zenon
    <3>3. CASE worker' = [pc |-> "check", job |-> Head(rx_queue)] /\ lost' = lost
      BY <3>1, <3>2, <3>3
    <3>4. CASE lost' = lost \cup {Head(rx_queue)} /\ worker' = worker
      BY <3>1, <3>2, <3>4
    <3> QED
      BY <2>4, <3>3, <3>4, RecvCases, Zenon
  <2>5. CASE rx_main_check
    <3>1. worker.job.interface_id \in Interfaces
      BY DEF Jobs
    <3>2. stats' \in [Interfaces -> [Counters -> Nat]]
      BY <2>5, <3>1, BumpType DEF rx_main_check, Counters
    <3> QED
      BY <2>5, <3>2 DEF rx_main_check
  <2>6. CASE rx_main_report
    <3> DEFINE i == worker.job.interface_id
               f == rx_storage[i][worker.job.block]
    <3>1. i \in Interfaces /\ f \in Frames \cup {NoFrame}
      BY DEF Jobs
    <3>2. Append(delivered[i], f) \in Seq(Frames \cup {NoFrame})
      BY <3>1, AppendProperties
    <3>3. delivered' \in [Interfaces -> Seq(Frames \cup {NoFrame})]
      BY <2>6, <3>1, <3>2 DEF rx_main_report
    <3>4. stats' \in [Interfaces -> [Counters -> Nat]]
      BY <2>6, <3>1, BumpType DEF rx_main_report, Counters
    <3> QED
      BY <2>6, <3>3, <3>4 DEF rx_main_report
  <2>7. CASE rx_main_free
    BY <2>7 DEF rx_main_free, pool_put, Jobs
  <2>8. ASSUME NEW i \in Interfaces, set_active(i) PROVE TypeOK'
    BY <2>8 DEF set_active
  <2>9. CASE UNCHANGED vars
    BY <2>9 DEF vars
  <2> QED
    BY <2>1, <2>2, <2>3, <2>4, <2>5, <2>6, <2>7, <2>8, <2>9
    DEF Next, rx_enqueue, rx_main
<1> QED
  BY <1>1, <1>2, PTL DEF Spec

-----------------------------------------------------------------------------
(* Queueing a job adds it to the jobs queued, and keeps them distinct if it  *)
(* was not queued before.                                                    *)
LEMMA AppendRange ==
  ASSUME NEW S, NEW q \in Seq(S), NEW e \in S
  PROVE  /\ Range(Append(q, e)) = Range(q) \cup {e}
         /\ IsInjective(q) /\ e \notin Range(q) => IsInjective(Append(q, e))
<1> DEFINE r == Append(q, e)
           n == Len(q)
<1>1. /\ n \in Nat /\ DOMAIN q = 1 .. n /\ DOMAIN r = 1 .. n + 1
      /\ r[n + 1] = e /\ \A k \in 1 .. n : r[k] = q[k]
  BY AppendProperties, LenProperties
<1>2. 1 .. n + 1 = (1 .. n) \cup {n + 1}
  BY <1>1
<1> HIDE DEF r
<1>3. Range(r) = Range(q) \cup {e}
  BY <1>1, <1>2 DEF Range
<1>4. ASSUME IsInjective(q), e \notin Range(q) PROVE IsInjective(r)
  BY <1>1, <1>2, <1>4 DEF IsInjective, Range
<1> QED
  BY <1>3, <1>4 DEF r

(* Taking the first job of a queue of distinct jobs removes just that job.   *)
LEMMA TailRange ==
  ASSUME NEW S, NEW q \in Seq(S), q # <<>>, IsInjective(q)
  PROVE  /\ Range(Tail(q)) = Range(q) \ {Head(q)}
         /\ Head(q) \in Range(q)
         /\ IsInjective(Tail(q))
<1> DEFINE r == Tail(q)
           n == Len(q)
<1>1. /\ n \in Nat \ {0} /\ DOMAIN q = 1 .. n /\ DOMAIN r = 1 .. n - 1
      /\ q[1] = Head(q) /\ \A k \in 1 .. n - 1 : r[k] = q[k + 1]
  BY HeadTailProperties, LenProperties, EmptySeq
<1> HIDE DEF r
<1>2. ASSUME NEW x \in Range(r) PROVE x \in Range(q) \ {Head(q)}
  <2>1. PICK k \in 1 .. n - 1 : x = q[k + 1]
    BY <1>1, <1>2 DEF Range
  <2>2. k + 1 \in DOMAIN q /\ 1 \in DOMAIN q /\ k + 1 # 1
    BY <1>1
  <2> QED
    BY <1>1, <2>1, <2>2 DEF Range, IsInjective
<1>3. ASSUME NEW x \in Range(q), x # Head(q) PROVE x \in Range(r)
  <2>1. PICK m \in 1 .. n : x = q[m]
    BY <1>1, <1>3 DEF Range
  <2>2. m - 1 \in 1 .. n - 1 /\ x = r[m - 1]
    BY <1>1, <1>3, <2>1
  <2> QED
    BY <1>1, <2>2 DEF Range
<1>4. IsInjective(r)
  <2> SUFFICES ASSUME NEW a \in 1 .. n - 1, NEW b \in 1 .. n - 1, r[a] = r[b] PROVE a = b
    BY <1>1 DEF IsInjective
  <2>1. a + 1 \in DOMAIN q /\ b + 1 \in DOMAIN q /\ q[a + 1] = q[b + 1]
    BY <1>1
  <2> QED
    BY <1>1, <2>1 DEF IsInjective
<1>5. Head(q) \in Range(q)
  BY <1>1 DEF Range
<1> QED
  BY <1>2, <1>3, <1>4, <1>5 DEF r

(* There are as many jobs as blocks in the two pools.                        *)
LEMMA JobsCount == IsFiniteSet(Jobs) /\ Cardinality(Jobs) = 2 * PoolSize
<1>1. IsFiniteSet(Interfaces) /\ Cardinality(Interfaces) = 2
  <2>1. Interfaces = {"STA"} \cup {"AP"} /\ "AP" \notin {"STA"}
    BY DEF Interfaces
  <2>2. IsFiniteSet({"STA"}) /\ Cardinality({"STA"}) = 1
    BY FS_Singleton
  <2>3. /\ IsFiniteSet({"STA"} \cup {"AP"})
        /\ Cardinality({"STA"} \cup {"AP"}) = Cardinality({"STA"}) + 1
    BY <2>1, <2>2, FS_AddElement, Zenon
  <2> QED
    BY <2>1, <2>2, <2>3
<1>2. IsFiniteSet(Blocks) /\ Cardinality(Blocks) = PoolSize
  BY PoolAssumption, FS_Interval DEF Blocks
<1> DEFINE f == [p \in Interfaces \X Blocks |-> [interface_id |-> p[1], block |-> p[2]]]
<1>3. f \in Bijection(Interfaces \X Blocks, Jobs)
  <2>1. f \in [Interfaces \X Blocks -> Jobs]
    BY DEF Jobs
  <2>2. ASSUME NEW a \in Interfaces \X Blocks, NEW b \in Interfaces \X Blocks,
               f[a] = f[b]
        PROVE  a = b
    <3>1. f[a].interface_id = a[1] /\ f[a].block = a[2]
          /\ f[b].interface_id = b[1] /\ f[b].block = b[2]
      OBVIOUS
    <3>2. a = <<a[1], a[2]>> /\ b = <<b[1], b[2]>>
      OBVIOUS
    <3> QED
      BY <2>2, <3>1, <3>2
  <2>3. ASSUME NEW j \in Jobs PROVE \E p \in Interfaces \X Blocks : f[p] = j
    <3>1. <<j.interface_id, j.block>> \in Interfaces \X Blocks
      BY DEF Jobs
    <3>2. f[<<j.interface_id, j.block>>] = j
      BY <3>1 DEF Jobs
    <3> QED
      BY <3>1, <3>2
  <2> HIDE DEF f
  <2> QED
    BY <2>1, <2>2, <2>3 DEF Bijection, Injection, Surjection, IsInjective
<1>4. ExistsBijection(Interfaces \X Blocks, Jobs)
  BY <1>3 DEF ExistsBijection
<1> QED
  BY <1>1, <1>2, <1>4, FS_Product, FS_Bijection, PoolAssumption

(* A job that is queued while every queued job is different, and the         *)
(* executor holds one more block, finds room in the queue.                   *)
LEMMA QueueHasRoom ==
  ASSUME TypeOK, BlockOwnership, producer.pc = "send"
  PROVE  Len(rx_queue) < RxQueueDepth
<1> DEFINE job == [interface_id |-> producer.frame.interface_id, block |-> producer.block]
           n == Len(rx_queue)
<1>1. /\ job \in Jobs
      /\ ProducerHolds(job.interface_id, job.block)
  BY DEF TypeOK, Frames, Jobs, ProducerHolds
<1>2. job \notin Range(rx_queue)
  BY <1>1 DEF BlockOwnership, Queued, Jobs
<1>3. n \in Nat /\ rx_queue \in [1 .. n -> Jobs]
  BY LenProperties DEF TypeOK
<1>4. rx_queue \in Injection(1 .. n, Jobs \ {job})
  BY <1>2, <1>3 DEF Injection, Range, BlockOwnership
<1>5. IsFiniteSet(Jobs \ {job}) /\ Cardinality(Jobs \ {job}) = 2 * PoolSize - 1
  <2>1. job \in Jobs
    BY <1>1
  <2> HIDE DEF job
  <2>2. /\ IsFiniteSet(Jobs \ {job})
        /\ Cardinality(Jobs \ {job}) = Cardinality(Jobs) - 1
    BY <2>1, JobsCount, FS_RemoveElement, Zenon
  <2> QED
    BY <2>2, JobsCount
<1>6. Cardinality(1 .. n) <= 2 * PoolSize - 1
  BY <1>4, <1>5, FS_Injection
<1>7. Cardinality(1 .. n) = n
  BY <1>3, FS_Interval
<1> QED
  BY <1>3, <1>6, <1>7, PoolAssumption DEF RxQueueDepth

(* Each step of either thread hands a block from one owner to the next.      *)
LEMMA OwnershipStep ==
  ASSUME TypeOK, BlockOwnership, [Next]_vars
  PROVE  BlockOwnership'
<1> USE DEF InFlight, Lost
<1>1. ASSUME NEW i \in Interfaces, rx_enqueue_allocate(i) PROVE BlockOwnership'
  <2>1. CASE rx_free_mask[i] = {}
    BY <1>1, <2>1 DEF rx_enqueue_allocate, pool_take, BlockOwnership, ProducerHolds,
       WorkerHolds, Queued
  <2>2. CASE rx_free_mask[i] # {}
    <3>1. PICK b \in Blocks :
            /\ b \in rx_free_mask[i]
            /\ rx_free_mask' = [rx_free_mask EXCEPT ![i] = @ \ {b}]
            /\ producer' = [pc |-> "copy", block |-> b,
                            frame |-> [interface_id |-> i, seq |-> arrived + 1]]
      BY <1>1, <2>2 DEF rx_enqueue_allocate, pool_take
    <3>2. producer.pc = "idle" /\ UNCHANGED <<rx_queue, worker, lost>>
      BY <1>1 DEF rx_enqueue_allocate
    <3>3. ASSUME NEW k \in Interfaces, NEW c \in Blocks
          PROVE  /\ ProducerHolds(k, c)' <=> k = i /\ c = b
                 /\ ~ProducerHolds(k, c)
                 /\ WorkerHolds(k, c)' <=> WorkerHolds(k, c)
                 /\ Queued(k, c)' <=> Queued(k, c)
                 /\ c \in rx_free_mask'[k] <=> c \in rx_free_mask[k] /\ ~(k = i /\ c = b)
      BY <3>1, <3>2 DEF ProducerHolds, WorkerHolds, Queued, TypeOK
    <3> QED
      BY <3>1, <3>2, <3>3 DEF BlockOwnership
  <2> QED
    BY <2>1, <2>2
<1>2. CASE rx_enqueue_copy
  BY <1>2 DEF rx_enqueue_copy, BlockOwnership, ProducerHolds, WorkerHolds, Queued, TypeOK
<1>3. CASE rx_enqueue_send
  <2> DEFINE job == [interface_id |-> producer.frame.interface_id,
                     block |-> producer.block]
  <2>1. /\ job \in Jobs
        /\ ProducerHolds(job.interface_id, job.block)
    BY <1>3 DEF rx_enqueue_send, TypeOK, Frames, Jobs, ProducerHolds
  <2>2. job \notin Range(rx_queue)
    BY <2>1 DEF BlockOwnership, Queued, Jobs
  <2>3. /\ rx_queue' = Append(rx_queue, job)
        /\ producer'.pc = "idle"
        /\ UNCHANGED <<rx_free_mask, worker, lost>>
    BY <1>3, QueueHasRoom DEF rx_enqueue_send, TypeOK
  <2>4. IsInjective(rx_queue') /\ Range(rx_queue') = Range(rx_queue) \cup {job}
    BY <2>1, <2>2, <2>3, AppendRange DEF TypeOK, BlockOwnership
  <2>5. ASSUME NEW k \in Interfaces, NEW c \in Blocks
        PROVE  /\ ProducerHolds(k, c) <=> [interface_id |-> k, block |-> c] = job
               /\ ~ProducerHolds(k, c)'
               /\ WorkerHolds(k, c)' <=> WorkerHolds(k, c)
               /\ Queued(k, c)' <=> Queued(k, c) \/ ProducerHolds(k, c)
    BY <1>3, <2>3, <2>4 DEF rx_enqueue_send, ProducerHolds, WorkerHolds, Queued
  <2> QED
    BY <2>3, <2>4, <2>5 DEF BlockOwnership
<1>4. CASE rx_main_recv
  <2>1. /\ worker.pc = "recv" /\ rx_queue # <<>> /\ rx_queue' = Tail(rx_queue)
        /\ UNCHANGED <<rx_free_mask, producer>>
    BY <1>4, RecvCases
  <2>2. /\ Range(rx_queue') = Range(rx_queue) \ {Head(rx_queue)}
        /\ Head(rx_queue) \in Range(rx_queue)
        /\ IsInjective(rx_queue')
    BY <2>1, TailRange DEF TypeOK, BlockOwnership
  <2> DEFINE Taken(k, c) == [interface_id |-> k, block |-> c] = Head(rx_queue)
  <2>3. ASSUME NEW k \in Interfaces, NEW c \in Blocks
        PROVE  /\ ~WorkerHolds(k, c)
               /\ ProducerHolds(k, c)' <=> ProducerHolds(k, c)
               /\ Queued(k, c)' <=> Queued(k, c) /\ ~Taken(k, c)
               /\ Taken(k, c) => Queued(k, c)
    BY <2>1, <2>2 DEF WorkerHolds, ProducerHolds, Queued
  <2>4. CASE worker' = [pc |-> "check", job |-> Head(rx_queue)] /\ lost' = lost
    <3>1. ASSUME NEW k \in Interfaces, NEW c \in Blocks
          PROVE  WorkerHolds(k, c)' <=> Taken(k, c)
      BY <2>4 DEF WorkerHolds
    <3> HIDE DEF Taken
    <3> QED
      BY <2>1, <2>2, <2>3, <2>4, <3>1 DEF BlockOwnership
  <2>5. CASE lost' = lost \cup {Head(rx_queue)} /\ worker' = worker
    <3>1. ASSUME NEW k \in Interfaces, NEW c \in Blocks
          PROVE  /\ ~WorkerHolds(k, c)'
                 /\ c \in Lost(k)' <=> c \in Lost(k) \/ Taken(k, c)
      BY <2>1, <2>5 DEF WorkerHolds
    <3> HIDE DEF Taken, Lost
    <3> QED
      BY <2>1, <2>2, <2>3, <3>1 DEF BlockOwnership
  <2> QED
    BY <1>4, <2>4, <2>5, RecvCases
<1>5. CASE rx_main_check
  BY <1>5 DEF rx_main_check, BlockOwnership, ProducerHolds, WorkerHolds, Queued, TypeOK
<1>6. CASE rx_main_report
  BY <1>6 DEF rx_main_report, BlockOwnership, ProducerHolds, WorkerHolds, Queued, TypeOK
<1>7. CASE rx_main_free
  <2> DEFINE i == worker.job.interface_id
             b == worker.job.block
  <2>1. /\ i \in Interfaces /\ b \in Blocks /\ worker.pc = "free"
        /\ worker.job = [interface_id |-> i, block |-> b]
        /\ worker'.pc = "recv"
        /\ rx_free_mask' = [rx_free_mask EXCEPT ![i] = @ \cup {b}]
        /\ UNCHANGED <<rx_queue, producer, lost>>
    BY <1>7 DEF rx_main_free, pool_put, TypeOK, Jobs
  <2>2. ASSUME NEW k \in Interfaces, NEW c \in Blocks
        PROVE  /\ WorkerHolds(k, c) <=> k = i /\ c = b
               /\ ~WorkerHolds(k, c)'
               /\ ProducerHolds(k, c)' <=> ProducerHolds(k, c)
               /\ Queued(k, c)' <=> Queued(k, c)
               /\ c \in rx_free_mask'[k] <=> c \in rx_free_mask[k] \/ (k = i /\ c = b)
    BY <2>1 DEF WorkerHolds, ProducerHolds, Queued, TypeOK
  <2> HIDE DEF i, b
  <2> QED
    BY <2>1, <2>2 DEF BlockOwnership
<1>8. ASSUME NEW i \in Interfaces, set_active(i) PROVE BlockOwnership'
  BY <1>8 DEF set_active, BlockOwnership, ProducerHolds, WorkerHolds, Queued
<1>9. CASE UNCHANGED vars
  BY <1>9 DEF vars, BlockOwnership, ProducerHolds, WorkerHolds, Queued
<1> QED
  BY <1>1, <1>2, <1>3, <1>4, <1>5, <1>6, <1>7, <1>8, <1>9
  DEF Next, rx_enqueue, rx_main

(* For every pool size and every kernel, each block is in exactly one place  *)
(* in every reachable state of wlh_rtt_wlan_rx_enqueue and rx_main, and only *)
(* a job rx_main skips takes a block out of use.                             *)
THEOREM OwnershipCorrect == Spec => []BlockOwnership
<1>1. Init => BlockOwnership
  BY DEF Init, BlockOwnership, InFlight, Lost, ProducerHolds, WorkerHolds, Queued,
     IsInjective, Range, pool_initial_mask
<1>2. TypeOK /\ BlockOwnership /\ [Next]_vars => BlockOwnership'
  BY OwnershipStep
<1> QED
  BY <1>1, <1>2, TypeCorrect, PTL DEF Spec

(* For every pool size, rt_mq_send of rx_enqueue finds room: the queue_full  *)
(* counters stay zero.                                                       *)
THEOREM QueueCorrect == Spec => []QueueNeverFull
<1> DEFINE NoneFull == \A i \in Interfaces : stats[i]["queue_full"] = 0
<1>1. Init => NoneFull
  BY DEF Init, Counters
<1>2. ASSUME TypeOK, BlockOwnership, [Next]_vars, NoneFull PROVE NoneFull'
  <2>1. ASSUME NEW i \in Interfaces, NEW c \in Counters, Bump(i, c), c # "queue_full"
        PROVE  NoneFull'
    BY <1>2, <2>1 DEF Bump, TypeOK, Counters
  <2>2. ASSUME NEW i \in Interfaces, rx_enqueue_allocate(i) PROVE NoneFull'
    BY <1>2, <2>1, <2>2 DEF rx_enqueue_allocate, Counters
  <2>3. CASE rx_enqueue_copy
    BY <1>2, <2>3 DEF rx_enqueue_copy
  <2>4. CASE rx_enqueue_send
    BY <1>2, <2>4, QueueHasRoom DEF rx_enqueue_send
  <2>5. CASE rx_main_recv
    BY <1>2, <2>5, RecvCases
  <2>6. CASE rx_main_check
    <3>1. worker.job.interface_id \in Interfaces
      BY <1>2 DEF TypeOK, Jobs
    <3> QED
      BY <1>2, <2>1, <2>6, <3>1 DEF rx_main_check, Counters
  <2>7. CASE rx_main_report
    <3>1. worker.job.interface_id \in Interfaces
      BY <1>2 DEF TypeOK, Jobs
    <3> QED
      BY <1>2, <2>1, <2>7, <3>1 DEF rx_main_report, Counters
  <2>8. CASE rx_main_free
    BY <1>2, <2>8 DEF rx_main_free
  <2>9. ASSUME NEW i \in Interfaces, set_active(i) PROVE NoneFull'
    BY <1>2, <2>9 DEF set_active
  <2>10. CASE UNCHANGED vars
    BY <1>2, <2>10 DEF vars
  <2> QED
    BY <1>2, <2>2, <2>3, <2>4, <2>5, <2>6, <2>7, <2>8, <2>9, <2>10
    DEF Next, rx_enqueue, rx_main
<1>3. TypeOK /\ BlockOwnership /\ NoneFull => QueueNeverFull
  BY QueueHasRoom DEF QueueNeverFull
<1> HIDE DEF NoneFull
<1>4. Spec => []NoneFull
  BY <1>1, <1>2, TypeCorrect, OwnershipCorrect, PTL DEF Spec
<1> QED
  BY <1>3, <1>4, TypeCorrect, OwnershipCorrect, PTL

(* For every pool size, rx_enqueue drops a frame for want of a block only    *)
(* while all the blocks of that interface are in flight or skipped.          *)
THEOREM IsolationCorrect == Spec => PoolIsolation
<1> DEFINE Isolated == \A i \in Interfaces :
             stats'[i]["pool_empty"] # stats[i]["pool_empty"]
               => InFlight(i) \cup Lost(i) = Blocks
<1>1. ASSUME TypeOK, BlockOwnership, [Next]_vars PROVE Isolated
  <2>1. ASSUME NEW i \in Interfaces, NEW c \in Counters, Bump(i, c), c # "pool_empty"
        PROVE  Isolated
    BY <1>1, <2>1 DEF Bump, TypeOK, Counters
  <2>2. ASSUME NEW i \in Interfaces, rx_enqueue_allocate(i) PROVE Isolated
    <3>1. CASE rx_free_mask[i] = {}
      <4>1. InFlight(i) \cup Lost(i) = Blocks
        BY <1>1, <3>1 DEF BlockOwnership, InFlight, Lost
      <4>2. Bump(i, "pool_empty")
        BY <2>2, <3>1 DEF rx_enqueue_allocate, pool_take
      <4> QED
        BY <1>1, <4>1, <4>2 DEF Bump, TypeOK
    <3>2. CASE rx_free_mask[i] # {}
      BY <2>2, <3>2 DEF rx_enqueue_allocate
    <3> QED
      BY <3>1, <3>2
  <2>3. CASE rx_enqueue_copy
    BY <2>3 DEF rx_enqueue_copy
  <2>4. CASE rx_enqueue_send
    BY <1>1, <2>4, QueueHasRoom DEF rx_enqueue_send
  <2>5. CASE rx_main_recv
    BY <2>5, RecvCases
  <2>6. CASE rx_main_check
    <3>1. worker.job.interface_id \in Interfaces
      BY <1>1 DEF TypeOK, Jobs
    <3> QED
      BY <2>1, <2>6, <3>1 DEF rx_main_check, Counters
  <2>7. CASE rx_main_report
    <3>1. worker.job.interface_id \in Interfaces
      BY <1>1 DEF TypeOK, Jobs
    <3> QED
      BY <2>1, <2>7, <3>1 DEF rx_main_report, Counters
  <2>8. CASE rx_main_free
    BY <2>8 DEF rx_main_free
  <2>9. ASSUME NEW i \in Interfaces, set_active(i) PROVE Isolated
    BY <2>9 DEF set_active
  <2>10. CASE UNCHANGED vars
    BY <2>10 DEF vars
  <2> QED
    BY <1>1, <2>2, <2>3, <2>4, <2>5, <2>6, <2>7, <2>8, <2>9, <2>10
    DEF Next, rx_enqueue, rx_main
<1> QED
  BY <1>1, TypeCorrect, OwnershipCorrect, PTL DEF Spec, PoolIsolation

-----------------------------------------------------------------------------
(* Delivery in order, none twice and none overwritten.  The frames under way *)
(* form a line: delivered, with the wlh-rx thread, queued, with the          *)
(* executor; each is newer than the ones before it.                          *)
FrameOf(job) == rx_storage[job.interface_id][job.block]

(* The newest frame whose job is queued or further.                          *)
Newest == IF producer.pc = "idle" THEN arrived ELSE arrived - 1

Carries(job) ==
  /\ FrameOf(job) \in Frames
  /\ FrameOf(job).interface_id = job.interface_id
  /\ FrameOf(job).seq <= Newest

BeforeQueue(frame) == \A n \in 1 .. Len(rx_queue) : frame.seq < FrameOf(rx_queue[n]).seq

ProducerNewest ==
  /\ producer.pc # "idle" => producer.frame.seq = arrived
  /\ producer.pc = "send" =>
       rx_storage[producer.frame.interface_id][producer.block] = producer.frame

QueueInOrder ==
  \A n \in 1 .. Len(rx_queue) :
    /\ Carries(rx_queue[n])
    /\ \A m \in 1 .. n - 1 : FrameOf(rx_queue[m]).seq < FrameOf(rx_queue[n]).seq

WorkerInOrder ==
  worker.pc \in {"check", "report"} => Carries(worker.job) /\ BeforeQueue(FrameOf(worker.job))

DeliveredFirst ==
  \A i \in Interfaces : \A k \in 1 .. Len(delivered[i]) :
    /\ delivered[i][k] \in Frames /\ delivered[i][k].seq <= Newest
    /\ BeforeQueue(delivered[i][k])
    /\ worker.pc \in {"check", "report"} => delivered[i][k].seq < FrameOf(worker.job).seq

LineInv == ProducerNewest /\ QueueInOrder /\ WorkerInOrder /\ DeliveredFirst /\ DeliveryOrder

(* What the line says of one frame stays true while newer frames arrive.     *)
LEMMA LineKept ==
  ASSUME TypeOK, LineInv, UNCHANGED <<rx_queue, delivered>>, Newest' >= Newest,
         \A n \in 1 .. Len(rx_queue) : FrameOf(rx_queue[n])' = FrameOf(rx_queue[n]),
         arrived' \in Nat,
         worker'.pc \in {"check", "report"} =>
           /\ worker.pc \in {"check", "report"} /\ worker'.job = worker.job
           /\ FrameOf(worker.job)' = FrameOf(worker.job)
  PROVE  QueueInOrder' /\ WorkerInOrder' /\ DeliveredFirst' /\ DeliveryOrder'
<1>0. Newest \in Int /\ Newest' \in Int
  BY MaxFramesAssumption DEF TypeOK, Newest
<1>1. \A f \in Frames : f.seq <= Newest => f.seq <= Newest'
  BY <1>0, MaxFramesAssumption DEF Frames
<1>2. \A n \in 1 .. Len(rx_queue) : Carries(rx_queue[n])'
  BY <1>1 DEF LineInv, QueueInOrder, Carries
<1>3. QueueInOrder'
  BY <1>2 DEF LineInv, QueueInOrder
<1>4. WorkerInOrder'
  BY <1>1 DEF LineInv, WorkerInOrder, Carries, BeforeQueue
<1>5. DeliveredFirst'
  BY <1>1 DEF LineInv, DeliveredFirst, BeforeQueue
<1>6. DeliveryOrder'
  BY DEF LineInv, DeliveryOrder
<1> QED
  BY <1>3, <1>4, <1>5, <1>6

(* The executor's copy goes into a block nobody else has.                    *)
LEMMA CopyStep ==
  ASSUME TypeOK, BlockOwnership, LineInv, rx_enqueue_copy
  PROVE  LineInv'
<1> DEFINE i == producer.frame.interface_id
           b == producer.block
<1>1. i \in Interfaces /\ b \in Blocks /\ ProducerHolds(i, b)
  BY DEF TypeOK, rx_enqueue_copy, Frames, ProducerHolds
<1>2. /\ producer'.pc = "send" /\ producer'.frame = producer.frame
      /\ producer'.block = producer.block /\ producer.pc = "copy"
      /\ UNCHANGED <<rx_queue, worker, arrived, delivered>>
      /\ rx_storage' = [rx_storage EXCEPT ![i][b] = producer.frame]
  BY DEF TypeOK, rx_enqueue_copy
<1> HIDE DEF i, b
<1>3. /\ rx_storage'[i][b] = producer.frame
      /\ \A job \in Jobs : ~(job.interface_id = i /\ job.block = b) =>
           rx_storage'[job.interface_id][job.block] = rx_storage[job.interface_id][job.block]
  BY <1>1, <1>2 DEF TypeOK, Jobs
<1>4. \A n \in 1 .. Len(rx_queue) : rx_queue[n] \in Jobs /\ rx_queue[n] \in Range(rx_queue)
  BY DEF TypeOK, Range
<1>5. \A n \in 1 .. Len(rx_queue) : FrameOf(rx_queue[n])' = FrameOf(rx_queue[n])
  <2>1. [interface_id |-> i, block |-> b] \notin Range(rx_queue)
    BY <1>1 DEF BlockOwnership, Queued
  <2> QED
    BY <1>2, <1>3, <1>4, <2>1 DEF FrameOf, Jobs
<1>6. worker.pc # "recv" => FrameOf(worker.job)' = FrameOf(worker.job)
  <2>1. worker.job \in Jobs /\ (worker.pc # "recv" => worker.job # [interface_id |-> i, block |-> b])
    BY <1>1 DEF TypeOK, BlockOwnership, WorkerHolds
  <2> QED
    BY <1>2, <1>3, <2>1 DEF FrameOf, Jobs
<1>7. Newest' = Newest /\ Newest \in Int /\ arrived' \in Nat
  BY <1>2, MaxFramesAssumption DEF Newest, TypeOK
<1>8. QueueInOrder' /\ WorkerInOrder' /\ DeliveredFirst' /\ DeliveryOrder'
  BY <1>2, <1>5, <1>6, <1>7, LineKept
<1>9. ProducerNewest'
  BY <1>2, <1>3 DEF LineInv, ProducerNewest, i, b
<1> QED
  BY <1>8, <1>9 DEF LineInv

(* The executor queues the newest frame, behind all the others.              *)
LEMMA SendStep ==
  ASSUME TypeOK, BlockOwnership, LineInv, rx_enqueue_send
  PROVE  LineInv'
<1>1. PICK job \in Jobs : job = [interface_id |-> producer.frame.interface_id,
                                 block |-> producer.block]
  BY DEF TypeOK, Frames, Jobs, rx_enqueue_send
<1>2. PICK len \in Nat : len = Len(rx_queue)
  BY LenProperties DEF TypeOK
<1>3. /\ rx_queue' = Append(rx_queue, job) /\ producer'.pc = "idle" /\ producer.pc = "send"
      /\ UNCHANGED <<rx_storage, worker, arrived, delivered>>
  BY <1>1, QueueHasRoom DEF rx_enqueue_send, TypeOK
<1>4. /\ FrameOf(job) = producer.frame /\ producer.frame \in Frames
      /\ producer.frame.seq = arrived /\ producer.frame.interface_id = job.interface_id
  BY <1>1, <1>3 DEF TypeOK, FrameOf, LineInv, ProducerNewest
<1>5. Newest = arrived - 1 /\ Newest' = arrived /\ arrived \in Nat
  BY <1>3, MaxFramesAssumption DEF Newest, TypeOK
<1>6. \A f \in Frames : f.seq \in Nat
  BY MaxFramesAssumption DEF Frames
<1>7. /\ Len(rx_queue') = len + 1 /\ rx_queue'[len + 1] = job
      /\ \A n \in 1 .. len : rx_queue'[n] = rx_queue[n]
  BY <1>2, <1>3, AppendProperties DEF TypeOK
<1>8. /\ \A n \in 1 .. len : FrameOf(rx_queue[n])' = FrameOf(rx_queue[n])
      /\ FrameOf(rx_queue[len + 1])' = producer.frame
      /\ FrameOf(worker.job)' = FrameOf(worker.job)
  BY <1>3, <1>4, <1>7 DEF FrameOf
<1>9. \A n \in 1 .. len : /\ FrameOf(rx_queue[n]) \in Frames
                          /\ FrameOf(rx_queue[n]).interface_id = rx_queue[n].interface_id
                          /\ FrameOf(rx_queue[n]).seq < arrived
                          /\ \A m \in 1 .. n - 1 :
                               FrameOf(rx_queue[m]).seq < FrameOf(rx_queue[n]).seq
  BY <1>2, <1>5, <1>6 DEF LineInv, QueueInOrder, Carries
<1>10. QueueInOrder'
  <2> SUFFICES ASSUME NEW n \in 1 .. len + 1
               PROVE  /\ Carries(rx_queue[n])'
                      /\ \A m \in 1 .. n - 1 :
                           (FrameOf(rx_queue[m]).seq < FrameOf(rx_queue[n]).seq)'
    BY <1>7 DEF QueueInOrder
  <2>1. CASE n = len + 1
    BY <1>4, <1>5, <1>7, <1>8, <1>9, <2>1 DEF Carries
  <2>2. CASE n \in 1 .. len
    BY <1>5, <1>6, <1>7, <1>8, <1>9, <2>2 DEF Carries
  <2> QED
    BY <2>1, <2>2
<1>11. ASSUME NEW f \in Frames, f.seq <= Newest, BeforeQueue(f)
       PROVE  f.seq <= Newest' /\ BeforeQueue(f)'
  <2>1. f.seq < arrived /\ f.seq <= Newest'
    BY <1>5, <1>6, <1>11
  <2>2. ASSUME NEW n \in 1 .. len + 1 PROVE f.seq < FrameOf(rx_queue[n]).seq'
    <3>1. CASE n = len + 1
      BY <1>4, <1>8, <2>1, <3>1
    <3>2. CASE n \in 1 .. len
      BY <1>2, <1>8, <1>11, <3>2 DEF BeforeQueue
    <3> QED
      BY <3>1, <3>2
  <2> QED
    BY <1>7, <2>1, <2>2 DEF BeforeQueue
<1>12. WorkerInOrder'
  <2> SUFFICES ASSUME worker.pc \in {"check", "report"}
               PROVE  Carries(worker.job)' /\ BeforeQueue(FrameOf(worker.job))'
    BY <1>3 DEF WorkerInOrder
  <2>1. Carries(worker.job) /\ BeforeQueue(FrameOf(worker.job))
    BY DEF LineInv, WorkerInOrder
  <2>2. PICK f \in Frames : f = FrameOf(worker.job)
    BY <2>1 DEF Carries
  <2>3. f.seq <= Newest' /\ BeforeQueue(f)'
    BY <1>11, <2>1, <2>2 DEF Carries
  <2>4. Carries(worker.job)'
    BY <1>3, <1>8, <2>1, <2>2, <2>3 DEF Carries
  <2>5. BeforeQueue(FrameOf(worker.job))'
    BY <1>8, <2>2, <2>3 DEF BeforeQueue
  <2> QED
    BY <2>4, <2>5
<1>13. DeliveredFirst'
  <2> SUFFICES ASSUME NEW i \in Interfaces, NEW k \in 1 .. Len(delivered[i])
               PROVE  /\ delivered[i][k] \in Frames /\ delivered[i][k].seq <= Newest'
                      /\ BeforeQueue(delivered[i][k])'
                      /\ worker.pc \in {"check", "report"} =>
                           delivered[i][k].seq < FrameOf(worker.job).seq
    BY <1>3, <1>8 DEF DeliveredFirst
  <2>1. /\ delivered[i][k] \in Frames /\ delivered[i][k].seq <= Newest
        /\ BeforeQueue(delivered[i][k])
        /\ worker.pc \in {"check", "report"} => delivered[i][k].seq < FrameOf(worker.job).seq
    BY DEF LineInv, DeliveredFirst
  <2>2. PICK f \in Frames : f = delivered[i][k]
    BY <2>1
  <2>3. f.seq <= Newest' /\ BeforeQueue(f)'
    BY <1>11, <2>1, <2>2
  <2> QED
    BY <1>3, <2>1, <2>2, <2>3 DEF BeforeQueue
<1>14. ProducerNewest' /\ DeliveryOrder'
  BY <1>3 DEF LineInv, ProducerNewest, DeliveryOrder
<1> QED
  BY <1>10, <1>12, <1>13, <1>14 DEF LineInv

(* The wlh-rx thread takes the oldest of the queued frames, or skips it.     *)
LEMMA RecvStep ==
  ASSUME TypeOK, LineInv, rx_main_recv
  PROVE  LineInv'
<1>1. PICK len \in Nat : len = Len(rx_queue) - 1
  <2>1. rx_queue \in Seq(Jobs) /\ rx_queue # <<>>
    BY RecvCases DEF TypeOK
  <2>2. Len(rx_queue) \in Nat /\ Len(rx_queue) # 0
    BY <2>1
  <2> QED
    BY <2>2
<1>2. /\ worker.pc = "recv" /\ rx_queue' = Tail(rx_queue) /\ rx_queue # <<>>
      /\ UNCHANGED <<rx_storage, producer, arrived, delivered>>
      /\ \/ worker' = [pc |-> "check", job |-> Head(rx_queue)]
         \/ worker' = worker
  BY RecvCases
<1>3. /\ Len(rx_queue') = len /\ Head(rx_queue) = rx_queue[1]
      /\ \A n \in 1 .. len : rx_queue'[n] = rx_queue[n + 1]
      /\ \A n \in 1 .. len : n + 1 \in 1 .. len + 1
      /\ 1 \in 1 .. len + 1 /\ Len(rx_queue) = len + 1
  <2>1. rx_queue \in Seq(Jobs) /\ rx_queue # <<>>
    BY <1>2 DEF TypeOK
  <2>2. /\ Len(Tail(rx_queue)) = Len(rx_queue) - 1 /\ Head(rx_queue) = rx_queue[1]
        /\ \A n \in 1 .. Len(rx_queue) - 1 : Tail(rx_queue)[n] = rx_queue[n + 1]
    BY <2>1
  <2>3. Len(rx_queue) = len + 1
    BY <1>1, <2>1
  <2> QED
    BY <1>2, <2>2, <2>3
<1>4. Newest' = Newest
  BY <1>2 DEF Newest
<1>5. /\ \A n \in 1 .. len : FrameOf(rx_queue[n])' = FrameOf(rx_queue[n + 1])
      /\ worker'.pc \in {"check", "report"} =>
           worker'.job = rx_queue[1] /\ FrameOf(worker.job)' = FrameOf(rx_queue[1])
  BY <1>2, <1>3 DEF FrameOf
<1>6. \A n \in 1 .. len + 1 : /\ Carries(rx_queue[n])
                              /\ \A m \in 1 .. n - 1 :
                                   FrameOf(rx_queue[m]).seq < FrameOf(rx_queue[n]).seq
  BY <1>3 DEF LineInv, QueueInOrder
<1>7. QueueInOrder'
  <2> SUFFICES ASSUME NEW n \in 1 .. len
               PROVE  /\ Carries(rx_queue[n])'
                      /\ \A m \in 1 .. n - 1 :
                           (FrameOf(rx_queue[m]).seq < FrameOf(rx_queue[n]).seq)'
    BY <1>3 DEF QueueInOrder
  <2>1. Carries(rx_queue[n + 1])
    BY <1>3, <1>6
  <2>2. \A m \in 1 .. n - 1 : m \in 1 .. len /\ m + 1 \in 1 .. (n + 1) - 1
    OBVIOUS
  <2> QED
    BY <1>3, <1>4, <1>5, <1>6, <2>1, <2>2 DEF Carries
<1>8. WorkerInOrder'
  <2> SUFFICES ASSUME worker'.pc \in {"check", "report"}
               PROVE  Carries(worker.job)' /\ BeforeQueue(FrameOf(worker.job))'
    BY DEF WorkerInOrder
  <2>1. Carries(worker.job)'
    BY <1>3, <1>4, <1>5, <1>6 DEF Carries
  <2>2. \A n \in 1 .. len : 1 \in 1 .. (n + 1) - 1
    OBVIOUS
  <2>3. BeforeQueue(FrameOf(worker.job))'
    BY <1>3, <1>5, <1>6, <2>2 DEF BeforeQueue
  <2> QED
    BY <2>1, <2>3
<1>9. DeliveredFirst'
  <2> SUFFICES ASSUME NEW i \in Interfaces, NEW k \in 1 .. Len(delivered[i])
               PROVE  /\ delivered[i][k] \in Frames /\ delivered[i][k].seq <= Newest
                      /\ BeforeQueue(delivered[i][k])'
                      /\ delivered[i][k].seq < FrameOf(rx_queue[1]).seq
    BY <1>2, <1>4, <1>5 DEF DeliveredFirst
  <2>1. /\ delivered[i][k] \in Frames /\ delivered[i][k].seq <= Newest
        /\ BeforeQueue(delivered[i][k])
    BY DEF LineInv, DeliveredFirst
  <2> QED
    BY <1>2, <1>3, <1>5, <2>1 DEF BeforeQueue
<1>10. ProducerNewest' /\ DeliveryOrder'
  BY <1>2 DEF LineInv, ProducerNewest, DeliveryOrder
<1> QED
  BY <1>7, <1>8, <1>9, <1>10 DEF LineInv

(* The device is given the frame in the thread's hand, newer than all it was *)
(* given before and older than all that are queued.                          *)
LEMMA ReportStep ==
  ASSUME TypeOK, LineInv, rx_main_report
  PROVE  LineInv'
<1>1. PICK i \in Interfaces : i = worker.job.interface_id
  BY DEF TypeOK, Jobs
<1>2. PICK f \in Frames : f = FrameOf(worker.job) /\ f.interface_id = i /\ f.seq <= Newest
  BY <1>1 DEF LineInv, WorkerInOrder, Carries, rx_main_report
<1>3. /\ worker.pc = "report" /\ worker'.pc = "free"
      /\ UNCHANGED <<rx_storage, rx_queue, producer, arrived>>
  BY DEF rx_main_report, TypeOK
<1>4. UNCHANGED Newest /\ \A n \in 1 .. Len(rx_queue) : FrameOf(rx_queue[n])' = FrameOf(rx_queue[n])
  BY <1>3 DEF Newest, FrameOf
<1>5. ProducerNewest' /\ QueueInOrder' /\ WorkerInOrder'
  BY <1>3, <1>4 DEF LineInv, ProducerNewest, QueueInOrder, WorkerInOrder, Carries
<1>6. CASE UNCHANGED delivered
  <2>1. Newest' >= Newest /\ arrived' \in Nat
    BY <1>3, <1>4, MaxFramesAssumption DEF Newest, TypeOK
  <2> QED
    BY <1>3, <1>4, <1>5, <1>6, <2>1, LineKept DEF LineInv
<1>7. CASE delivered' = [delivered EXCEPT ![i] = Append(@, f)]
  <2>1. PICK len \in Nat : len = Len(delivered[i])
    BY LenProperties DEF TypeOK
  <2>2. /\ Len(delivered'[i]) = len + 1 /\ delivered'[i][len + 1] = f
        /\ \A k \in 1 .. len : delivered'[i][k] = delivered[i][k]
        /\ \A j \in Interfaces \ {i} : delivered'[j] = delivered[j]
    <3>1. delivered'[i] = Append(delivered[i], f) /\ delivered[i] \in Seq(Frames \cup {NoFrame})
      BY <1>7 DEF TypeOK
    <3>2. \A j \in Interfaces \ {i} : delivered'[j] = delivered[j]
      BY <1>7 DEF TypeOK
    <3> QED
      BY <2>1, <3>1, <3>2, AppendProperties
  <2>3. BeforeQueue(f) /\ \A k \in 1 .. len : delivered[i][k].seq < f.seq
    BY <1>1, <1>2, <1>3, <2>1 DEF LineInv, WorkerInOrder, DeliveredFirst
  <2>4. ASSUME NEW j \in Interfaces, NEW k \in 1 .. Len(delivered'[j])
        PROVE  \/ j = i /\ k = len + 1 /\ delivered'[j][k] = f
               \/ k \in 1 .. Len(delivered[j]) /\ delivered'[j][k] = delivered[j][k]
    BY <2>1, <2>2, <2>4
  <2>5. ASSUME NEW g \in Frames, BeforeQueue(g) PROVE BeforeQueue(g)'
    BY <1>3, <1>4, <2>5 DEF BeforeQueue
  <2>6. DeliveredFirst'
    <3> SUFFICES ASSUME NEW j \in Interfaces, NEW k \in 1 .. Len(delivered'[j])
                 PROVE  /\ delivered'[j][k] \in Frames /\ delivered'[j][k].seq <= Newest
                        /\ BeforeQueue(delivered[j][k])'
      BY <1>3, <1>4 DEF DeliveredFirst
    <3>1. PICK g \in Frames : g = delivered'[j][k] /\ g.seq <= Newest /\ BeforeQueue(g)
      BY <1>2, <2>3, <2>4 DEF LineInv, DeliveredFirst
    <3> QED
      BY <2>5, <3>1 DEF BeforeQueue
  <2>7. DeliveryOrder'
    <3> SUFFICES ASSUME NEW j \in Interfaces, NEW k \in 1 .. Len(delivered'[j])
                 PROVE  /\ delivered'[j][k].interface_id = j
                        /\ \A m \in 1 .. k - 1 : delivered'[j][m].seq < delivered'[j][k].seq
      BY DEF DeliveryOrder
    <3>1. CASE j = i /\ k = len + 1
      BY <1>2, <2>2, <2>3, <3>1
    <3>2. CASE ~(j = i /\ k = len + 1)
      <4>1. k \in 1 .. Len(delivered[j]) /\ delivered'[j][k] = delivered[j][k]
        BY <2>4, <3>2
      <4>2. \A m \in 1 .. k - 1 : delivered'[j][m] = delivered[j][m]
        BY <2>1, <2>2, <3>2, <4>1
      <4> QED
        BY <4>1, <4>2 DEF LineInv, DeliveryOrder
    <3> QED
      BY <3>1, <3>2
  <2> QED
    BY <1>5, <2>6, <2>7 DEF LineInv
<1> QED
  BY <1>1, <1>2, <1>6, <1>7 DEF rx_main_report, FrameOf

(* The steps that neither move a frame along the line nor write a block.     *)
LEMMA LineStep ==
  ASSUME TypeOK, BlockOwnership, LineInv, [Next]_vars
  PROVE  LineInv'
<1>1. ASSUME UNCHANGED <<rx_storage, rx_queue, delivered, producer, arrived>>,
             worker'.pc \in {"check", "report"} =>
               worker.pc \in {"check", "report"} /\ worker'.job = worker.job
      PROVE  LineInv'
  <2>1. Newest' >= Newest /\ arrived' \in Nat
    BY <1>1, MaxFramesAssumption DEF Newest, TypeOK
  <2>2. /\ \A n \in 1 .. Len(rx_queue) : FrameOf(rx_queue[n])' = FrameOf(rx_queue[n])
        /\ worker'.job = worker.job => FrameOf(worker.job)' = FrameOf(worker.job)
    BY <1>1 DEF FrameOf
  <2>3. QueueInOrder' /\ WorkerInOrder' /\ DeliveredFirst' /\ DeliveryOrder'
    BY <1>1, <2>1, <2>2, LineKept
  <2> QED
    BY <1>1, <2>3 DEF LineInv, ProducerNewest
<1>2. ASSUME NEW i \in Interfaces, rx_enqueue_allocate(i) PROVE LineInv'
  <2>1. /\ producer.pc = "idle" /\ arrived' = arrived + 1 /\ arrived \in Nat
        /\ UNCHANGED <<rx_storage, rx_queue, worker, delivered>>
    BY <1>2, MaxFramesAssumption DEF rx_enqueue_allocate, TypeOK
  <2>2. \/ UNCHANGED producer
        \/ producer'.pc = "copy" /\ producer'.frame.seq = arrived + 1
    BY <1>2 DEF rx_enqueue_allocate
  <2>3. Newest' >= Newest /\ arrived' \in Nat
    BY <2>1, <2>2 DEF Newest
  <2>4. /\ \A n \in 1 .. Len(rx_queue) : FrameOf(rx_queue[n])' = FrameOf(rx_queue[n])
        /\ FrameOf(worker.job)' = FrameOf(worker.job)
    BY <2>1 DEF FrameOf
  <2>5. QueueInOrder' /\ WorkerInOrder' /\ DeliveredFirst' /\ DeliveryOrder'
    BY <2>1, <2>3, <2>4, LineKept
  <2>6. ProducerNewest'
    BY <2>1, <2>2 DEF ProducerNewest
  <2> QED
    BY <2>5, <2>6 DEF LineInv
<1>3. CASE rx_main_check
  BY <1>1, <1>3 DEF rx_main_check, TypeOK
<1>4. CASE rx_main_free
  BY <1>1, <1>4 DEF rx_main_free, TypeOK
<1>5. ASSUME NEW i \in Interfaces, set_active(i) PROVE LineInv'
  BY <1>1, <1>5 DEF set_active
<1>6. CASE UNCHANGED vars
  BY <1>1, <1>6 DEF vars
<1> QED
  BY <1>2, <1>3, <1>4, <1>5, <1>6, CopyStep, SendStep, RecvStep, ReportStep
  DEF Next, rx_enqueue, rx_main

(* For every pool size, a device is given its own interface's frames, in the *)
(* order in which they arrived, none twice: copying into a block outside the *)
(* lock never reaches one whose job is queued or being reported.             *)
THEOREM DeliveryCorrect == Spec => []DeliveryOrder
<1>1. Init => LineInv
  <2> SUFFICES ASSUME Init PROVE LineInv
    OBVIOUS
  <2>1. Len(rx_queue) = 0 /\ \A i \in Interfaces : Len(delivered[i]) = 0
    BY DEF Init
  <2> QED
    BY <2>1 DEF Init, LineInv, ProducerNewest, QueueInOrder, WorkerInOrder, DeliveredFirst,
       DeliveryOrder
<1>2. TypeOK /\ BlockOwnership /\ LineInv /\ [Next]_vars => LineInv'
  BY LineStep
<1>3. LineInv => DeliveryOrder
  BY DEF LineInv
<1> QED
  BY <1>1, <1>2, <1>3, TypeCorrect, OwnershipCorrect, PTL DEF Spec

(* In the program as this tree builds it nothing reaches a device: rt_mq_recv *)
(* returns the length of the job, rx_main skips every job it receives, and    *)
(* neither a delivery nor a counted failure of one ever happens.              *)
THEOREM NothingDelivered ==
  ReturnsLength /\ Spec => [](\A i \in Interfaces : delivered[i] = <<>>)
<1> SUFFICES ASSUME ReturnsLength
             PROVE  Spec => [](\A i \in Interfaces : delivered[i] = <<>>)
  BY DEF ReturnsLength
<1> DEFINE Idle == worker.pc = "recv" /\ \A i \in Interfaces : delivered[i] = <<>>
<1>1. Init => Idle
  BY DEF Init
<1>2. Idle /\ [Next]_vars => Idle'
  <2> SUFFICES ASSUME Idle, [Next]_vars PROVE Idle'
    OBVIOUS
  <2>1. CASE rx_main_recv
    BY <2>1, RecvCases DEF ReturnsLength
  <2>2. CASE rx_main_check \/ rx_main_report \/ rx_main_free
    BY <2>2 DEF rx_main_check, rx_main_report, rx_main_free
  <2>3. CASE UNCHANGED <<worker, delivered>>
    BY <2>3
  <2> QED
    BY <2>1, <2>2, <2>3 DEF Next, vars, rx_main, rx_enqueue, rx_enqueue_allocate,
       rx_enqueue_copy, rx_enqueue_send, set_active
<1> QED
  BY <1>1, <1>2, PTL DEF Spec
=============================================================================
