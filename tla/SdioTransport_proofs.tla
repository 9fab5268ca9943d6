------------------------ MODULE SdioTransport_proofs ------------------------
(***************************************************************************)
(* Proofs about the SDIO transport for every set of frames, queue depth,   *)
(* burst length, token counter and number of starts.                       *)
(***************************************************************************)
EXTENDS SdioTransport, SdioWire_proofs, FiniteSetTheorems, SequenceTheorems, TLAPS

Starting == {"start_job", "start", "enable", "number", "run", "wake"}
Stopping == {"stop_job", "stop", "renumber", "drain", "stopped"}
Idle == {"wait", "lock"}
Holding == {"got", "token", "write", "done"}

Pcs == Idle \cup {"rx", "tx"} \cup Holding
Bursts == 0 .. (RxBurst + TxBurst)
Attempts == 0 .. TokenAttempts
Workers == [pc : Pcs, burst : Bursts, attempt : Attempts, wrote : BOOLEAN, job : TxJobs]

(* TypeOK without the fact that a frame completes at most once.              *)
Shape ==
  /\ function \in BOOLEAN /\ running \in BOOLEAN /\ irq_attached \in BOOLEAN
  /\ probed \in 0 .. 1 /\ wake \in 0 .. MaxWake
  /\ lock \in {"none", "worker"}
  /\ tx_queue \in Seq(TxJobs) /\ Len(tx_queue) <= QueueDepth
  /\ generation \in Generations
  /\ invalid_streak \in 0 .. InvalidLimit - 1
  /\ tx_buffer_count \in 0 .. TokenModulus - 1
  /\ worker \in Workers
  /\ lifecycle \in {"idle"} \cup Starting \cup Stopping
  /\ core \in {"down", "starting", "up", "stopping", "failed"}
  /\ submitter \in {"idle", "wake"}
  /\ recovery \in {"none", "reset", "ready", "fatal"}
  /\ packets \in 0 .. MaxPackets /\ offered \in 0 .. TokenModulus - 1
  /\ used \in Nat
  /\ accepted \in [Jobs -> 0 .. MaxStarts] /\ done \in [Jobs -> Nat]
  /\ session \in 0 .. MaxStarts /\ lost \subseteq Jobs /\ unreset \in BOOLEAN

(* What Core believes and where the lifecycle thread is agree, unless a job  *)
(* was dropped and Core waits for ever; the bounds on the starts leave room  *)
(* for the steps still due; and the queue is empty outside a session, unless *)
(* transport_stop left its loop early.                                       *)
LifecycleInv ==
  /\ lifecycle \in Starting => core = "starting"
  /\ lifecycle \in Stopping => core = "stopping"
  /\ core = "down" \/ lifecycle \in {"start_job", "start", "enable", "number", "drain",
                                     "stopped"} => generation + 1 <= 2 * MaxStarts
  /\ lifecycle \in {"stop_job", "stop", "renumber"} => generation + 2 <= 2 * MaxStarts
  /\ lifecycle \in Starting \ {"wake"} => session + 1 <= MaxStarts
  /\ lifecycle = "wake" \/ core = "up" => session > 0
  /\ running => \/ lifecycle \in {"wake", "stop_job", "stop"} \/ core = "up"
                \/ lifecycle = "idle" /\ core = "stopping"
  /\ submitter = "wake" => core = "up"
  /\ lost = {} /\ core \in {"down", "starting", "failed"} => tx_queue = <<>>
  /\ lifecycle = "stopped" => lost # {}
  /\ ~function => probed = 0

(* The worker holds the lock through its pass, and each burst is bounded.    *)
WorkerInv ==
  /\ lock = "worker" <=> worker.pc \notin Idle
  /\ worker.pc = "rx" => worker.burst < RxBurst
  /\ worker.pc \in Idle \cup {"tx"} => worker.burst <= TxBurst
  /\ worker.pc \in Holding => worker.burst < TxBurst

BaseInv == Shape /\ LifecycleInv /\ WorkerInv

(* Every wake-up owed to the queue is pending, being given, or taken by a    *)
(* pass of the worker that has not sent anything yet, until a frame is lost. *)
Credit ==
  wake + (IF submitter = "wake" THEN 1 ELSE 0)
       + (IF worker.pc \in {"lock", "rx"} \/ (worker.pc = "tx" /\ worker.burst = 0)
          THEN 1 ELSE 0)

WakeInv == lost = {} /\ running => Len(tx_queue) <= Credit

(* Each frame is in one place: not accepted yet, in the queue once, in the   *)
(* worker's hands, completed once, or lost.                                  *)
Ids(q) == {q[n].id : n \in 1 .. Len(q)}
Distinct(q) == \A m, n \in 1 .. Len(q) : q[m].id = q[n].id => m = n
InHand == {j \in Jobs : WorkerHolds(j)}

TxInv ==
  /\ Distinct(tx_queue) /\ InHand \cap Ids(tx_queue) = {}
  /\ \A j \in Jobs :
       /\ accepted[j] # 0 <=> (j \in Held \cup lost \/ done[j] = 1)
       /\ j \in Held \cup lost => done[j] = 0
       /\ ~(j \in Held /\ j \in lost)
       /\ done[j] <= 1

(* After a soft reset, a session begins with the worker out of its burst and *)
(* both token counters afresh.                                               *)
BeforeSession ==
  \/ core = "down" /\ recovery \in {"none", "ready"}
  \/ lifecycle \in Starting \ {"wake"}

Available == available_tokens(tx_buffer_count, offered)

FreshInv ==
  /\ BeforeSession /\ ~unreset =>
       /\ worker.pc \notin Holding
       /\ tx_buffer_count = 0 /\ offered = Buffers /\ used = 0
  /\ core = "stopping" => recovery = "reset"

(* The tokens still to be taken, the buffers filled and the frame about to   *)
(* be written share the coprocessor's buffers.                               *)
TokenInv ==
  ~unreset => Available + used + (IF worker.pc = "write" THEN 1 ELSE 0) <= Buffers

(* A job that carries the current generation was accepted in this session:   *)
(* a start that has taken a new number has not let anything in yet.          *)
Current(job) ==
  /\ job.generation <= generation
  /\ job.generation = generation => accepted[job.id] = session /\ lifecycle # "run"

TagInv ==
  /\ \A n \in 1 .. Len(tx_queue) : Current(tx_queue[n])
  /\ worker.pc \in Holding => Current(worker.job)
  /\ ~unreset /\ worker.pc \in {"token", "write"} => accepted[worker.job.id] = session

-----------------------------------------------------------------------------
(* Types, lifecycle and lock.                                               *)

LEMMA Limits ==
  /\ QueueDepth \in Nat \ {0} /\ RxBurst \in Nat \ {0} /\ TxBurst \in Nat \ {0}
  /\ TokenAttempts \in Nat \ {0} /\ InvalidLimit \in Nat \ {0}
  /\ MaxPackets \in Nat \ {0} /\ MaxStarts \in Nat \ {0}
  /\ Buffers \in Nat \ {0} /\ TokenModulus \in Nat /\ Buffers < TokenModulus
  /\ MaxWake \in Nat /\ QueueDepth <= MaxWake
  BY SdioAssumption

(* The head of a non-empty queue is a job, and the rest a shorter queue.     *)
LEMMA QueueTail ==
  ASSUME Shape, tx_queue # <<>>
  PROVE  /\ Head(tx_queue) \in TxJobs /\ Tail(tx_queue) \in Seq(TxJobs)
         /\ Len(Tail(tx_queue)) = Len(tx_queue) - 1
         /\ Head(tx_queue) = tx_queue[1] /\ Len(tx_queue) \in Nat \ {0}
         /\ \A n \in 1 .. Len(tx_queue) - 1 : Tail(tx_queue)[n] = tx_queue[n + 1]
  BY HeadTailProperties, EmptySeq DEF Shape

(* A cumulative counter moves to the next value, or wraps.                   *)
LEMMA ModStep ==
  ASSUME NEW m \in Nat \ {0}, NEW x \in 0 .. m - 1
  PROVE  (x + 1) % m = IF x + 1 = m THEN 0 ELSE x + 1
  OBVIOUS

(* The worker's pieces, and the arithmetic on its two counters.              *)
LEMMA WorkerParts ==
  ASSUME Shape
  PROVE  /\ worker.pc \in Pcs /\ worker.burst \in Nat /\ worker.attempt \in Nat
         /\ worker.wrote \in BOOLEAN
         /\ worker.job.id \in Jobs /\ worker.job.generation \in Generations
         /\ 0 \in Bursts /\ 0 \in Attempts
         /\ worker.burst < RxBurst \/ worker.burst < TxBurst => worker.burst + 1 \in Bursts
         /\ worker.attempt < TokenAttempts => worker.attempt + 1 \in Attempts
  BY Limits DEF Shape, Workers, Bursts, Attempts, TxJobs

(* drain_tx and transport_stop take up the frame they receive, or lose it.   *)
LEMMA TxRecvCases ==
  ASSUME drain_tx_recv
  PROVE  /\ worker.pc = "tx" /\ worker.burst < TxBurst /\ running
         /\ tx_queue # <<>> /\ tx_queue' = Tail(tx_queue)
         /\ UNCHANGED <<function, probed, wake, lock, fields, lifecycle, submitter, core,
                        recovery, device, accepted, done, session, unreset>>
         /\ \/ /\ worker' = [worker EXCEPT !.pc = "got", !.job = Head(tx_queue)]
               /\ lost' = lost
            \/ /\ worker' = [worker EXCEPT !.burst = TxBurst]
               /\ lost' = lost \cup {Head(tx_queue).id}
               /\ \E result \in RecvResults : result # RT_EOK
  BY DEF drain_tx_recv

LEMMA DrainCases ==
  ASSUME transport_stop_drain
  PROVE  /\ lifecycle = "drain" /\ tx_queue # <<>> /\ tx_queue' = Tail(tx_queue)
         /\ UNCHANGED <<function, probed, wake, lock, fields, worker, submitter, core,
                        recovery, device, accepted, session, unreset>>
         /\ \/ Complete(Head(tx_queue).id) /\ lifecycle' = lifecycle /\ lost' = lost
            \/ /\ lost' = lost \cup {Head(tx_queue).id} /\ lifecycle' = "stopped"
               /\ done' = done /\ \E result \in RecvResults : result # RT_EOK
  BY DEF transport_stop_drain

(* Either way the queue gets shorter by its first job.                       *)
LEMMA RecvQueue ==
  ASSUME Shape, drain_tx_recv \/ transport_stop_drain
  PROVE  /\ Head(tx_queue) \in TxJobs /\ Head(tx_queue).id \in Jobs
         /\ tx_queue' \in Seq(TxJobs) /\ Len(tx_queue') = Len(tx_queue) - 1
         /\ Len(tx_queue') <= QueueDepth
         /\ lost' \subseteq Jobs /\ lost \subseteq lost'
<1>1. tx_queue # <<>> /\ tx_queue' = Tail(tx_queue)
  BY TxRecvCases, DrainCases, Zenon
<1>2. lost' = lost \/ lost' = lost \cup {Head(tx_queue).id}
  BY TxRecvCases, DrainCases, Zenon
<1>3. Head(tx_queue) \in TxJobs /\ Head(tx_queue).id \in Jobs
  BY <1>1, QueueTail DEF TxJobs
<1>4. Len(tx_queue) <= QueueDepth /\ lost \subseteq Jobs /\ Len(tx_queue) \in Nat
  BY DEF Shape
<1> QED
  BY <1>1, <1>2, <1>3, <1>4, QueueTail, Limits

LEMMA BaseInit == Init => BaseInv
<1> SUFFICES ASSUME Init PROVE BaseInv
  OBVIOUS
<1>1. worker \in Workers
  <2>1. 0 \in Generations /\ 0 \in Bursts /\ 0 \in Attempts
    BY Limits DEF Generations, Bursts, Attempts
  <2>2. (CHOOSE j \in Jobs : TRUE) \in Jobs
    BY SdioAssumption
  <2> QED
    BY <2>1, <2>2 DEF Init, Workers, Pcs, Idle, TxJobs
<1>2. tx_queue \in Seq(TxJobs) /\ Len(tx_queue) = 0
  BY EmptySeq DEF Init
<1>3. Shape
  <2>1. accepted \in [Jobs -> 0 .. MaxStarts] /\ done \in [Jobs -> Nat]
    BY Limits DEF Init
  <2>2. /\ function \in BOOLEAN /\ running \in BOOLEAN /\ irq_attached \in BOOLEAN
        /\ lock \in {"none", "worker"} /\ lifecycle \in {"idle"} \cup Starting \cup Stopping
        /\ core \in {"down", "starting", "up", "stopping", "failed"}
        /\ submitter \in {"idle", "wake"} /\ recovery \in {"none", "reset", "ready", "fatal"}
    BY DEF Init
  <2>3. /\ probed \in 0 .. 1 /\ wake \in 0 .. MaxWake /\ generation \in Generations
        /\ invalid_streak \in 0 .. InvalidLimit - 1 /\ packets \in 0 .. MaxPackets
        /\ tx_buffer_count \in 0 .. TokenModulus - 1 /\ offered \in 0 .. TokenModulus - 1
        /\ used \in Nat /\ session \in 0 .. MaxStarts
    BY Limits DEF Init, Generations
  <2>4. Len(tx_queue) <= QueueDepth
    BY <1>2, Limits
  <2>5. lost \subseteq Jobs /\ unreset \in BOOLEAN
    BY DEF Init
  <2> QED
    BY <1>1, <1>2, <2>1, <2>2, <2>3, <2>4, <2>5 DEF Shape
<1>4. LifecycleInv /\ WorkerInv
  BY Limits DEF Init, LifecycleInv, WorkerInv, Starting, Stopping, Idle, Holding
<1> QED
  BY <1>3, <1>4 DEF BaseInv

LEMMA WorkerType ==
  ASSUME BaseInv, worker_main
  PROVE  worker' \in Workers
<1> USE WorkerParts DEF BaseInv, WorkerInv, Pcs, Idle, Holding
<1> SUFFICES ASSUME worker \in Workers PROVE worker' \in Workers
  BY DEF Shape
<1> USE DEF Workers
<1>1. CASE worker_take
  BY <1>1 DEF worker_take, WorkerTo
<1>2. CASE worker_lock
  BY <1>2 DEF worker_lock
<1>3. CASE drain_rx_stopped
  BY <1>3 DEF drain_rx_stopped, RxTurn, InRx
<1>4. CASE drain_rx_empty
  BY <1>4 DEF drain_rx_empty, RxTurn, InRx
<1>5. CASE drain_rx_ok
  BY <1>5 DEF drain_rx_ok, RxTurn, InRx
<1>6. CASE drain_rx_invalid
  BY <1>6 DEF drain_rx_invalid, RxTurn, InRx
<1>7. CASE drain_rx_error
  BY <1>7 DEF drain_rx_error, RxTurn, InRx
<1>8. CASE drain_tx_recv
  <2>1. Head(tx_queue) \in TxJobs /\ TxBurst \in Bursts
    BY <1>8, RecvQueue, Limits DEF Bursts
  <2> QED
    BY <1>8, <2>1, TxRecvCases
<1>9. CASE drain_tx_end
  BY <1>9 DEF drain_tx_end, WorkerTo
<1>10. CASE drain_tx_check
  BY <1>10 DEF drain_tx_check
<1>11. CASE wait_for_token
  BY <1>11 DEF wait_for_token, WorkerTo
<1>12. CASE wait_for_token_fail
  BY <1>12 DEF wait_for_token_fail, WorkerTo
<1>13. ASSUME NEW ok \in BOOLEAN, write_frame(ok) PROVE worker' \in Workers
  BY <1>13 DEF write_frame
<1>14. CASE drain_tx_done
  BY <1>14 DEF drain_tx_done
<1> QED
  BY <1>1, <1>2, <1>3, <1>4, <1>5, <1>6, <1>7, <1>8, <1>9, <1>10, <1>11, <1>12, <1>13, <1>14
  DEF worker_main, drain_rx, drain_tx

LEMMA WorkerLock ==
  ASSUME BaseInv, worker_main
  PROVE  WorkerInv'
<1> USE WorkerParts, Limits DEF BaseInv, WorkerInv, Pcs, Idle, Holding
<1> SUFFICES ASSUME worker \in Workers PROVE WorkerInv'
  BY DEF Shape
<1> USE DEF Workers
<1>1. CASE worker_take
  BY <1>1 DEF worker_take, WorkerTo
<1>2. CASE worker_lock
  BY <1>2 DEF worker_lock
<1>3. CASE drain_rx_stopped
  BY <1>3 DEF drain_rx_stopped, RxTurn, InRx
<1>4. CASE drain_rx_empty
  BY <1>4 DEF drain_rx_empty, RxTurn, InRx
<1>5. CASE drain_rx_ok
  BY <1>5 DEF drain_rx_ok, RxTurn, InRx
<1>6. CASE drain_rx_invalid
  <2>1. InRx /\ (RxTurn(0, RxBurst) \/ RxTurn(invalid_streak + 1, worker.burst + 1))
    BY <1>6, Zenon DEF drain_rx_invalid
  <2>2. CASE RxTurn(0, RxBurst)
    BY <2>1, <2>2 DEF RxTurn, InRx
  <2>3. CASE RxTurn(invalid_streak + 1, worker.burst + 1)
    BY <2>1, <2>3 DEF RxTurn, InRx
  <2> QED
    BY <2>1, <2>2, <2>3
<1>7. CASE drain_rx_error
  BY <1>7 DEF drain_rx_error, RxTurn, InRx
<1>8. CASE drain_tx_recv
  <2>1. /\ worker.pc = "tx" /\ worker.burst < TxBurst /\ lock' = lock
        /\ \/ worker' = [worker EXCEPT !.pc = "got", !.job = Head(tx_queue)]
           \/ worker' = [worker EXCEPT !.burst = TxBurst]
    BY <1>8, TxRecvCases, Zenon
  <2>2. CASE worker' = [worker EXCEPT !.pc = "got", !.job = Head(tx_queue)]
    BY <2>1, <2>2
  <2>3. CASE worker' = [worker EXCEPT !.burst = TxBurst]
    BY <2>1, <2>3
  <2> QED
    BY <2>1, <2>2, <2>3
<1>9. CASE drain_tx_end
  BY <1>9 DEF drain_tx_end, WorkerTo
<1>10. CASE drain_tx_check
  BY <1>10 DEF drain_tx_check
<1>11. CASE wait_for_token
  BY <1>11 DEF wait_for_token, WorkerTo
<1>12. CASE wait_for_token_fail
  BY <1>12 DEF wait_for_token_fail, WorkerTo
<1>13. ASSUME NEW ok \in BOOLEAN, write_frame(ok) PROVE WorkerInv'
  BY <1>13 DEF write_frame
<1>14. CASE drain_tx_done
  BY <1>14 DEF drain_tx_done
<1> QED
  BY <1>1, <1>2, <1>3, <1>4, <1>5, <1>6, <1>7, <1>8, <1>9, <1>10, <1>11, <1>12, <1>13, <1>14
  DEF worker_main, drain_rx, drain_tx

LEMMA RxTurnShape ==
  ASSUME BaseInv, NEW streak \in 0 .. InvalidLimit - 1, NEW burst, RxTurn(streak, burst),
         worker' \in Workers, packets' \in 0 .. MaxPackets
  PROVE  Shape' /\ LifecycleInv'
  BY DEF BaseInv, Shape, LifecycleInv, fields, device, ghosts, RxTurn

(* A step of the burst leaves the lifecycle and the queue alone.             *)
LEMMA TxTurnShape ==
  ASSUME BaseInv, worker' \in Workers,
         tx_buffer_count' \in 0 .. TokenModulus - 1, used' \in Nat, done' \in [Jobs -> Nat],
         UNCHANGED <<function, probed, wake, lock, tx_queue, running, generation,
                     irq_attached, invalid_streak, lifecycle, submitter, core, recovery,
                     packets, offered, accepted, session, lost, unreset>>
  PROVE  Shape' /\ LifecycleInv'
  BY DEF BaseInv, Shape, LifecycleInv

LEMMA WriteCounts ==
  ASSUME used \in Nat, NEW ok \in BOOLEAN, write_frame(ok)
  PROVE  used' \in Nat
  BY DEF write_frame

LEMMA BaseWorker ==
  ASSUME BaseInv, worker_main
  PROVE  BaseInv'
<1> SUFFICES ASSUME worker' \in Workers, WorkerInv' PROVE Shape' /\ LifecycleInv'
  BY WorkerType, WorkerLock DEF BaseInv
<1> USE Limits DEF BaseInv, Shape, LifecycleInv, fields, device, ghosts
<1>20. 0 \in 0 .. InvalidLimit - 1 /\ packets \in 0 .. MaxPackets
  OBVIOUS
<1>1. CASE worker_take
  BY <1>1 DEF worker_take
<1>2. CASE worker_lock
  <2>1. lock' \in {"none", "worker"}
    BY <1>2 DEF worker_lock
  <2>2. UNCHANGED <<function, probed, wake, tx_queue, fields, lifecycle, submitter, core,
                    recovery, device, ghosts>>
    BY <1>2, Zenon DEF worker_lock
  <2> QED
    BY <2>1, <2>2
<1>3. CASE drain_rx_stopped
  BY <1>3, <1>20, RxTurnShape DEF drain_rx_stopped
<1>4. CASE drain_rx_empty
  BY <1>4, <1>20, RxTurnShape DEF drain_rx_empty
<1>5. CASE drain_rx_ok
  <2>1. packets' \in 0 .. MaxPackets
    BY <1>5 DEF drain_rx_ok
  <2> QED
    BY <1>5, <1>20, <2>1, RxTurnShape DEF drain_rx_ok
<1>6. CASE drain_rx_invalid
  <2>1. ~(invalid_streak + 1 >= InvalidLimit) =>
          invalid_streak + 1 \in 0 .. InvalidLimit - 1
    OBVIOUS
  <2>2. PICK streak \in 0 .. InvalidLimit - 1 : \E burst : RxTurn(streak, burst)
    BY <1>6, <1>20, <2>1, Zenon DEF drain_rx_invalid
  <2>3. packets' \in 0 .. MaxPackets
    BY <1>6, <1>20 DEF drain_rx_invalid
  <2> QED
    BY <2>2, <2>3, RxTurnShape, Zenon
<1>7. CASE drain_rx_error
  BY <1>7, <1>20, RxTurnShape DEF drain_rx_error
<1>8. CASE drain_tx_recv
  <2>1. /\ tx_queue' \in Seq(TxJobs) /\ Len(tx_queue') <= QueueDepth
        /\ lost' \subseteq Jobs /\ lost \subseteq lost'
    BY <1>8, RecvQueue, Zenon
  <2>2. UNCHANGED <<function, probed, wake, lock, fields, lifecycle, submitter, core,
                    recovery, device, accepted, done, session, unreset>> /\ tx_queue # <<>>
    BY <1>8, TxRecvCases, Zenon
  <2>3. (lost' = {} => lost = {}) /\ (lifecycle = "stopped" => lost' # {})
    BY <2>1
  <2>4. Shape'
    BY <2>1, <2>2
  <2>5. LifecycleInv'
    <3>1. tx_queue # <<>> => ~(lost = {} /\ core \in {"down", "starting", "failed"})
      OBVIOUS
    <3> QED
      BY <2>2, <2>3, <3>1
  <2> QED
    BY <2>4, <2>5
<1>9. CASE drain_tx_end
  BY <1>9 DEF drain_tx_end
<1>10. CASE drain_tx_check
  BY <1>10, TxTurnShape DEF drain_tx_check
<1>11. CASE wait_for_token
  <2>1. (tx_buffer_count + 1) % TokenModulus \in 0 .. TokenModulus - 1
    BY ModStep
  <2>2. tx_buffer_count' \in 0 .. TokenModulus - 1
    BY <1>11, <2>1 DEF wait_for_token
  <2> QED
    BY <1>11, <2>2, TxTurnShape DEF wait_for_token
<1>12. CASE wait_for_token_fail
  BY <1>12 DEF wait_for_token_fail
<1>13. ASSUME NEW ok \in BOOLEAN, write_frame(ok) PROVE Shape' /\ LifecycleInv'
  <2>1. used' \in Nat
    BY <1>13, WriteCounts
  <2> QED
    BY <1>13, <2>1, TxTurnShape DEF write_frame
<1>14. CASE drain_tx_done
  <2>1. worker.job.id \in Jobs /\ done' = [done EXCEPT ![worker.job.id] = @ + 1]
    BY <1>14, WorkerParts DEF drain_tx_done, Complete
  <2>2. done' \in [Jobs -> Nat]
    BY <2>1
  <2> QED
    BY <1>14, <2>2, TxTurnShape DEF drain_tx_done
<1> QED
  BY <1>1, <1>2, <1>3, <1>4, <1>5, <1>6, <1>7, <1>8, <1>9, <1>10, <1>11, <1>12, <1>13, <1>14
  DEF worker_main, drain_rx, drain_tx

LEMMA BaseLifecycle ==
  ASSUME BaseInv, lifecycle_main
  PROVE  BaseInv'
<1> USE Limits DEF BaseInv, Shape, LifecycleInv, WorkerInv, Starting, Stopping, Idle,
        Holding, threads, fields, device, ghosts
<1>1. CASE transport_start_ready
  BY <1>1 DEF transport_start_ready
<1>2. CASE transport_start_fail
  <2>1. irq_attached' \in BOOLEAN
    BY <1>2 DEF transport_start_fail
  <2>2. LifecycleInv'
    BY <1>2 DEF transport_start_fail
  <2>3. Shape' /\ WorkerInv'
    BY <1>2, <2>1 DEF transport_start_fail
  <2> QED
    BY <2>2, <2>3
<1>3. CASE transport_start_zero
  BY <1>3 DEF transport_start_zero
<1>4. CASE transport_start_number
  BY <1>4 DEF transport_start_number, Generations
<1>5. CASE transport_start_run
  BY <1>5 DEF transport_start_run
<1>6. CASE transport_start_wake
  BY <1>6 DEF transport_start_wake, release_wake
<1>7. CASE transport_stop
  <2>1. LifecycleInv'
    BY <1>7 DEF transport_stop
  <2>2. Shape' /\ WorkerInv'
    BY <1>7 DEF transport_stop
  <2> QED
    BY <2>1, <2>2
<1>8. CASE transport_stop_renumber
  BY <1>8 DEF transport_stop_renumber, Generations
<1>9. CASE transport_stop_drain
  <2>1. /\ Head(tx_queue).id \in Jobs /\ lost' \subseteq Jobs
        /\ tx_queue' \in Seq(TxJobs) /\ Len(tx_queue') <= QueueDepth
    BY <1>9, RecvQueue, Zenon
  <2>2. done' \in [Jobs -> Nat]
    <3>1. done' = done \/ done' = [done EXCEPT ![Head(tx_queue).id] = @ + 1]
      BY <1>9, DrainCases, Zenon DEF Complete
    <3>2. CASE done' = done
      BY <3>2
    <3>3. CASE done' = [done EXCEPT ![Head(tx_queue).id] = @ + 1]
      BY <2>1, <3>3
    <3> QED
      BY <3>1, <3>2, <3>3
  <2>4. /\ lifecycle = "drain" /\ lifecycle' \in {"drain", "stopped"}
        /\ (lifecycle' = "stopped" => lost' # {})
        /\ UNCHANGED <<function, probed, wake, lock, fields, worker, submitter, core,
                       recovery, device, accepted, session, unreset>>
    BY <1>9, DrainCases, Zenon
  <2>5. Shape' /\ WorkerInv'
    BY <2>1, <2>2, <2>4
  <2>6. LifecycleInv'
    BY <2>4
  <2> QED
    BY <2>5, <2>6
<1>10. CASE transport_stop_complete
  BY <1>10 DEF transport_stop_complete
<1>11. CASE lifecycle_main_recv
  <2>1. /\ lifecycle \in {"start_job", "stop_job"}
        /\ lifecycle' = "idle" \/ lifecycle' = IF lifecycle = "start_job" THEN "start" ELSE "stop"
        /\ UNCHANGED <<function, probed, wake, lock, tx_queue, fields, worker, submitter,
                       core, recovery, device, ghosts>>
    BY <1>11, Zenon DEF lifecycle_main_recv
  <2>2. LifecycleInv'
    BY <2>1
  <2>3. Shape' /\ WorkerInv'
    BY <2>1
  <2> QED
    BY <2>2, <2>3
<1> QED
  BY <1>1, <1>2, <1>3, <1>4, <1>5, <1>6, <1>7, <1>8, <1>9, <1>10, <1>11 DEF lifecycle_main

(* Host Core, the recovery thread, the card and the coprocessor.             *)
Environment ==
  \/ core_transport_start \/ core_transport_stop \/ submit_tx \/ soft_reset
  \/ probe \/ sdio_irq \/ coprocessor_send \/ coprocessor_free

LEMMA BaseEnvironment ==
  ASSUME BaseInv, Environment
  PROVE  BaseInv'
<1> USE Limits DEF BaseInv, Shape, LifecycleInv, WorkerInv, Starting, Stopping, Idle,
        Holding, threads, fields, device, ghosts
<1>1. CASE core_transport_start
  BY <1>1 DEF core_transport_start
<1>2. CASE core_transport_stop
  BY <1>2 DEF core_transport_stop, Generations
<1>3. ASSUME NEW j \in Jobs, transport_submit_tx(j) PROVE BaseInv'
  <2> DEFINE job == [id |-> j, generation |-> generation]
  <2>1. job \in TxJobs
    BY DEF TxJobs
  <2>2. Append(tx_queue, job) \in Seq(TxJobs) /\ Len(Append(tx_queue, job)) = Len(tx_queue) + 1
    BY <2>1, AppendProperties
  <2> QED
    BY <1>3, <2>2 DEF transport_submit_tx
<1>4. CASE transport_submit_tx_wake
  BY <1>4 DEF transport_submit_tx_wake, release_wake
<1>5. CASE transport_soft_reset
  <2>1. /\ core = "down" /\ recovery' \in {"ready", "fatal"}
        /\ UNCHANGED <<function, probed, wake, lock, tx_queue, running, generation,
                       irq_attached, invalid_streak, worker, lifecycle, submitter, core,
                       accepted, done, session, lost>>
    BY <1>5, Zenon DEF transport_soft_reset
  <2>2. \/ UNCHANGED <<tx_buffer_count, packets, offered, used, unreset>>
        \/ tx_buffer_count' = 0 /\ packets' = 0 /\ offered' = Buffers /\ used' = 0 /\ unreset' = FALSE
    BY <1>5, Zenon DEF transport_soft_reset
  <2>3. /\ tx_buffer_count' \in 0 .. TokenModulus - 1 /\ packets' \in 0 .. MaxPackets
        /\ offered' \in 0 .. TokenModulus - 1 /\ used' \in Nat
    BY <2>2
  <2>4. unreset' \in BOOLEAN
    BY <2>2
  <2>5. Shape'
    BY <2>1, <2>3, <2>4
  <2>6. LifecycleInv' /\ WorkerInv'
    BY <2>1
  <2> QED
    BY <2>5, <2>6
<1>6. CASE transport_soft_reset_fail
  BY <1>6 DEF transport_soft_reset_fail
<1>7. CASE probe
  BY <1>7 DEF probe
<1>8. CASE sdio_irq
  BY <1>8 DEF sdio_irq, release_wake
<1>9. CASE coprocessor_send
  BY <1>9 DEF coprocessor_send
<1>10. CASE coprocessor_free
  BY <1>10, ModStep DEF coprocessor_free
<1> QED
  BY <1>1, <1>2, <1>3, <1>4, <1>5, <1>6, <1>7, <1>8, <1>9, <1>10
  DEF Environment, submit_tx, soft_reset

(* Every step of the transport keeps types, lifecycle and lock in order.     *)
LEMMA BaseCorrect == Spec => []BaseInv
<1>1. BaseInv /\ [Next]_vars => BaseInv'
  <2> SUFFICES ASSUME BaseInv, [Next]_vars PROVE BaseInv'
    OBVIOUS
  <2>1. CASE worker_main
    BY <2>1, BaseWorker
  <2>2. CASE lifecycle_main
    BY <2>2, BaseLifecycle
  <2>3. CASE Environment
    BY <2>3, BaseEnvironment
  <2>4. CASE UNCHANGED vars
    BY <2>4 DEF vars, threads, fields, device, ghosts, BaseInv, Shape, LifecycleInv,
       WorkerInv
  <2> QED
    BY <2>1, <2>2, <2>3, <2>4 DEF Next, Environment
<1> QED
  BY <1>1, BaseInit, PTL DEF Spec

-----------------------------------------------------------------------------
(* No lost wake-up.                                                         *)

(* Giving a wake-up either adds one or finds as many as the queue is long.   *)
LEMMA ReleaseCovers ==
  ASSUME Shape, release_wake
  PROVE  /\ wake' \in Nat
         /\ wake' = wake + 1 \/ (wake' = wake /\ Len(tx_queue) <= wake)
  BY Limits DEF Shape, release_wake

LEMMA WakeWorker ==
  ASSUME BaseInv, WakeInv, worker_main
  PROVE  WakeInv'
<1> SUFFICES ASSUME running', lost' = {} PROVE Len(tx_queue)' <= Credit'
  BY DEF WakeInv
<1>1. /\ worker \in Workers /\ wake \in Nat /\ Len(tx_queue) \in Nat
      /\ worker.pc = "rx" => worker.burst < RxBurst
  BY DEF BaseInv, Shape, WorkerInv
<1> USE <1>1, WorkerParts, Limits DEF BaseInv, WakeInv, Credit, Pcs, Idle, Holding, Workers, ghosts
<1>2. CASE worker_take
  BY <1>2 DEF worker_take, WorkerTo, fields, ghosts
<1>3. CASE worker_lock
  BY <1>3 DEF worker_lock, fields, ghosts
<1>4. CASE drain_rx
  <2>1. PICK streak, burst : RxTurn(streak, burst) /\ InRx
    BY <1>4, Zenon DEF drain_rx, drain_rx_stopped, drain_rx_empty, drain_rx_ok,
       drain_rx_invalid, drain_rx_error
  <2>2. CASE burst = RxBurst
    BY <2>1, <2>2 DEF RxTurn, InRx
  <2>3. CASE burst # RxBurst
    BY <2>1, <2>3 DEF RxTurn, InRx
  <2> QED
    BY <2>2, <2>3
<1>5. CASE drain_tx_recv
  <2>1. /\ worker.pc = "tx" /\ wake' = wake /\ submitter' = submitter /\ running' = running
        /\ Len(tx_queue') = Len(tx_queue) - 1 /\ lost = {}
    BY <1>5, TxRecvCases, QueueTail DEF fields
  <2> QED
    BY <2>1
<1>6. CASE drain_tx_end
  BY <1>6 DEF drain_tx_end, WorkerTo, fields, ghosts
<1>7. CASE drain_tx_check
  BY <1>7 DEF drain_tx_check, fields, ghosts
<1>8. CASE wait_for_token
  BY <1>8 DEF wait_for_token, WorkerTo
<1>9. CASE wait_for_token_fail
  BY <1>9 DEF wait_for_token_fail, WorkerTo, fields, ghosts
<1>10. ASSUME NEW ok \in BOOLEAN, write_frame(ok) PROVE Len(tx_queue)' <= Credit'
  BY <1>10 DEF write_frame, fields, ghosts
<1>11. CASE drain_tx_done
  BY <1>11 DEF drain_tx_done, fields, ghosts
<1> QED
  BY <1>2, <1>3, <1>4, <1>5, <1>6, <1>7, <1>8, <1>9, <1>10, <1>11
  DEF worker_main, drain_tx

LEMMA WakeLifecycle ==
  ASSUME BaseInv, WakeInv, lifecycle_main
  PROVE  WakeInv'
<1> SUFFICES ASSUME running', lost' = {} PROVE Len(tx_queue)' <= Credit'
  BY DEF WakeInv
<1>1. wake \in Nat /\ Len(tx_queue) \in Nat
  BY DEF BaseInv, Shape
<1> USE <1>1, Limits DEF BaseInv, WakeInv, Credit, threads, fields, ghosts
<1>2. CASE \/ transport_start_ready \/ transport_start_fail \/ transport_start_zero
           \/ transport_start_number \/ transport_stop_renumber
           \/ transport_stop_complete \/ lifecycle_main_recv
  BY <1>2 DEF transport_start_ready, transport_start_fail, transport_start_zero,
     transport_start_number, transport_stop_renumber, transport_stop_complete,
     lifecycle_main_recv
<1>3. CASE transport_start_run
  <2>1. tx_queue' = <<>> /\ wake' = wake
    BY <1>3 DEF transport_start_run, LifecycleInv, Starting
  <2> QED
    BY <2>1
<1>4. CASE transport_start_wake
  BY <1>4, ReleaseCovers DEF transport_start_wake
<1>5. CASE transport_stop
  BY <1>5 DEF transport_stop
<1>6. CASE transport_stop_drain
  <2>1. lost = {} /\ Len(tx_queue') = Len(tx_queue) - 1 /\ UNCHANGED <<wake, worker, submitter, running>>
    BY <1>6, DrainCases, QueueTail
  <2> QED
    BY <2>1
<1> QED
  BY <1>2, <1>3, <1>4, <1>5, <1>6 DEF lifecycle_main

LEMMA WakeEnvironment ==
  ASSUME BaseInv, WakeInv, Environment
  PROVE  WakeInv'
<1> SUFFICES ASSUME running', lost' = {} PROVE Len(tx_queue)' <= Credit'
  BY DEF WakeInv
<1>1. wake \in Nat /\ Len(tx_queue) \in Nat
  BY DEF BaseInv, Shape
<1> USE <1>1, Limits DEF BaseInv, WakeInv, Credit, threads, fields, ghosts
<1>2. CASE core_transport_start \/ core_transport_stop \/ probe
           \/ coprocessor_send \/ coprocessor_free
  BY <1>2 DEF core_transport_start, core_transport_stop, probe, coprocessor_send,
     coprocessor_free
<1>3. CASE soft_reset
  BY <1>3 DEF soft_reset, transport_soft_reset, transport_soft_reset_fail
<1>4. ASSUME NEW j \in Jobs, transport_submit_tx(j) PROVE Len(tx_queue)' <= Credit'
  <2>1. [id |-> j, generation |-> generation] \in TxJobs
    BY DEF TxJobs, Shape
  <2>2. Len(tx_queue)' = Len(tx_queue) + 1
    BY <1>4, <2>1, AppendProperties DEF transport_submit_tx, Shape
  <2> QED
    BY <1>4, <2>2 DEF transport_submit_tx
<1>5. CASE transport_submit_tx_wake
  BY <1>5, ReleaseCovers DEF transport_submit_tx_wake
<1>6. CASE sdio_irq
  BY <1>6, ReleaseCovers DEF sdio_irq
<1> QED
  BY <1>2, <1>3, <1>4, <1>5, <1>6 DEF Environment, submit_tx

(* For every queue depth and every burst: whenever the transport runs and    *)
(* the worker sleeps on a queue that is not empty, a wake-up is pending or   *)
(* about to be given, as long as no frame was lost to a result of rt_mq_recv *)
(* other than RT_EOK.                                                        *)
THEOREM WakeCorrect == Spec => []WakeCoversQueue
<1>1. Init => WakeInv
  BY DEF Init, WakeInv
<1>2. BaseInv /\ WakeInv /\ [Next]_vars => WakeInv'
  <2> SUFFICES ASSUME BaseInv, WakeInv, [Next]_vars PROVE WakeInv'
    OBVIOUS
  <2>1. CASE UNCHANGED vars
    BY <2>1 DEF vars, threads, fields, ghosts, WakeInv, Credit
  <2> QED
    BY <2>1, WakeWorker, WakeLifecycle, WakeEnvironment DEF Next, Environment
<1>3. BaseInv /\ WakeInv => WakeCoversQueue
  <2> SUFFICES ASSUME BaseInv, WakeInv, lost = {}, running, worker.pc = "wait",
                      tx_queue # <<>>
               PROVE  wake > 0 \/ submitter = "wake"
    BY DEF WakeCoversQueue
  <2>1. Len(tx_queue) \in Nat \ {0} /\ wake \in Nat
    BY QueueTail DEF BaseInv, Shape
  <2> QED
    BY <2>1 DEF WakeInv, Credit
<1> QED
  BY <1>1, <1>2, <1>3, BaseCorrect, PTL DEF Spec

-----------------------------------------------------------------------------
(* Every accepted frame is held until its one completion.                   *)

(* Taking the head off a queue removes its frame and no other.               *)
LEMMA TailIds ==
  ASSUME Shape, Distinct(tx_queue), tx_queue # <<>>
  PROVE  /\ Head(tx_queue).id \in Ids(tx_queue) /\ Head(tx_queue).id \in Jobs
         /\ Ids(Tail(tx_queue)) = Ids(tx_queue) \ {Head(tx_queue).id}
         /\ Distinct(Tail(tx_queue))
<1> DEFINE q == tx_queue
           t == Tail(tx_queue)
           h == Head(tx_queue)
<1>1. /\ h = q[1] /\ Len(q) \in Nat \ {0} /\ Len(t) = Len(q) - 1
      /\ \A n \in 1 .. Len(q) - 1 : t[n] = q[n + 1]
  BY QueueTail
<1>2. h.id \in Ids(q) /\ h.id \in Jobs
  BY <1>1, QueueTail DEF Ids, TxJobs
<1>3. Distinct(t)
  BY <1>1 DEF Distinct
<1>4. ASSUME NEW x \in Ids(t) PROVE x \in Ids(q) \ {h.id}
  <2>1. PICK n \in 1 .. Len(t) : x = t[n].id
    BY <1>4 DEF Ids
  <2>2. n + 1 \in 1 .. Len(q) /\ 1 \in 1 .. Len(q) /\ x = q[n + 1].id /\ n + 1 # 1
    BY <1>1, <2>1
  <2> QED
    BY <1>1, <2>2 DEF Ids, Distinct
<1>5. ASSUME NEW x \in Ids(q) \ {h.id} PROVE x \in Ids(t)
  <2>1. PICK n \in 1 .. Len(q) : x = q[n].id /\ n # 1
    BY <1>1, <1>5 DEF Ids
  <2>2. n - 1 \in 1 .. Len(t) /\ x = t[n - 1].id
    BY <1>1, <2>1
  <2> QED
    BY <2>2 DEF Ids
<1> QED
  BY <1>2, <1>3, <1>4, <1>5

(* A frame that is not queued is added at the end.                           *)
LEMMA AppendIds ==
  ASSUME Shape, NEW job \in TxJobs, Distinct(tx_queue), job.id \notin Ids(tx_queue)
  PROVE  /\ Ids(Append(tx_queue, job)) = Ids(tx_queue) \cup {job.id}
         /\ Distinct(Append(tx_queue, job))
<1> DEFINE q == tx_queue
           r == Append(tx_queue, job)
<1>1. /\ Len(q) \in Nat /\ Len(r) = Len(q) + 1 /\ r[Len(q) + 1] = job
      /\ \A n \in 1 .. Len(q) : r[n] = q[n]
  BY AppendProperties, LenProperties DEF Shape
<1>2. \A n \in 1 .. Len(q) : q[n].id # job.id
  BY DEF Ids
<1>3. \A n \in 1 .. Len(r) : n \in 1 .. Len(q) \/ n = Len(q) + 1
  BY <1>1
<1>4. Distinct(r)
  BY <1>1, <1>2, <1>3 DEF Distinct
<1>5. ASSUME NEW x \in Ids(r) PROVE x \in Ids(q) \cup {job.id}
  BY <1>1, <1>3, <1>5 DEF Ids
<1>6. Ids(q) \subseteq Ids(r)
  BY <1>1 DEF Ids
<1>7. job.id \in Ids(r)
  <2>1. Len(q) + 1 \in 1 .. Len(r)
    BY <1>1
  <2> QED
    BY <1>1, <2>1 DEF Ids
<1> QED
  BY <1>4, <1>5, <1>6, <1>7

(* The queue bounds what is held: one more frame may be in the worker's hand. *)
LEMMA HeldBounded ==
  ASSUME Shape
  PROVE  IsFiniteSet(Held) /\ Cardinality(Held) <= Len(tx_queue) + 1
<1> DEFINE n == Len(tx_queue)
           f == [k \in 1 .. n |-> tx_queue[k].id]
<1>1. n \in Nat
  BY DEF Shape
<1>2. IsFiniteSet(1 .. n) /\ Cardinality(1 .. n) = n
  <2>1. 1 \in Int /\ n \in Int
    BY <1>1
  <2>2. /\ IsFiniteSet(1 .. n)
        /\ Cardinality(1 .. n) = IF 1 > n THEN 0 ELSE n - 1 + 1
    BY <2>1, FS_Interval, Zenon
  <2> QED
    BY <1>1, <2>2
<1>3. f \in Surjection(1 .. n, Ids(tx_queue))
  BY DEF Surjection, Ids
<1>4. IsFiniteSet(Ids(tx_queue)) /\ Cardinality(Ids(tx_queue)) <= n
  BY <1>2, <1>3, FS_Surjection
<1> DEFINE both == Ids(tx_queue) \cup {worker.job.id}
<1>6. IsFiniteSet(both) /\ Cardinality(both) <= n + 1
  <2>1. Cardinality(Ids(tx_queue)) \in Nat
    BY <1>4, FS_CardinalityType
  <2>2. /\ IsFiniteSet(both)
        /\ Cardinality(both) = IF worker.job.id \in Ids(tx_queue)
                               THEN Cardinality(Ids(tx_queue))
                               ELSE Cardinality(Ids(tx_queue)) + 1
    BY <1>4, FS_AddElement, Zenon
  <2> QED
    BY <1>1, <1>4, <2>1, <2>2
<1>7. Held \subseteq both
  BY DEF Held, Ids, WorkerHolds
<1> HIDE DEF both
<1>8. IsFiniteSet(Held) /\ Cardinality(Held) <= Cardinality(both)
  BY <1>6, <1>7, FS_Subset
<1>9. Cardinality(Held) \in Nat /\ Cardinality(both) \in Nat
  BY <1>6, <1>8, FS_CardinalityType
<1> QED
  BY <1>1, <1>6, <1>8, <1>9

LEMMA HandOf ==
  ASSUME Shape
  PROVE  InHand = IF worker.pc \in Holding THEN {worker.job.id} ELSE {}
  BY WorkerParts DEF InHand, WorkerHolds, Holding

LEMMA HeldParts == Held = Ids(tx_queue) \cup InHand
  BY DEF Held, Ids, InHand

(* One step of the transport, seen from BoundedTx: nothing, an acceptance, a *)
(* completion or a loss.                                                     *)
TxStep == [Tx!Next]_<<Held, Completed, lost>>

LEMMA Unmoved ==
  ASSUME BaseInv, TxInv, UNCHANGED <<accepted, done, lost>>, Held' = Held,
         Distinct(tx_queue'), InHand' \cap Ids(tx_queue') = {}
  PROVE  TxInv' /\ TxStep
<1>1. Completed' = Completed
  BY DEF Completed
<1>2. TxInv'
  BY DEF TxInv, Distinct, Ids
<1> QED
  BY <1>1, <1>2 DEF TxStep

LEMMA Finished ==
  ASSUME BaseInv, TxInv, NEW j \in Jobs, j \in Held, Complete(j), UNCHANGED <<accepted, lost>>,
         Held' = Held \ {j}, Distinct(tx_queue'), InHand' \cap Ids(tx_queue') = {}
  PROVE  TxInv' /\ TxStep
<1>1. done \in [Jobs -> Nat] /\ done[j] = 0
  BY DEF BaseInv, Shape, TxInv
<1>2. \A k \in Jobs : done'[k] = IF k = j THEN 1 ELSE done[k]
  BY <1>1 DEF Complete
<1>3. Completed' = Completed \cup {j}
  BY <1>1, <1>2 DEF Completed
<1>4. TxInv'
  BY <1>1, <1>2 DEF TxInv, Distinct, Ids
<1>5. Tx!Complete(j)
  BY <1>3 DEF Tx!Complete
<1> QED
  BY <1>4, <1>5 DEF TxStep, Tx!Next

LEMMA Forgotten ==
  ASSUME BaseInv, TxInv, NEW j \in Jobs, j \in Held, lost' = lost \cup {j},
         UNCHANGED <<accepted, done>>, \E result \in RecvResults : result # RT_EOK,
         Held' = Held \ {j}, Distinct(tx_queue'), InHand' \cap Ids(tx_queue') = {}
  PROVE  TxInv' /\ TxStep
<1>1. Completed' = Completed
  BY DEF Completed
<1>2. TxInv'
  BY DEF TxInv, Distinct, Ids
<1>3. Tx!Forget(j)
  BY <1>1 DEF Tx!Forget
<1> QED
  BY <1>2, <1>3 DEF TxStep, Tx!Next

(* BoundedTx counts with the Cardinality it imports itself.                  *)
LEMMA SameCardinality == \A S : Tx!Cardinality(S) = Cardinality(S)
  BY DEF Tx!Cardinality, Cardinality

LEMMA TakenIn ==
  ASSUME BaseInv, TxInv, NEW j \in Jobs, transport_submit_tx(j)
  PROVE  TxInv' /\ TxStep
<1> DEFINE job == [id |-> j, generation |-> generation]
<1>1. /\ accepted \in [Jobs -> 0 .. MaxStarts] /\ done \in [Jobs -> Nat]
      /\ session \in Nat \ {0} /\ job \in TxJobs
  BY Limits DEF BaseInv, Shape, LifecycleInv, TxJobs, transport_submit_tx
<1>2. j \notin Held /\ j \notin lost /\ done[j] = 0
  BY <1>1 DEF TxInv, transport_submit_tx
<1>3. InHand' = InHand /\ InHand \subseteq Held
  BY HeldParts DEF InHand, WorkerHolds, transport_submit_tx
<1>4. Ids(tx_queue)' = Ids(tx_queue) \cup {j} /\ Distinct(tx_queue)'
  <2>1. tx_queue' = Append(tx_queue, job) /\ tx_queue \in Seq(TxJobs)
    BY DEF BaseInv, Shape, transport_submit_tx
  <2>2. j \notin Ids(tx_queue)
    BY <1>2, HeldParts
  <2>3. Distinct(tx_queue) /\ Shape /\ job.id = j
    BY DEF TxInv, BaseInv
  <2> HIDE DEF job
  <2>4. /\ Ids(Append(tx_queue, job)) = Ids(tx_queue) \cup {job.id}
        /\ Distinct(Append(tx_queue, job))
    BY <1>1, <2>2, <2>3, AppendIds
  <2>5. Ids(tx_queue') = Ids(tx_queue) \cup {j} /\ Distinct(tx_queue')
    BY <2>1, <2>3, <2>4
  <2> QED
    BY <2>5 DEF Ids, Distinct
<1>5. Held' = Held \cup {j}
  BY <1>3, <1>4, HeldParts DEF Held, Ids, InHand
<1>6. InHand' \cap Ids(tx_queue)' = {}
  BY <1>2, <1>3, <1>4 DEF TxInv
<1>7. TxInv'
  <2>1. \A k \in Jobs : accepted'[k] = IF k = j THEN session ELSE accepted[k]
    BY <1>1 DEF transport_submit_tx
  <2>2. done' = done /\ lost' = lost
    BY DEF transport_submit_tx
  <2> QED
    BY <1>1, <1>2, <1>4, <1>5, <1>6, <2>1, <2>2 DEF TxInv
<1>8. Tx!Accept(j)
  <2>1. Cardinality(Held) < QueueDepth + 1
    <3>1. IsFiniteSet(Held) /\ Cardinality(Held) <= Len(tx_queue) + 1
      BY HeldBounded DEF BaseInv
    <3>2. Cardinality(Held) \in Nat
      BY <3>1, FS_CardinalityType
    <3>3. Len(tx_queue) \in Nat /\ Len(tx_queue) < QueueDepth
      BY DEF BaseInv, Shape, transport_submit_tx
    <3> QED
      BY <3>1, <3>2, <3>3, Limits
  <2>2. j \notin Completed /\ Completed' = Completed /\ lost' = lost
    BY <1>2 DEF Completed, transport_submit_tx
  <2> QED
    BY <1>2, <1>5, <2>1, <2>2, SameCardinality DEF Tx!Accept
<1> QED
  BY <1>7, <1>8 DEF TxStep, Tx!Next

(* A step that moves no frame.                                               *)
LEMMA Elsewhere ==
  ASSUME BaseInv, TxInv, InHand' = InHand, UNCHANGED <<tx_queue, accepted, done, lost>>
  PROVE  TxInv' /\ TxStep
<1>1. Held' = Held
  BY HeldParts DEF Held, Ids, InHand
<1> QED
  BY <1>1, Unmoved DEF TxInv, Ids, Distinct

LEMMA TxWorker ==
  ASSUME BaseInv, BaseInv', TxInv, worker_main
  PROVE  TxInv' /\ TxStep
<1>1. Shape /\ worker \in Workers
  BY DEF BaseInv, Shape
<1>2. /\ InHand = IF worker.pc \in Holding THEN {worker.job.id} ELSE {}
      /\ InHand' = IF worker'.pc \in Holding THEN {worker'.job.id} ELSE {}
  <2>1. Shape'
    BY DEF BaseInv
  <2>2. InHand' = IF worker'.pc \in Holding THEN {worker'.job.id} ELSE {}
    <3>1. worker' \in Workers
      BY <2>1 DEF Shape
    <3>2. worker'.job.id \in Jobs
      BY <3>1 DEF Workers, TxJobs
    <3> QED
      BY <3>2 DEF InHand, WorkerHolds, Holding
  <2> QED
    BY <1>1, <2>2, HandOf
<1>3. CASE worker_take \/ worker_lock \/ drain_tx_end
  <2>1. InHand' = InHand
    BY <1>1, <1>2, <1>3 DEF worker_take, worker_lock, drain_tx_end, WorkerTo, Workers, Holding
  <2> QED
    BY <1>3, <2>1, Elsewhere DEF worker_take, worker_lock, drain_tx_end, ghosts
<1>4. CASE drain_rx
  <2>1. PICK streak, burst : RxTurn(streak, burst) /\ InRx
    BY <1>4, Zenon DEF drain_rx, drain_rx_stopped, drain_rx_empty, drain_rx_ok,
       drain_rx_invalid, drain_rx_error
  <2>2. InHand' = InHand
    BY <1>1, <1>2, <2>1 DEF RxTurn, InRx, Workers, Holding
  <2> QED
    BY <2>1, <2>2, Elsewhere DEF RxTurn, ghosts
<1>5. CASE drain_tx_recv
  <2> DEFINE h == Head(tx_queue).id
  <2>1. InHand = {} /\ UNCHANGED <<accepted, done>>
    BY <1>2, <1>5, TxRecvCases DEF Holding
  <2>2. /\ h \in Ids(tx_queue) /\ h \in Jobs /\ Ids(tx_queue') = Ids(tx_queue) \ {h}
        /\ Distinct(tx_queue')
    BY <1>1, <1>5, TxRecvCases, TailIds DEF TxInv
  <2>3. Held' = Ids(tx_queue') \cup InHand'
    BY DEF Held, Ids, InHand
  <2>4. CASE worker' = [worker EXCEPT !.pc = "got", !.job = Head(tx_queue)] /\ lost' = lost
    <3>1. InHand' = {h}
      BY <1>1, <1>2, <2>4 DEF Workers, Holding
    <3>2. Held' = Held
      BY <2>1, <2>2, <2>3, <3>1, HeldParts
    <3> QED
      BY <2>1, <2>2, <2>4, <3>1, <3>2, Unmoved
  <2>5. CASE /\ worker' = [worker EXCEPT !.burst = TxBurst] /\ lost' = lost \cup {h}
             /\ \E result \in RecvResults : result # RT_EOK
    <3>1. InHand' = {}
      BY <1>1, <1>2, <1>5, <2>5, TxRecvCases DEF Workers, Holding
    <3>2. h \in Held /\ Held' = Held \ {h}
      BY <2>1, <2>2, <2>3, <3>1, HeldParts
    <3> QED
      BY <2>1, <2>2, <2>5, <3>1, <3>2, Forgotten
  <2> QED
    BY <1>5, <2>4, <2>5, TxRecvCases, Zenon
<1>6. CASE drain_tx_check \/ wait_for_token \/ wait_for_token_fail
  <2>1. InHand' = InHand
    BY <1>1, <1>2, <1>6
    DEF drain_tx_check, wait_for_token, wait_for_token_fail, WorkerTo, Workers, Holding
  <2> QED
    BY <1>6, <2>1, Elsewhere DEF drain_tx_check, wait_for_token, wait_for_token_fail, ghosts
<1>7. ASSUME NEW ok \in BOOLEAN, write_frame(ok) PROVE TxInv' /\ TxStep
  <2>1. InHand' = InHand
    BY <1>1, <1>2, <1>7 DEF write_frame, Workers, Holding
  <2> QED
    BY <1>7, <2>1, Elsewhere DEF write_frame, ghosts
<1>8. CASE drain_tx_done
  <2> DEFINE j == worker.job.id
  <2>1. InHand = {j} /\ InHand' = {} /\ j \in Jobs
    BY <1>1, <1>2, <1>8, WorkerParts DEF drain_tx_done, Workers, Holding
  <2>2. Ids(tx_queue') = Ids(tx_queue) /\ Distinct(tx_queue') /\ j \notin Ids(tx_queue)
    BY <1>8, <2>1 DEF drain_tx_done, TxInv
  <2>3. j \in Held /\ Held' = Held \ {j}
    <3>1. Held' = Ids(tx_queue') \cup InHand'
      BY DEF Held, Ids, InHand
    <3> QED
      BY <2>1, <2>2, <3>1, HeldParts
  <2> QED
    BY <1>8, <2>1, <2>2, <2>3, Finished DEF drain_tx_done
<1> QED
  BY <1>3, <1>4, <1>5, <1>6, <1>7, <1>8 DEF worker_main, drain_tx

(* Only the worker moves the worker.                                         *)
LEMMA OthersKeepWorker ==
  ASSUME lifecycle_main \/ Environment \/ UNCHANGED vars
  PROVE  worker' = worker
  BY DEF threads, lifecycle_main, Environment, submit_tx, soft_reset, vars,
     lifecycle_main_recv, transport_start_ready, transport_start_fail,
     transport_start_zero, transport_start_number,
     transport_start_run, transport_start_wake, transport_stop, transport_stop_renumber,
     transport_stop_drain, transport_stop_complete, core_transport_start,
     core_transport_stop, transport_submit_tx, transport_submit_tx_wake,
     transport_soft_reset, transport_soft_reset_fail, probe, sdio_irq, coprocessor_send,
     coprocessor_free

LEMMA TxOthers ==
  ASSUME BaseInv, TxInv, lifecycle_main \/ Environment \/ UNCHANGED vars
  PROVE  TxInv' /\ TxStep
<1> USE DEF threads, fields, ghosts
<1>1. InHand' = InHand
  <2>1. worker' = worker
    BY OthersKeepWorker
  <2> QED
    BY <2>1 DEF InHand, WorkerHolds
<1>2. CASE transport_stop_drain
  <2> DEFINE h == Head(tx_queue).id
  <2>1. /\ h \in Ids(tx_queue) /\ h \in Jobs /\ Ids(tx_queue') = Ids(tx_queue) \ {h}
        /\ Distinct(tx_queue') /\ accepted' = accepted
    BY <1>2, DrainCases, TailIds DEF TxInv, BaseInv
  <2>2. h \notin InHand
    BY <2>1 DEF TxInv
  <2>3. h \in Held /\ Held' = Held \ {h}
    <3>1. Held' = Ids(tx_queue') \cup InHand'
      BY DEF Held, Ids, InHand
    <3> QED
      BY <1>1, <2>1, <2>2, <3>1, HeldParts
  <2>4. InHand' \cap Ids(tx_queue') = {}
    BY <1>1, <2>1 DEF TxInv
  <2>5. CASE Complete(h) /\ lost' = lost
    BY <2>1, <2>3, <2>4, <2>5, Finished
  <2>6. CASE /\ lost' = lost \cup {h} /\ done' = done
             /\ \E result \in RecvResults : result # RT_EOK
    BY <2>1, <2>3, <2>4, <2>6, Forgotten
  <2> QED
    BY <1>2, <2>5, <2>6, DrainCases, Zenon
<1>3. CASE \E j \in Jobs : transport_submit_tx(j)
  BY <1>3, TakenIn
<1>4. ASSUME UNCHANGED <<tx_queue, accepted, done, lost>> PROVE TxInv' /\ TxStep
  BY <1>1, <1>4, Elsewhere
<1>5. CASE \/ transport_start_ready \/ transport_start_fail \/ transport_start_zero
           \/ transport_start_number \/ transport_start_run \/ transport_start_wake
           \/ transport_stop \/ transport_stop_renumber \/ transport_stop_complete
           \/ lifecycle_main_recv
  BY <1>4, <1>5 DEF lifecycle_main_recv, transport_start_ready, transport_start_fail,
     transport_start_zero,
     transport_start_number, transport_start_run, transport_start_wake, transport_stop,
     transport_stop_renumber, transport_stop_complete
<1>6. CASE \/ core_transport_start \/ core_transport_stop \/ transport_submit_tx_wake
           \/ soft_reset \/ probe \/ sdio_irq \/ coprocessor_send \/ coprocessor_free
           \/ UNCHANGED vars
  BY <1>4, <1>6 DEF core_transport_start, core_transport_stop, transport_submit_tx_wake,
     soft_reset, transport_soft_reset, transport_soft_reset_fail, probe, sdio_irq,
     coprocessor_send, coprocessor_free, vars
<1> QED
  BY <1>2, <1>3, <1>5, <1>6 DEF lifecycle_main, Environment, submit_tx

(* Nothing is held or completed at first.                                    *)
LEMMA TxInit == Init => TxInv /\ Tx!Init
<1> SUFFICES ASSUME Init PROVE TxInv /\ Tx!Init
  OBVIOUS
<1>1. Ids(tx_queue) = {} /\ Distinct(tx_queue) /\ InHand = {}
  BY DEF Init, Ids, Distinct, InHand, WorkerHolds
<1>2. Held = {} /\ Completed = {} /\ lost = {}
  BY <1>1, HeldParts DEF Init, Completed
<1> QED
  BY <1>1, <1>2 DEF Init, TxInv, Tx!Init

LEMMA TxInvariant == Spec => [](BaseInv /\ TxInv)
<1>1. BaseInv /\ BaseInv' /\ TxInv /\ [Next]_vars => TxInv'
  BY TxWorker, TxOthers DEF Next, Environment
<1> QED
  BY <1>1, TxInit, BaseCorrect, PTL DEF Spec

(* The transport implements BoundedTx, for every queue depth and any number  *)
(* of frames, starts, stops and resets: submit_tx accepts only with room,    *)
(* and each frame stays held, in the queue or in the worker's hands, until   *)
(* drain_tx or transport_stop completes it, once, or receives it with a      *)
(* result other than RT_EOK and forgets it.                                  *)
THEOREM TxRefinement == Spec => RetainsUntilCompletion
<1>1. BaseInv /\ BaseInv' /\ TxInv /\ [Next]_vars => TxStep
  BY TxWorker, TxOthers DEF Next, Environment
<1> QED
  BY <1>1, TxInit, TxInvariant, PTL DEF Spec, RetainsUntilCompletion, Tx!Spec, Tx!vars, TxStep

-----------------------------------------------------------------------------
(* Sessions that begin with a soft reset: tokens and tags.                  *)

LEMMA FreshStep ==
  ASSUME BaseInv, FreshInv, [Next]_vars
  PROVE  FreshInv'
<1> USE DEF BaseInv, FreshInv, BeforeSession, threads, fields, device, ghosts
<1>1. worker \in Workers /\ worker.pc \in Pcs
  BY WorkerParts DEF Shape
<1>2. BeforeSession => ~running
  BY DEF LifecycleInv, Starting, Stopping
<1>3. CASE worker_main
  <2>1. UNCHANGED <<core, lifecycle, recovery, unreset>>
    BY <1>3 DEF worker_main, worker_take, worker_lock, drain_rx, drain_rx_stopped,
       drain_rx_empty, drain_rx_ok, drain_rx_invalid, drain_rx_error, RxTurn, drain_tx,
       drain_tx_recv, drain_tx_end, drain_tx_check, wait_for_token, wait_for_token_fail,
       write_frame, drain_tx_done
  <2> SUFFICES ASSUME BeforeSession, ~unreset
               PROVE  /\ worker'.pc \notin Holding
                      /\ UNCHANGED <<tx_buffer_count, offered, used>>
    BY <2>1
  <2>2. worker.pc \notin Holding /\ ~running
    BY <1>2
  <2>3. CASE worker_take \/ worker_lock \/ drain_tx_end
    BY <1>1, <2>2, <2>3
    DEF worker_take, worker_lock, drain_tx_end, WorkerTo, Workers, Holding
  <2>4. CASE drain_rx
    <3>1. PICK streak, burst : RxTurn(streak, burst) /\ InRx
      BY <2>4, Zenon DEF drain_rx, drain_rx_stopped, drain_rx_empty, drain_rx_ok,
         drain_rx_invalid, drain_rx_error
    <3> QED
      BY <1>1, <3>1 DEF RxTurn, InRx, Workers, Holding
  <2> QED
    BY <1>3, <2>2, <2>3, <2>4
    DEF worker_main, drain_tx, drain_tx_recv, drain_tx_check, wait_for_token,
        wait_for_token_fail, write_frame, drain_tx_done, Holding
<1>4. CASE lifecycle_main
  <2> USE <1>2, <1>4 DEF LifecycleInv, Starting, Stopping
  <2>1. CASE transport_start_ready \/ transport_start_fail
    BY <2>1 DEF transport_start_ready, transport_start_fail
  <2>2. CASE transport_start_zero \/ transport_start_number \/ transport_start_run
    BY <2>2 DEF transport_start_zero, transport_start_number, transport_start_run
  <2>3. CASE transport_start_wake
    BY <2>3 DEF transport_start_wake
  <2>4. CASE transport_stop \/ transport_stop_renumber
    BY <2>4 DEF transport_stop, transport_stop_renumber
  <2>5. CASE transport_stop_drain \/ transport_stop_complete
    BY <2>5, DrainCases DEF transport_stop_complete
  <2>6. CASE lifecycle_main_recv
    BY <2>6 DEF lifecycle_main_recv
  <2> QED
    BY <2>1, <2>2, <2>3, <2>4, <2>5, <2>6 DEF lifecycle_main
<1>5. CASE Environment
  <2> USE DEF LifecycleInv, Starting, Stopping
  <2>1. CASE core_transport_start
    <3>1. /\ core = "down" /\ core' = "starting"
          /\ ~unreset' => ~unreset /\ recovery \in {"none", "ready"}
          /\ UNCHANGED <<tx_buffer_count, worker, offered, used>>
      BY <2>1 DEF core_transport_start, Shape
    <3> QED
      BY <3>1
  <2>2. CASE core_transport_stop
    BY <2>2 DEF core_transport_stop
  <2>3. CASE transport_soft_reset
    BY <1>1, <2>3 DEF transport_soft_reset, WorkerInv, Idle, Holding
  <2>4. CASE transport_soft_reset_fail
    BY <2>4 DEF transport_soft_reset_fail
  <2>5. CASE submit_tx
    BY <2>5 DEF submit_tx, transport_submit_tx, transport_submit_tx_wake
  <2>6. CASE probe \/ sdio_irq \/ coprocessor_send
    BY <2>6 DEF probe, sdio_irq, coprocessor_send
  <2>7. CASE coprocessor_free
    BY <2>7 DEF coprocessor_free
  <2> QED
    BY <1>5, <2>1, <2>2, <2>3, <2>4, <2>5, <2>6, <2>7 DEF Environment, soft_reset
<1>6. CASE UNCHANGED vars
  BY <1>6 DEF vars
<1> QED
  BY <1>3, <1>4, <1>5, <1>6 DEF Next, Environment

(* What the modular subtraction of wlh_rtt_sdio_available_tokens yields.     *)
LEMMA Tokens ==
  ASSUME NEW c \in 0 .. TokenModulus - 1, NEW o \in 0 .. TokenModulus - 1
  PROVE  available_tokens(c, o) = IF c <= o THEN o - c ELSE o + TokenModulus - c
<1>1. ASSUME NEW m \in Nat \ {0}, NEW x \in 0 .. m - 1 PROVE x % m = x /\ (x + m) % m = x
  BY <1>1
<1>2. TokenModulus \in Nat \ {0}
  BY Limits
<1>3. CASE c <= o
  <2>1. o - c \in 0 .. TokenModulus - 1 /\ o + TokenModulus - c = (o - c) + TokenModulus
    BY <1>2, <1>3
  <2> QED
    BY <1>1, <1>2, <1>3, <2>1 DEF available_tokens
<1>4. CASE ~(c <= o)
  <2>1. o + TokenModulus - c \in 0 .. TokenModulus - 1
    BY <1>2, <1>4
  <2> QED
    BY <1>1, <1>2, <1>4, <2>1 DEF available_tokens
<1> QED
  BY <1>3, <1>4

(* Any step keeps the tokens in balance: taking one, filling or failing to   *)
(* fill a buffer, freeing one, and the two resets of the counters.           *)
LEMMA TokenStep ==
  ASSUME BaseInv, FreshInv, TokenInv, [Next]_vars
  PROVE  TokenInv'
<1> DEFINE c == tx_buffer_count
           o == offered
           M == TokenModulus
<1>1. /\ c \in 0 .. M - 1 /\ o \in 0 .. M - 1 /\ used \in Nat /\ M \in Nat /\ Buffers \in Nat
      /\ Buffers < M /\ worker \in Workers
  BY Limits DEF BaseInv, Shape
<1>2. Available = IF c <= o THEN o - c ELSE o + M - c
  BY <1>1, Tokens DEF Available
<1>3. ASSUME UNCHANGED <<tx_buffer_count, offered, used>>, ~unreset' => ~unreset,
             worker'.pc = "write" => worker.pc = "write"
      PROVE  TokenInv'
  BY <1>1, <1>2, <1>3 DEF TokenInv, Available
<1>4. CASE wait_for_token
  <2>1. CASE available_tokens(c, o) # 0
    <3>1. /\ worker.pc = "token" /\ worker'.pc = "write" /\ offered' = o /\ used' = used
          /\ tx_buffer_count' = (c + 1) % M /\ unreset' = unreset
      BY <1>1, <1>4, <2>1 DEF wait_for_token, WorkerTo, Workers, device, ghosts
    <3>2. (c + 1) % M = IF c + 1 = M THEN 0 ELSE c + 1
      BY <1>1, ModStep
    <3>3. tx_buffer_count' \in 0 .. M - 1
      BY <1>1, <3>1, <3>2
    <3>4. Available' = IF tx_buffer_count' <= o THEN o - tx_buffer_count'
                                                ELSE o + M - tx_buffer_count'
      BY <1>1, <3>1, <3>3, Tokens DEF Available
    <3>5. Available # 0
      BY <2>1 DEF Available
    <3>6. Available' = Available - 1
      BY <1>1, <1>2, <3>1, <3>2, <3>4, <3>5
    <3> QED
      BY <1>1, <1>2, <3>1, <3>6 DEF TokenInv
  <2>2. CASE ~(available_tokens(c, o) # 0)
    BY <1>1, <1>3, <1>4, <2>2 DEF wait_for_token, Workers, device, ghosts
  <2> QED
    BY <2>1, <2>2
<1>5. ASSUME NEW ok \in BOOLEAN, write_frame(ok) PROVE TokenInv'
  <2>1. /\ worker.pc = "write" /\ worker'.pc = "done" /\ used' \in {used, used + 1}
        /\ UNCHANGED <<tx_buffer_count, offered, unreset>>
    BY <1>1, <1>5 DEF write_frame, Workers, fields, ghosts
  <2>2. Available' = Available /\ Available \in Int
    BY <1>1, <1>2, <2>1 DEF Available
  <2>3. CASE used' = used
    BY <1>1, <2>1, <2>2, <2>3 DEF TokenInv
  <2>4. CASE used' = used + 1
    BY <1>1, <2>1, <2>2, <2>4 DEF TokenInv
  <2> QED
    BY <2>1, <2>3, <2>4
<1>6. CASE coprocessor_free
  <2>1. /\ worker' = worker /\ tx_buffer_count' = c /\ used > 0 /\ used' = used - 1
        /\ offered' = (o + 1) % M /\ unreset' = unreset
    BY <1>6 DEF coprocessor_free, threads, fields, ghosts
  <2>2. (o + 1) % M = IF o + 1 = M THEN 0 ELSE o + 1
    BY <1>1, ModStep
  <2>3. offered' \in 0 .. M - 1
    BY <1>1, <2>1, <2>2
  <2>4. Available' = IF c <= offered' THEN offered' - c ELSE offered' + M - c
    BY <1>1, <2>1, <2>3, Tokens DEF Available
  <2>5. CASE unreset
    BY <2>1, <2>5 DEF TokenInv
  <2>6. CASE ~unreset
    <3>1. Available < M - 1
      BY <1>1, <1>2, <2>1, <2>6 DEF TokenInv
    <3>2. Available' = Available + 1
      BY <1>1, <1>2, <2>1, <2>2, <2>4, <3>1
    <3> QED
      BY <1>1, <1>2, <2>1, <3>2 DEF TokenInv
  <2> QED
    BY <2>5, <2>6
<1>7. CASE transport_soft_reset
  <2>1. CASE function
    <3>1. /\ tx_buffer_count' = 0 /\ offered' = Buffers /\ used' = 0 /\ worker' = worker
          /\ worker.pc \in Idle
      BY <1>7, <2>1 DEF transport_soft_reset, threads, BaseInv, WorkerInv
    <3>2. Available' = Buffers
      BY <1>1, <3>1, Tokens DEF Available
    <3> QED
      BY <1>1, <3>1, <3>2 DEF TokenInv, Idle
  <2>2. CASE ~function
    BY <1>3, <1>7, <2>2 DEF transport_soft_reset, threads, device
  <2> QED
    BY <2>1, <2>2
<1>8. CASE transport_start_zero
  <2>1. /\ tx_buffer_count' = 0 /\ lifecycle = "enable" /\ UNCHANGED <<offered, used, worker, unreset>>
    BY <1>8 DEF transport_start_zero, device, ghosts
  <2>2. CASE unreset
    BY <2>1, <2>2 DEF TokenInv
  <2>3. CASE ~unreset
    <3>1. tx_buffer_count = 0
      BY <2>1, <2>3 DEF FreshInv, BeforeSession, Starting
    <3> QED
      BY <1>3, <2>1, <3>1
  <2> QED
    BY <2>2, <2>3
<1>9. CASE drain_rx
  <2>1. PICK streak, burst : RxTurn(streak, burst) /\ InRx
    BY <1>9, Zenon DEF drain_rx, drain_rx_stopped, drain_rx_empty, drain_rx_ok,
       drain_rx_invalid, drain_rx_error
  <2> QED
    BY <1>1, <1>3, <2>1 DEF RxTurn, InRx, Workers, ghosts
<1>10. CASE \/ worker_take \/ worker_lock \/ drain_tx_recv \/ drain_tx_end \/ drain_tx_check
            \/ wait_for_token_fail \/ drain_tx_done
  <2>1. CASE drain_tx_recv
    <3>1. /\ UNCHANGED <<tx_buffer_count, offered, used, unreset>> /\ worker.pc = "tx"
          /\ \/ worker' = [worker EXCEPT !.pc = "got", !.job = Head(tx_queue)]
             \/ worker' = [worker EXCEPT !.burst = TxBurst]
      BY <2>1, TxRecvCases DEF fields, device
    <3>2. worker'.pc # "write"
      BY <1>1, <3>1 DEF Workers
    <3> QED
      BY <1>3, <3>1, <3>2
  <2> QED
    BY <1>1, <1>3, <1>10, <2>1 DEF worker_take, worker_lock, drain_tx_end, drain_tx_check,
       wait_for_token_fail, drain_tx_done, WorkerTo, Workers, fields, device, ghosts
<1>11. CASE lifecycle_main /\ ~transport_start_zero
  <2>1. UNCHANGED <<tx_buffer_count, offered, used, unreset, worker>>
    BY <1>11, Zenon DEF lifecycle_main, lifecycle_main_recv, transport_start_ready,
     transport_start_fail, transport_start_number, transport_start_run,
     transport_start_wake, transport_stop, transport_stop_renumber, transport_stop_drain,
     transport_stop_complete, threads, fields, device, ghosts
  <2> QED
    BY <1>3, <2>1
<1>12. CASE \/ core_transport_start \/ core_transport_stop \/ submit_tx
            \/ transport_soft_reset_fail \/ probe \/ sdio_irq \/ coprocessor_send
            \/ UNCHANGED vars
  <2>1. /\ UNCHANGED <<tx_buffer_count, offered, used, worker>>
        /\ unreset' = unreset \/ core_transport_start
    BY <1>12, Zenon DEF core_transport_start, core_transport_stop, submit_tx,
       transport_submit_tx, transport_submit_tx_wake, transport_soft_reset_fail, probe,
       sdio_irq, coprocessor_send, vars, threads, fields, device, ghosts
  <2>2. ~unreset' => ~unreset
    BY <2>1 DEF core_transport_start
  <2> QED
    BY <1>3, <2>1, <2>2
<1> QED
  BY <1>4, <1>5, <1>6, <1>7, <1>8, <1>9, <1>10, <1>11, <1>12
  DEF Next, worker_main, drain_tx, soft_reset

(* A session that begins with a soft reset keeps its tokens in balance.      *)
LEMMA TokenInvariant == Spec => [](BaseInv /\ FreshInv /\ TokenInv)
<1>1. Init => FreshInv /\ TokenInv
  <2> SUFFICES ASSUME Init PROVE FreshInv /\ TokenInv
    OBVIOUS
  <2>1. Available = Buffers
    BY Limits, Tokens DEF Init, Available
  <2> QED
    BY <2>1, Limits DEF Init, FreshInv, TokenInv, Holding
<1>2. BaseInv /\ FreshInv /\ [Next]_vars => FreshInv'
  BY FreshStep
<1>3. BaseInv /\ FreshInv /\ TokenInv /\ [Next]_vars => TokenInv'
  BY TokenStep
<1> QED
  BY <1>1, <1>2, <1>3, BaseCorrect, PTL DEF Spec

(* What the counter says is available is a natural number.                   *)
LEMMA AvailableNat == BaseInv => Available \in Nat
<1> SUFFICES ASSUME BaseInv PROVE Available \in Nat
  OBVIOUS
<1>1. /\ tx_buffer_count \in 0 .. TokenModulus - 1 /\ offered \in 0 .. TokenModulus - 1
      /\ TokenModulus \in Nat
  BY Limits DEF BaseInv, Shape
<1> QED
  BY <1>1, Tokens DEF Available

(* For every number of buffers and every modulus above it, through any       *)
(* sequence of stops, starts and soft resets: unless Core was started again  *)
(* without a soft reset, the worker writes a frame only while the            *)
(* coprocessor has a buffer for it.                                          *)
THEOREM NoOverrunCorrect == Spec => []NoBufferOverrun
<1>1. BaseInv /\ TokenInv => NoBufferOverrun
  <2> SUFFICES ASSUME BaseInv, TokenInv, ~unreset, worker.pc = "write" PROVE used < Buffers
    BY DEF NoBufferOverrun
  <2>1. used \in Nat /\ Buffers \in Nat /\ Available \in Nat
    BY Limits, AvailableNat DEF BaseInv, Shape
  <2> QED
    BY <2>1 DEF TokenInv
<1> QED
  BY <1>1, TokenInvariant, PTL

(* For all limits and every kernel: types, the limits of the queue and the   *)
(* semaphores, and no frame completed twice.                                 *)
THEOREM TypeCorrect == Spec => []TypeOK
<1>1. BaseInv /\ TxInv => TypeOK
  <2> SUFFICES ASSUME BaseInv, TxInv PROVE TypeOK
    OBVIOUS
  <2>1. done \in [Jobs -> 0 .. 1]
    BY DEF BaseInv, Shape, TxInv
  <2>2. worker \in [pc : {"wait", "lock", "rx", "tx", "got", "token", "write", "done"},
                    burst : 0 .. (RxBurst + TxBurst), attempt : 0 .. TokenAttempts,
                    wrote : BOOLEAN, job : TxJobs]
    BY DEF BaseInv, Shape, Workers, Pcs, Idle, Holding, Bursts, Attempts
  <2> QED
    BY <2>1, <2>2 DEF BaseInv, Shape, TypeOK, Starting, Stopping
<1> QED
  BY <1>1, TxInvariant, PTL

(* A step that changes neither generation, session nor what was accepted     *)
(* keeps the tags, if its queue and its hand come from the old ones.         *)
LEMMA TagsKept ==
  ASSUME TagInv, UNCHANGED <<generation, session, accepted>>, ~unreset' => ~unreset,
         lifecycle' = "run" => lifecycle = "run",
         \A n \in 1 .. Len(tx_queue') : \E m \in 1 .. Len(tx_queue) : tx_queue'[n] = tx_queue[m],
         worker'.pc \in Holding =>
           \/ worker.pc \in Holding /\ worker'.job = worker.job
           \/ \E m \in 1 .. Len(tx_queue) : worker'.job = tx_queue[m],
         ~unreset /\ worker'.pc \in {"token", "write"} =>
           accepted[worker'.job.id] = session
  PROVE  TagInv'
  BY DEF TagInv, Current

LEMMA TagWorker ==
  ASSUME BaseInv, TagInv, worker_main
  PROVE  TagInv'
<1>1. worker \in Workers /\ worker.job \in TxJobs /\ Len(tx_queue) \in Nat
  BY DEF BaseInv, Shape, Workers
<1>2. ASSUME UNCHANGED <<generation, session, accepted, tx_queue, unreset, lifecycle>>,
             worker'.pc \in Holding => worker.pc \in Holding /\ worker'.job = worker.job,
             ~unreset /\ worker'.pc \in {"token", "write"} =>
               accepted[worker'.job.id] = session
      PROVE  TagInv'
  BY <1>2, TagsKept
<1>3. CASE worker_take \/ worker_lock \/ drain_tx_end
  BY <1>1, <1>2, <1>3 DEF worker_take, worker_lock, drain_tx_end, WorkerTo, Workers, Holding,
     fields, ghosts
<1>4. CASE drain_rx
  <2>1. PICK streak, burst : RxTurn(streak, burst) /\ InRx
    BY <1>4, Zenon DEF drain_rx, drain_rx_stopped, drain_rx_empty, drain_rx_ok,
       drain_rx_invalid, drain_rx_error
  <2> QED
    BY <1>1, <1>2, <2>1 DEF RxTurn, InRx, Workers, Holding, ghosts
<1>5. CASE drain_tx_recv
  <2>1. /\ 1 \in 1 .. Len(tx_queue) /\ worker.pc = "tx"
        /\ \/ worker'.pc = "got" /\ worker'.job = tx_queue[1]
           \/ worker'.pc = "tx"
        /\ UNCHANGED <<generation, session, accepted, unreset, lifecycle>>
    <3>1. /\ 1 \in 1 .. Len(tx_queue) /\ Head(tx_queue) = tx_queue[1]
      BY <1>5, TxRecvCases, QueueTail DEF BaseInv
    <3>2. /\ worker.pc = "tx" /\ UNCHANGED <<generation, session, accepted, unreset, lifecycle>>
          /\ \/ worker' = [worker EXCEPT !.pc = "got", !.job = Head(tx_queue)]
             \/ worker' = [worker EXCEPT !.burst = TxBurst]
      BY <1>5, TxRecvCases DEF fields
    <3> QED
      BY <1>1, <3>1, <3>2 DEF Workers
  <2>2. \A n \in 1 .. Len(tx_queue') :
          n + 1 \in 1 .. Len(tx_queue) /\ tx_queue'[n] = tx_queue[n + 1]
    BY <1>1, <1>5, TxRecvCases, QueueTail DEF BaseInv
  <2> QED
    BY <2>1, <2>2, TagsKept DEF Holding
<1>6. CASE drain_tx_check
  <2>1. /\ worker.pc = "got" /\ worker'.job = worker.job /\ worker'.pc \in {"done", "token"}
        /\ worker'.pc = "token" => worker.job.generation = generation
        /\ UNCHANGED <<generation, session, accepted, tx_queue, unreset, lifecycle>>
    BY <1>1, <1>6 DEF drain_tx_check, Workers, fields, ghosts
  <2> QED
    BY <1>2, <2>1 DEF TagInv, Current, Holding
<1>7. CASE wait_for_token \/ wait_for_token_fail
  <2>1. /\ worker.pc = "token" /\ worker'.job = worker.job
        /\ worker'.pc \in {"token", "write", "done"}
        /\ UNCHANGED <<generation, session, accepted, tx_queue, unreset, lifecycle>>
    BY <1>1, <1>7 DEF wait_for_token, wait_for_token_fail, WorkerTo, Workers, fields, ghosts
  <2> QED
    BY <1>2, <2>1 DEF TagInv, Holding
<1>8. ASSUME NEW ok \in BOOLEAN, write_frame(ok) PROVE TagInv'
  <2>1. /\ worker.pc = "write" /\ worker'.job = worker.job /\ worker'.pc = "done"
        /\ UNCHANGED <<generation, session, accepted, tx_queue, unreset, lifecycle>>
    BY <1>1, <1>8 DEF write_frame, Workers, fields, ghosts
  <2> QED
    BY <1>2, <2>1 DEF Holding
<1>9. CASE drain_tx_done
  BY <1>1, <1>2, <1>9 DEF drain_tx_done, Workers, Holding, fields
<1> QED
  BY <1>3, <1>4, <1>5, <1>6, <1>7, <1>8, <1>9 DEF worker_main, drain_tx

(* The jobs in the queue are jobs.                                           *)
LEMMA QueueJobs ==
  ASSUME Shape, NEW n \in 1 .. Len(tx_queue)
  PROVE  tx_queue[n].id \in Jobs /\ tx_queue[n].generation \in Nat
<1>1. tx_queue[n] \in TxJobs
  BY ElementOfSeq DEF Shape
<1> QED
  BY <1>1, Limits DEF TxJobs, Generations

(* A new generation is newer than every tag.                                 *)
LEMMA TagsOutdated ==
  ASSUME BaseInv, TagInv, generation' = generation + 1,
         UNCHANGED <<worker, tx_queue, session, accepted, unreset>>
  PROVE  TagInv'
<1>1. generation \in Nat /\ worker.job.generation \in Nat
  BY WorkerParts DEF BaseInv, Shape, Generations
<1>2. \A n \in 1 .. Len(tx_queue) : tx_queue[n].generation \in Nat
  BY QueueJobs DEF BaseInv
<1> QED
  BY <1>1, <1>2 DEF TagInv, Current

LEMMA TagLifecycle ==
  ASSUME BaseInv, FreshInv, TagInv, lifecycle_main
  PROVE  TagInv'
<1>1. CASE transport_start_number \/ transport_stop_renumber
  BY <1>1, TagsOutdated
  DEF transport_start_number, transport_stop_renumber, ghosts
<1>2. CASE transport_start_run
  <2>1. /\ lifecycle = "run" /\ lifecycle' # "run"
        /\ UNCHANGED <<tx_queue, worker, generation, accepted, unreset>>
    BY <1>2 DEF transport_start_run, fields
  <2>2. ~unreset => worker.pc \notin Holding
    BY <2>1 DEF FreshInv, BeforeSession, Starting
  <2> QED
    BY <2>1, <2>2 DEF TagInv, Current, Holding
<1>3. CASE transport_stop_drain
  <2>1. \A n \in 1 .. Len(tx_queue') :
          n + 1 \in 1 .. Len(tx_queue) /\ tx_queue'[n] = tx_queue[n + 1]
    BY <1>3, DrainCases, QueueTail DEF BaseInv
  <2>2. /\ UNCHANGED <<generation, session, accepted, worker, unreset>> /\ lifecycle' # "run"
    BY <1>3, DrainCases DEF fields
  <2> QED
    BY <2>1, <2>2, TagsKept DEF TagInv
<1>4. CASE \/ transport_start_ready \/ transport_start_fail \/ transport_start_zero
           \/ transport_start_wake \/ transport_stop \/ transport_stop_complete
           \/ lifecycle_main_recv
  <2>1. /\ UNCHANGED <<tx_queue, worker, generation, session, accepted, unreset>>
        /\ lifecycle' # "run"
    BY <1>4 DEF transport_start_ready, transport_start_fail, transport_start_zero,
       transport_start_wake, transport_stop, transport_stop_complete, lifecycle_main_recv,
       fields, ghosts
  <2> QED
    BY <2>1 DEF TagInv, Current
<1> QED
  BY <1>1, <1>2, <1>3, <1>4 DEF lifecycle_main

LEMMA TagEnvironment ==
  ASSUME BaseInv, TxInv, TagInv, Environment
  PROVE  TagInv'
<1>1. ASSUME NEW j \in Jobs, transport_submit_tx(j) PROVE TagInv'
  <2> DEFINE job == [id |-> j, generation |-> generation]
  <2>1. /\ accepted \in [Jobs -> 0 .. MaxStarts] /\ done \in [Jobs -> Nat]
        /\ tx_queue \in Seq(TxJobs) /\ generation \in Nat /\ job \in TxJobs
    BY Limits DEF BaseInv, Shape, TxJobs, Generations
  <2>2. j \notin Held
    BY <1>1, <2>1 DEF TxInv, transport_submit_tx
  <2>3. /\ \A n \in 1 .. Len(tx_queue) : tx_queue[n].id \in Jobs \ {j}
        /\ worker.pc \in Holding => worker.job.id \in Jobs \ {j}
    BY <2>2, QueueJobs, WorkerParts DEF Held, WorkerHolds, Holding, BaseInv
  <2>4. /\ accepted'[j] = session
        /\ \A k \in Jobs \ {j} : accepted'[k] = accepted[k]
        /\ UNCHANGED <<worker, generation, session, lifecycle, unreset>> /\ lifecycle # "run"
    BY <1>1, <2>1 DEF transport_submit_tx, fields, BaseInv, LifecycleInv, Starting
  <2>5. \A n \in 1 .. Len(tx_queue') :
          \/ n \in 1 .. Len(tx_queue) /\ tx_queue'[n] = tx_queue[n]
          \/ tx_queue'[n] = job
    BY <1>1, <2>1, AppendProperties, LenProperties DEF transport_submit_tx
  <2>6. \A n \in 1 .. Len(tx_queue') : Current(tx_queue[n])'
    BY <2>1, <2>3, <2>4, <2>5 DEF TagInv, Current
  <2> QED
    BY <2>3, <2>4, <2>6 DEF TagInv, Current, Holding
<1>2. ASSUME UNCHANGED <<tx_queue, worker, generation, session, accepted>>,
             ~unreset' => ~unreset, lifecycle' = "run" => lifecycle = "run"
      PROVE  TagInv'
  BY <1>2 DEF TagInv, Current
<1>3. CASE \/ core_transport_start \/ core_transport_stop \/ transport_submit_tx_wake
           \/ transport_soft_reset_fail \/ probe \/ sdio_irq \/ coprocessor_send
           \/ coprocessor_free
  BY <1>2, <1>3 DEF core_transport_start, core_transport_stop, transport_submit_tx_wake,
     transport_soft_reset_fail, probe, sdio_irq, coprocessor_send, coprocessor_free,
     threads, fields, ghosts
<1>4. CASE transport_soft_reset
  <2>1. CASE function
    <3>1. /\ worker.pc \in Idle
          /\ UNCHANGED <<tx_queue, worker, generation, session, accepted, lifecycle>>
      BY <1>4, <2>1 DEF transport_soft_reset, threads, BaseInv, WorkerInv
    <3> QED
      BY <3>1 DEF TagInv, Current, Idle, Holding
  <2>2. CASE ~function
    BY <1>2, <1>4, <2>2 DEF transport_soft_reset, threads
  <2> QED
    BY <2>1, <2>2
<1> QED
  BY <1>1, <1>3, <1>4 DEF Environment, submit_tx, soft_reset

(* Unless Core was started again without a soft reset, no frame reaches the  *)
(* bus in a session other than the one that accepted it, whatever the        *)
(* interleaving of the worker with transport_stop, the reset and             *)
(* transport_start, and although transport_stop may leave frames queued.     *)
THEOREM NoStaleCorrect == Spec => NoStaleFrameOnBus
<1>1. Init => TagInv
  BY DEF Init, TagInv, Holding
<1>2. BaseInv /\ FreshInv /\ TxInv /\ TagInv /\ [Next]_vars => TagInv'
  <2> SUFFICES ASSUME BaseInv, FreshInv, TxInv, TagInv, [Next]_vars PROVE TagInv'
    OBVIOUS
  <2>1. CASE UNCHANGED vars
    BY <2>1 DEF vars, threads, fields, ghosts, TagInv, Current
  <2> QED
    BY <2>1, TagWorker, TagLifecycle, TagEnvironment DEF Next, Environment
<1>3. Spec => []TagInv
  BY <1>1, <1>2, TxInvariant, TokenInvariant, PTL DEF Spec
<1>4. TagInv => (~unreset /\ worker.pc = "write" /\ worker'.wrote => accepted[worker.job.id] = session)
  BY DEF TagInv
<1> QED
  BY <1>3, <1>4, PTL DEF NoStaleFrameOnBus

-----------------------------------------------------------------------------
(* What crosses the bus.                                                    *)

(* A frame whose length write_frame refuses never gets a token.              *)
Accepted == worker.pc \in {"token", "write"} => padded_size(FrameLength[worker.job.id]) # 0

LEMMA AcceptedStep ==
  ASSUME BaseInv, Accepted, [Next]_vars
  PROVE  Accepted'
<1>1. worker \in Workers
  BY DEF BaseInv, Shape
<1>2. CASE drain_tx_check
  BY <1>1, <1>2 DEF drain_tx_check, Workers, Accepted
<1>3. CASE wait_for_token \/ wait_for_token_fail
  BY <1>1, <1>3 DEF wait_for_token, wait_for_token_fail, WorkerTo, Workers, Accepted
<1>4. CASE drain_rx
  <2>1. PICK streak, burst : RxTurn(streak, burst) /\ InRx
    BY <1>4, Zenon DEF drain_rx, drain_rx_stopped, drain_rx_empty, drain_rx_ok,
       drain_rx_invalid, drain_rx_error
  <2> QED
    BY <1>1, <2>1 DEF RxTurn, InRx, Workers, Accepted
<1>5. CASE \/ worker_take \/ worker_lock \/ drain_tx_recv \/ drain_tx_end \/ drain_tx_done
           \/ \E ok \in BOOLEAN : write_frame(ok)
  BY <1>1, <1>5, TxRecvCases DEF worker_take, worker_lock, drain_tx_end, drain_tx_done,
     write_frame, WorkerTo, Workers, Accepted
<1>6. CASE lifecycle_main \/ Environment \/ UNCHANGED vars
  <2>1. worker' = worker
    BY <1>6, OthersKeepWorker
  <2> QED
    BY <2>1 DEF Accepted
<1> QED
  BY <1>2, <1>3, <1>4, <1>5, <1>6 DEF Next, Environment, worker_main, drain_tx

(* For every value of the constants: a frame that the worker writes, and any *)
(* other length, is moved as the reference says, and packet lengths are      *)
(* right across every wrap of the counter.                                   *)
THEOREM WireMatchesCorrect == Spec => []WireMatchesReference
<1>1. Init => Accepted
  BY DEF Init, Accepted
<1>2. BaseInv /\ Accepted /\ [Next]_vars => Accepted'
  BY AcceptedStep
<1>3. BaseInv /\ Accepted => WireMatchesReference
  <2> SUFFICES ASSUME BaseInv, Accepted PROVE WireMatchesReference
    OBVIOUS
  <2> DEFINE n == FrameLength[worker.job.id]
  <2>1. n \in Nat
    BY SdioAssumption, WorkerParts DEF BaseInv
  <2>2. TransferAgrees(n)
    BY <2>1, TransferCorrect
  <2>3. padded_size(n) # 0 => padded_size(n) > 0
    <3>1. CASE n \in 1 .. MaxFrame
      BY <2>1, <3>1, Padded, WireAssumption
    <3>2. CASE n \notin 1 .. MaxFrame
      BY <2>2, <3>2 DEF TransferAgrees
    <3> QED
      BY <3>1, <3>2
  <2> HIDE DEF n
  <2>4. worker.pc = "write" => padded_size(n) > 0
    BY <2>3 DEF Accepted, n
  <2> QED
    BY <2>2, <2>4, WireCorrect DEF WireMatchesReference, n
<1> QED
  BY <1>1, <1>2, <1>3, BaseCorrect, PTL DEF Spec

(* In the program as this tree builds it the transport never starts:          *)
(* rt_mq_recv returns the length of the job, lifecycle_main drops every start, *)
(* running stays false and submit_tx accepts no frame.                        *)
THEOREM NeverStarts ==
  ReturnsLength /\ Spec => [](~running /\ \A j \in Jobs : accepted[j] = 0)
<1> SUFFICES ASSUME ReturnsLength
             PROVE  Spec => [](~running /\ \A j \in Jobs : accepted[j] = 0)
  BY DEF ReturnsLength
<1> DEFINE Down == ~running /\ \A j \in Jobs : accepted[j] = 0
           Asleep == Down /\ lifecycle \in {"idle", "start_job", "stop_job"}
<1>1. Init => Asleep
  BY DEF Init
<1>2. Asleep /\ [Next]_vars => Asleep'
  <2> SUFFICES ASSUME Asleep, [Next]_vars PROVE Asleep'
    OBVIOUS
  <2>1. CASE lifecycle_main
    <3>1. lifecycle_main_recv
      BY <2>1 DEF lifecycle_main, transport_start_ready, transport_start_fail,
         transport_start_zero, transport_start_number, transport_start_run,
         transport_start_wake, transport_stop, transport_stop_renumber,
         transport_stop_drain, transport_stop_complete
    <3> QED
      BY <3>1 DEF lifecycle_main_recv, ReturnsLength, fields, ghosts
  <2>2. CASE core_transport_start \/ core_transport_stop
    BY <2>2 DEF core_transport_start, core_transport_stop, fields, ghosts
  <2>3. CASE UNCHANGED <<running, lifecycle, accepted>>
    BY <2>3
  <2>4. CASE worker_main
    <3>1. UNCHANGED <<running, lifecycle, accepted>>
      BY <2>4 DEF worker_main, worker_take, worker_lock, drain_rx, drain_rx_stopped,
         drain_rx_empty, drain_rx_ok, drain_rx_invalid, drain_rx_error, RxTurn, drain_tx,
         drain_tx_recv, drain_tx_end, drain_tx_check, wait_for_token, wait_for_token_fail,
         write_frame, drain_tx_done, fields, ghosts
    <3> QED
      BY <2>3, <3>1
  <2> QED
    BY <2>1, <2>2, <2>3, <2>4 DEF Next, vars, submit_tx, transport_submit_tx,
       transport_submit_tx_wake, soft_reset, transport_soft_reset,
       transport_soft_reset_fail, probe, sdio_irq, coprocessor_send, coprocessor_free,
       threads, fields, ghosts
<1>3. Asleep => Down
  OBVIOUS
<1> QED
  BY <1>1, <1>2, <1>3, PTL DEF Spec
=============================================================================
