--------------------------- MODULE SdioTransport ---------------------------
(***************************************************************************)
(* The SDIO transport (transport/sdio/wlh_rtt_sdio.c): the worker thread   *)
(* that moves frames in both directions under transport.lock, the          *)
(* lifecycle thread that starts and stops it, submit_tx called by Host     *)
(* Core, the soft reset of recovery, the mmcsd thread that probes the card *)
(* and the SDIO interrupt.                                                 *)
(*                                                                         *)
(* running, generation and tx_buffer_count are plain fields that the       *)
(* lifecycle thread writes without the lock, so the worker's statements    *)
(* interleave with transport_start and transport_stop one by one.          *)
(*                                                                         *)
(* remove_card is not an action: RT-Thread calls it only while a failed    *)
(* transport_create unregisters the driver.                                *)
(*                                                                         *)
(* External.  Host Core submits from one thread, only between a completed  *)
(* start and its own stop request, and starts again only after the stop    *)
(* completed; recovery puts a soft reset in between, the public            *)
(* wlh_rtt_host_stop and _start do not.  The coprocessor owns Buffers      *)
(* receive buffers and offers them with a cumulative counter that a soft   *)
(* reset restarts; it may have a packet ready at any time.  Lengths and    *)
(* the accumulated byte count appear as the outcome of read_frame: OK,     *)
(* EEMPTY, EINVAL or a bus error.                                          *)
(***************************************************************************)
EXTENDS SdioWire, MessageQueue, Sequences, FiniteSets

CONSTANTS Jobs,                 \* the frames Core submits, numbered in that order
          FrameLength,          \* [Jobs -> their length]
          QueueDepth,           \* WLH_RTT_HOST_TX_QUEUE_DEPTH
          RxBurst, TxBurst,     \* WLH_SDIO_RX_BURST, WLH_SDIO_TX_BURST
          TokenAttempts,        \* the 200 attempts of wait_for_token
          TokenModulus,         \* WLH_RTT_SDIO_TOKEN_MODULUS
          InvalidLimit,         \* WLH_SDIO_INVALID_LIMIT
          Buffers,              \* receive buffers of the coprocessor
          MaxWake,              \* RT_SEM_VALUE_MAX
          MaxPackets,           \* bound on the packets ready at once
          MaxStarts             \* bound on the starts of a behaviour

ASSUME SdioAssumption ==
  /\ IsFiniteSet(Jobs) /\ Jobs # {} /\ Jobs \subseteq Nat /\ FrameLength \in [Jobs -> Nat]
  /\ {QueueDepth, RxBurst, TxBurst, TokenAttempts, InvalidLimit, MaxPackets, MaxStarts}
       \subseteq Nat \ {0}
  /\ Buffers \in Nat \ {0} /\ TokenModulus \in Nat /\ Buffers < TokenModulus
  /\ MaxWake \in Nat /\ QueueDepth <= MaxWake

Generations == 0 .. 2 * MaxStarts
TxJobs == [id : Jobs, generation : Generations]

VARIABLES
  function,          \* transport.function is set
  probed, wake,      \* the two semaphores
  lock,              \* owner of transport.lock: "none" or "worker"
  tx_queue,          \* Seq(TxJobs)
  running, generation, irq_attached, invalid_streak, tx_buffer_count,
  worker,            \* the worker's program counter and locals
  lifecycle,         \* the lifecycle thread's program counter
  core,              \* what Core believes: "down", "starting", "up", "stopping", "failed"
  submitter,         \* "idle", or "wake" inside submit_tx
  recovery,          \* "none", "reset" (soft reset due), "ready" or "fatal"
  packets,           \* packets the coprocessor has ready
  offered, used,     \* its buffer counter and the buffers it has filled
  accepted,          \* [Jobs -> session that accepted the frame, 0 if none]
  done,              \* [Jobs -> number of completions]
  session,           \* completed starts so far
  lost,              \* SUBSET Jobs: frames received from the queue and forgotten
  unreset            \* Core was started again and no soft reset came since its stop

threads == <<worker, lifecycle, submitter>>
fields == <<running, generation, irq_attached, invalid_streak, tx_buffer_count>>
device == <<packets, offered, used>>
ghosts == <<accepted, done, session, lost, unreset>>
vars == <<function, probed, wake, lock, tx_queue, fields, threads, core, recovery,
          device, ghosts>>

-----------------------------------------------------------------------------
(* wlh_rtt_sdio_available_tokens, on the 12-bit counters.                   *)
available_tokens_ignore_consumed(consumed, token) == token % TokenModulus

available_tokens(consumed, token) == (token + TokenModulus - consumed) % TokenModulus

(* rt_sem_release on wake; a full semaphore stays as it is.                 *)
release_wake_binary == wake' = 1

release_wake == wake' = IF wake < MaxWake THEN wake + 1 ELSE wake

Complete(j) == done' = [done EXCEPT ![j] = @ + 1]
WorkerTo(pc) == worker' = [worker EXCEPT !.pc = pc]

-----------------------------------------------------------------------------
(* The worker thread.                                                       *)

(* worker_main: a wake-up while the transport is stopped is dropped.        *)
worker_take ==
  /\ worker.pc = "wait" /\ wake > 0
  /\ wake' = wake - 1
  /\ WorkerTo(IF running THEN "lock" ELSE "wait")
  /\ UNCHANGED <<function, probed, lock, tx_queue, fields, lifecycle, submitter, core,
                 recovery, device, ghosts>>

worker_lock ==
  /\ worker.pc = "lock" /\ lock = "none"
  /\ lock' = "worker"
  /\ worker' = [worker EXCEPT !.pc = "rx", !.burst = 0]
  /\ UNCHANGED <<function, probed, wake, tx_queue, fields, lifecycle, submitter, core,
                 recovery, device, ghosts>>

(* drain_rx, one turn of its loop for each outcome of read_frame.           *)
RxTurn(streak, burst) ==
  /\ invalid_streak' = streak
  /\ worker' = IF burst = RxBurst THEN [worker EXCEPT !.pc = "tx", !.burst = 0]
                                  ELSE [worker EXCEPT !.burst = burst]
  /\ UNCHANGED <<function, probed, wake, lock, tx_queue, running, generation,
                 irq_attached, tx_buffer_count, lifecycle, submitter, core, recovery,
                 offered, used, ghosts>>

InRx == worker.pc = "rx"

drain_rx_stopped == InRx /\ ~running /\ RxTurn(invalid_streak, RxBurst) /\ UNCHANGED packets

drain_rx_empty == InRx /\ running /\ packets = 0 /\ RxTurn(0, RxBurst) /\ UNCHANGED packets

drain_rx_ok_unbounded ==
  InRx /\ running /\ packets > 0 /\ RxTurn(0, 0) /\ packets' = packets - 1

drain_rx_ok ==
  InRx /\ running /\ packets > 0 /\ RxTurn(0, worker.burst + 1) /\ packets' = packets - 1

drain_rx_invalid_no_reset ==
  InRx /\ running /\ packets > 0 /\ RxTurn(invalid_streak + 1, RxBurst) /\ UNCHANGED packets

(* The InvalidLimit-th invalid read in a row reports the link lost.         *)
drain_rx_invalid ==
  /\ InRx /\ running /\ packets > 0
  /\ IF invalid_streak + 1 >= InvalidLimit THEN RxTurn(0, RxBurst)
                                           ELSE RxTurn(invalid_streak + 1, worker.burst + 1)
  /\ UNCHANGED packets

drain_rx_error ==
  InRx /\ running /\ RxTurn(invalid_streak, RxBurst) /\ UNCHANGED packets

drain_rx == \/ drain_rx_stopped \/ drain_rx_empty \/ drain_rx_ok
            \/ drain_rx_invalid \/ drain_rx_error

(* drain_tx: take the next job, or end the burst and release the lock.  On  *)
(* any result but RT_EOK the job that was received is forgotten and the     *)
(* loop left, which burst = TxBurst stands for.                             *)
drain_tx_recv ==
  /\ worker.pc = "tx" /\ running /\ worker.burst < TxBurst /\ tx_queue # <<>>
  /\ tx_queue' = Tail(tx_queue)
  /\ \E result \in RecvResults :
       \/ /\ result = RT_EOK
          /\ worker' = [worker EXCEPT !.pc = "got", !.job = Head(tx_queue)]
          /\ UNCHANGED lost
       \/ /\ result # RT_EOK
          /\ worker' = [worker EXCEPT !.burst = TxBurst]
          /\ lost' = lost \cup {Head(tx_queue).id}
  /\ UNCHANGED <<function, probed, wake, lock, fields, lifecycle, submitter, core,
                 recovery, device, accepted, done, session, unreset>>

drain_tx_end ==
  /\ worker.pc = "tx" /\ ~(running /\ worker.burst < TxBurst /\ tx_queue # <<>>)
  /\ lock' = "none"
  /\ WorkerTo("wait")
  /\ UNCHANGED <<function, probed, wake, tx_queue, fields, lifecycle, submitter, core,
                 recovery, device, ghosts>>

drain_tx_check_drops ==
  /\ worker.pc = "got"
  /\ worker' = [worker EXCEPT !.attempt = 0,
                  !.pc = IF worker.job.generation # generation THEN "tx" ELSE "token"]
  /\ UNCHANGED <<function, probed, wake, lock, tx_queue, fields, lifecycle, submitter,
                 core, recovery, device, ghosts>>

(* A job of another generation, or of a length that write_frame refuses,    *)
(* fails without touching the bus.                                          *)
drain_tx_check ==
  /\ worker.pc = "got"
  /\ worker' = [worker EXCEPT !.attempt = 0,
                  !.pc = IF \/ worker.job.generation # generation
                            \/ padded_size(FrameLength[worker.job.id]) = 0
                         THEN "done" ELSE "token"]
  /\ UNCHANGED <<function, probed, wake, lock, tx_queue, fields, lifecycle, submitter,
                 core, recovery, device, ghosts>>

(* wait_for_token: stopped, out of attempts or a bus error fail the frame.  *)
wait_for_token_fail ==
  /\ worker.pc = "token"
  /\ WorkerTo("done")
  /\ UNCHANGED <<function, probed, wake, lock, tx_queue, fields, lifecycle, submitter,
                 core, recovery, device, ghosts>>

wait_for_token ==
  /\ worker.pc = "token" /\ running /\ worker.attempt < TokenAttempts
  /\ IF available_tokens(tx_buffer_count, offered) # 0
     THEN /\ tx_buffer_count' = (tx_buffer_count + 1) % TokenModulus
          /\ WorkerTo("write")
     ELSE /\ worker' = [worker EXCEPT !.attempt = @ + 1]
          /\ UNCHANGED tx_buffer_count
  /\ UNCHANGED <<function, probed, wake, lock, tx_queue, running, generation,
                 irq_attached, invalid_streak, lifecycle, submitter, core, recovery,
                 device, ghosts>>

(* write_frame: the frame fills a buffer, or the transfer fails.            *)
write_frame(ok) ==
  /\ worker.pc = "write"
  /\ used' = IF ok THEN used + 1 ELSE used
  /\ worker' = [worker EXCEPT !.pc = "done", !.wrote = ok]
  /\ UNCHANGED <<function, probed, wake, lock, tx_queue, fields, lifecycle, submitter,
                 core, recovery, packets, offered, ghosts>>

drain_tx_done ==
  /\ worker.pc = "done"
  /\ Complete(worker.job.id)
  /\ worker' = [worker EXCEPT !.pc = "tx", !.burst = @ + 1, !.wrote = FALSE]
  /\ UNCHANGED <<function, probed, wake, lock, tx_queue, fields, lifecycle, submitter,
                 core, recovery, device, accepted, session, lost, unreset>>

drain_tx == \/ drain_tx_recv \/ drain_tx_end \/ drain_tx_check
            \/ wait_for_token \/ wait_for_token_fail
            \/ (\E ok \in BOOLEAN : write_frame(ok)) \/ drain_tx_done

worker_main == worker_take \/ worker_lock \/ drain_rx \/ drain_tx

-----------------------------------------------------------------------------
(* The lifecycle thread: transport_start and transport_stop.                *)

(* lifecycle_main: on any result but RT_EOK the job is dropped, and its      *)
(* completion never called.                                                  *)
lifecycle_main_recv ==
  /\ lifecycle \in {"start_job", "stop_job"}
  /\ \E result \in RecvResults :
       lifecycle' = IF result # RT_EOK THEN "idle"
                    ELSE IF lifecycle = "start_job" THEN "start" ELSE "stop"
  /\ UNCHANGED <<function, probed, wake, lock, tx_queue, fields, worker, submitter, core,
                 recovery, device, ghosts>>

transport_start_ready ==
  /\ lifecycle = "start" /\ (function \/ probed > 0)
  /\ probed' = IF function THEN probed ELSE probed - 1
  /\ lifecycle' = "enable"
  /\ UNCHANGED <<function, wake, lock, tx_queue, fields, worker, submitter, core,
                 recovery, device, ghosts>>

(* No card within two seconds, or an error while enabling the function.     *)
transport_start_fail ==
  /\ \/ lifecycle = "start" /\ ~function
     \/ lifecycle = "enable"
  /\ irq_attached' \in IF lifecycle = "enable" THEN {irq_attached, TRUE} ELSE {irq_attached}
  /\ lifecycle' = "idle"
  /\ core' = "failed"
  /\ UNCHANGED <<function, probed, wake, lock, tx_queue, running, generation,
                 invalid_streak, tx_buffer_count, worker, submitter, recovery, device,
                 ghosts>>

transport_start_zero ==
  /\ lifecycle = "enable"
  /\ irq_attached' = TRUE
  /\ tx_buffer_count' = 0
  /\ invalid_streak' = 0
  /\ lifecycle' = "number"
  /\ UNCHANGED <<function, probed, wake, lock, tx_queue, running, generation, worker,
                 submitter, core, recovery, device, ghosts>>

transport_start_number ==
  /\ lifecycle = "number"
  /\ generation' = generation + 1
  /\ lifecycle' = "run"
  /\ UNCHANGED <<function, probed, wake, lock, tx_queue, running, irq_attached,
                 invalid_streak, tx_buffer_count, worker, submitter, core, recovery,
                 device, ghosts>>

transport_start_run ==
  /\ lifecycle = "run"
  /\ running' = TRUE
  /\ session' = session + 1
  /\ lifecycle' = "wake"
  /\ UNCHANGED <<function, probed, wake, lock, tx_queue, generation, irq_attached,
                 invalid_streak, tx_buffer_count, worker, submitter, core, recovery,
                 device, accepted, done, lost, unreset>>

transport_start_wake ==
  /\ lifecycle = "wake"
  /\ release_wake
  /\ lifecycle' = "idle"
  /\ core' = "up"
  /\ UNCHANGED <<function, probed, lock, tx_queue, fields, worker, submitter, recovery,
                 device, ghosts>>

transport_stop ==
  /\ lifecycle = "stop"
  /\ running' = FALSE
  /\ lifecycle' = "renumber"
  /\ UNCHANGED <<function, probed, wake, lock, tx_queue, generation, irq_attached,
                 invalid_streak, tx_buffer_count, worker, submitter, core, recovery,
                 device, ghosts>>

transport_stop_renumber ==
  /\ lifecycle = "renumber"
  /\ generation' = generation + 1
  /\ lifecycle' = "drain"
  /\ UNCHANGED <<function, probed, wake, lock, tx_queue, running, irq_attached,
                 invalid_streak, tx_buffer_count, worker, submitter, core, recovery,
                 device, ghosts>>

(* The loop that fails the queued frames goes on while rt_mq_recv returns    *)
(* RT_EOK; a frame received with another result is forgotten, and the rest   *)
(* stay in the queue.                                                        *)
transport_stop_drain ==
  /\ lifecycle = "drain" /\ tx_queue # <<>>
  /\ tx_queue' = Tail(tx_queue)
  /\ \E result \in RecvResults :
       \/ /\ result = RT_EOK
          /\ Complete(Head(tx_queue).id)
          /\ UNCHANGED <<lifecycle, lost>>
       \/ /\ result # RT_EOK
          /\ lost' = lost \cup {Head(tx_queue).id}
          /\ lifecycle' = "stopped"
          /\ UNCHANGED done
  /\ UNCHANGED <<function, probed, wake, lock, fields, worker, submitter, core, recovery,
                 device, accepted, session, unreset>>

transport_stop_complete ==
  /\ lifecycle = "stopped" \/ (lifecycle = "drain" /\ tx_queue = <<>>)
  /\ lifecycle' = "idle"
  /\ core' = "down"
  /\ UNCHANGED <<function, probed, wake, lock, tx_queue, fields, worker, submitter,
                 recovery, device, ghosts>>

lifecycle_main == \/ lifecycle_main_recv
                  \/ transport_start_ready \/ transport_start_fail
                  \/ transport_start_zero \/ transport_start_number
                  \/ transport_start_run \/ transport_start_wake
                  \/ transport_stop \/ transport_stop_renumber
                  \/ transport_stop_drain \/ transport_stop_complete

-----------------------------------------------------------------------------
(* Host Core's calls, the recovery thread and the card.                     *)

core_transport_start ==
  /\ core = "down" /\ lifecycle = "idle" /\ session + 1 <= MaxStarts
  /\ recovery # "fatal"
  /\ core' = "starting" /\ lifecycle' = "start_job" /\ recovery' = "none"
  /\ unreset' = (unreset \/ recovery = "reset")
  /\ UNCHANGED <<function, probed, wake, lock, tx_queue, fields, worker, submitter,
                 device, accepted, done, session, lost>>

core_transport_stop ==
  /\ core \in {"up", "failed"} /\ submitter = "idle" /\ generation + 2 \in Generations
  /\ core' = "stopping" /\ lifecycle' = "stop_job" /\ recovery' = "reset"
  /\ UNCHANGED <<function, probed, wake, lock, tx_queue, fields, worker, submitter,
                 device, ghosts>>

(* transport_submit_tx: the job is tagged and queued before the wake-up, or *)
(* refused when its length is out of range, the transport is not running or *)
(* the queue is full.                                                       *)
transport_submit_tx(j) ==
  /\ core = "up" /\ submitter = "idle" /\ accepted[j] = 0
  /\ \A k \in Jobs : k < j => accepted[k] # 0
  /\ FrameLength[j] \in HeaderSize .. MaxFrame
  /\ running /\ Len(tx_queue) < QueueDepth
  /\ tx_queue' = Append(tx_queue, [id |-> j, generation |-> generation])
  /\ accepted' = [accepted EXCEPT ![j] = session]
  /\ submitter' = "wake"
  /\ UNCHANGED <<function, probed, wake, lock, fields, worker, lifecycle, core, recovery,
                 device, done, session, lost, unreset>>

transport_submit_tx_wake ==
  /\ submitter = "wake"
  /\ release_wake
  /\ submitter' = "idle"
  /\ UNCHANGED <<function, probed, lock, tx_queue, fields, worker, lifecycle, core,
                 recovery, device, ghosts>>

(* transport_soft_reset waits for the worker to leave its burst; the        *)
(* coprocessor then starts afresh.  An error ends in fatal_recovery.        *)
transport_soft_reset_unlocked ==
  /\ recovery = "reset" /\ core = "down"
  /\ IF function
     THEN /\ tx_buffer_count' = 0
          /\ recovery' = "ready"
          /\ packets' = 0 /\ offered' = Buffers /\ used' = 0
          /\ unreset' = FALSE
     ELSE recovery' = "fatal" /\ UNCHANGED <<tx_buffer_count, device, unreset>>
  /\ UNCHANGED <<function, probed, wake, lock, tx_queue, running, generation,
                 irq_attached, invalid_streak, threads, core, accepted, done, session, lost>>

transport_soft_reset ==
  /\ recovery = "reset" /\ core = "down"
  /\ IF function
     THEN /\ lock = "none"
          /\ tx_buffer_count' = 0
          /\ recovery' = "ready"
          /\ packets' = 0 /\ offered' = Buffers /\ used' = 0
          /\ unreset' = FALSE
     ELSE recovery' = "fatal" /\ UNCHANGED <<tx_buffer_count, device, unreset>>
  /\ UNCHANGED <<function, probed, wake, lock, tx_queue, running, generation,
                 irq_attached, invalid_streak, threads, core, accepted, done, session, lost>>

transport_soft_reset_fail ==
  /\ recovery = "reset" /\ core = "down" /\ lock = "none"
  /\ recovery' = "fatal"
  /\ UNCHANGED <<function, probed, wake, lock, tx_queue, fields, threads, core, device,
                 ghosts>>

probe ==
  /\ ~function
  /\ function' = TRUE
  /\ probed' = probed + 1
  /\ UNCHANGED <<wake, lock, tx_queue, fields, threads, core, recovery, device, ghosts>>

sdio_irq ==
  /\ irq_attached /\ packets > 0 /\ wake < MaxWake
  /\ release_wake
  /\ UNCHANGED <<function, probed, lock, tx_queue, fields, threads, core, recovery,
                 device, ghosts>>

coprocessor_send ==
  /\ packets < MaxPackets
  /\ packets' = packets + 1
  /\ UNCHANGED <<function, probed, wake, lock, tx_queue, fields, threads, core, recovery,
                 offered, used, ghosts>>

coprocessor_free ==
  /\ used > 0
  /\ used' = used - 1
  /\ offered' = (offered + 1) % TokenModulus
  /\ UNCHANGED <<function, probed, wake, lock, tx_queue, fields, threads, core, recovery,
                 packets, ghosts>>

-----------------------------------------------------------------------------
(* transport_create left everything zeroed, the driver registered and the   *)
(* worker waiting; Core has not asked for anything yet.                     *)
Init ==
  /\ function = FALSE /\ probed = 0 /\ wake = 0 /\ lock = "none" /\ tx_queue = <<>>
  /\ running = FALSE /\ generation = 0 /\ irq_attached = FALSE
  /\ invalid_streak = 0 /\ tx_buffer_count = 0
  /\ worker = [pc |-> "wait", burst |-> 0, attempt |-> 0, wrote |-> FALSE,
               job |-> [id |-> CHOOSE j \in Jobs : TRUE, generation |-> 0]]
  /\ lifecycle = "idle" /\ core = "down" /\ submitter = "idle" /\ recovery = "none"
  /\ packets = 0 /\ offered = Buffers /\ used = 0
  /\ accepted = [j \in Jobs |-> 0] /\ done = [j \in Jobs |-> 0] /\ session = 0
  /\ lost = {} /\ unreset = FALSE

submit_tx == (\E j \in Jobs : transport_submit_tx(j)) \/ transport_submit_tx_wake
soft_reset == transport_soft_reset \/ transport_soft_reset_fail

Next ==
  \/ worker_main \/ lifecycle_main
  \/ core_transport_start \/ core_transport_stop \/ submit_tx \/ soft_reset
  \/ probe \/ sdio_irq \/ coprocessor_send \/ coprocessor_free

Spec == Init /\ [][Next]_vars

(* Threads that can run do run: the worker is the highest of them, the      *)
(* lifecycle thread and Core's submitter are never blocked for ever.        *)
FairSpec ==
  /\ Spec
  /\ WF_vars(worker_main)
  /\ WF_vars(lifecycle_main)
  /\ WF_vars(transport_submit_tx_wake)

-----------------------------------------------------------------------------
(* Every variable has its type: the queue and the semaphores keep to their   *)
(* limits, the invalid streak stays below the one that reports the link lost *)
(* and no frame is completed twice.                                          *)
TypeOK ==
  /\ {function, running, irq_attached} \subseteq BOOLEAN
  /\ probed \in 0 .. 1 /\ wake \in 0 .. MaxWake
  /\ lock \in {"none", "worker"}
  /\ tx_queue \in Seq(TxJobs) /\ Len(tx_queue) <= QueueDepth
  /\ generation \in Generations
  /\ invalid_streak \in 0 .. InvalidLimit - 1
  /\ tx_buffer_count \in 0 .. TokenModulus - 1
  /\ worker \in [pc : {"wait", "lock", "rx", "tx", "got", "token", "write", "done"},
                 burst : 0 .. (RxBurst + TxBurst), attempt : 0 .. TokenAttempts,
                 wrote : BOOLEAN, job : TxJobs]
  /\ lifecycle \in {"idle", "start_job", "start", "enable", "number", "run", "wake",
                    "stop_job", "stop", "renumber", "drain", "stopped"}
  /\ core \in {"down", "starting", "up", "stopping", "failed"}
  /\ submitter \in {"idle", "wake"}
  /\ recovery \in {"none", "reset", "ready", "fatal"}
  /\ packets \in 0 .. MaxPackets /\ offered \in 0 .. TokenModulus - 1
  /\ used \in Nat /\ lost \subseteq Jobs /\ unreset \in BOOLEAN
  /\ accepted \in [Jobs -> 0 .. MaxStarts] /\ done \in [Jobs -> 0 .. 1]
  /\ session \in 0 .. MaxStarts

WorkerHolds(j) == worker.pc \in {"got", "token", "write", "done"} /\ worker.job.id = j

(* No lost wake-up: while the transport runs, a queued job has a wake-up     *)
(* pending for the sleeping worker, or one that a thread is about to give,   *)
(* although each pass of the worker handles at most TxBurst jobs.  A frame   *)
(* forgotten by drain_tx or transport_stop takes a wake-up with it.          *)
WakeCoversQueue ==
  lost = {} /\ running /\ worker.pc = "wait" /\ tx_queue # <<>> =>
    wake > 0 \/ submitter = "wake" \/ lifecycle = "wake"

(* The worker writes a frame only while the coprocessor has a buffer for it: *)
(* the two cumulative counters agree across wrap-around, failed writes,      *)
(* restarts and soft resets, as long as a stop is followed by a soft reset   *)
(* before the next start.                                                    *)
NoBufferOverrun == ~unreset /\ worker.pc = "write" => used < Buffers

(* What crosses the bus has the right size and place: the frame that the     *)
(* worker has a token for, and every other length, is moved as the reference *)
(* says, and the length of a packet is right across every wrap.              *)
WireMatchesReference ==
  /\ worker.pc = "write" =>
       /\ padded_size(FrameLength[worker.job.id]) > 0
       /\ TransferAgrees(FrameLength[worker.job.id])
  /\ AllTransfersAgree /\ LengthsAgree

(* A frame goes to the coprocessor only in the session that accepted it,     *)
(* unless that session began without a soft reset.                           *)
NoStaleFrameOnBus ==
  [][~unreset /\ worker.pc = "write" /\ worker'.wrote =>
       accepted[worker.job.id] = session]_vars

(* Every accepted frame is completed, although packets may arrive for ever,  *)
(* tokens may never come and the transport may be stopped at any point;      *)
(* unless a frame received from the queue has been forgotten.                *)
EveryFrameCompleted == \A j \in Jobs : (accepted[j] # 0) ~> (done[j] = 1 \/ lost # {})

-----------------------------------------------------------------------------
(* The promise of BoundedTx, kept by the queue and the worker together: the  *)
(* frames held are the queued ones and the one the worker has in hand.       *)
Held == {tx_queue[n].id : n \in 1 .. Len(tx_queue)} \cup {j \in Jobs : WorkerHolds(j)}
Completed == {j \in Jobs : done[j] > 0}

Tx == INSTANCE BoundedTx WITH Frames <- Jobs, Capacity <- QueueDepth + 1,
                              Forgets <- \E result \in RecvResults : result # RT_EOK,
                              held <- Held, completed <- Completed

(* "Transport TX is bounded and retains each Host Core frame until exactly   *)
(* one completion": whatever the threads do, a frame is taken only when      *)
(* there is room, stays held, and leaves by a completion, or is forgotten    *)
(* when rt_mq_recv returns something else than RT_EOK.                       *)
RetainsUntilCompletion == Tx!Spec
=============================================================================
