------------------------------- MODULE WlanRx -------------------------------
(***************************************************************************)
(* The receive data plane of wlan/wlh_rtt_wlan_rx.c.  The executor thread  *)
(* delivers Host Core's ETHERNET_STA_RX / ETHERNET_AP_RX events to         *)
(* wlh_rtt_wlan_rx_enqueue, which takes a block of the interface's own     *)
(* fixed pool, copies the frame into it and queues (interface, block).     *)
(* The wlh-rx thread takes the jobs in order, hands the block's contents   *)
(* to the RT-Thread WLAN device and returns the block to the pool.         *)
(*                                                                         *)
(* The two threads interleave between any two statements; only the pool    *)
(* mask is updated with interrupts disabled, so a take or a put is one     *)
(* step.  A frame is its arrival number together with the interface it     *)
(* came in on: the payload bytes and the length are abstracted.            *)
(***************************************************************************)
EXTENDS MessageQueue, Sequences, FiniteSets, Functions

CONSTANTS PoolSize,    \* WLH_RTT_HOST_RX_POOL_PER_INTERFACE
          MaxFrames    \* bound on the frames that arrive in a behaviour

ASSUME PoolAssumption == PoolSize \in 1..64
ASSUME MaxFramesAssumption == MaxFrames \in Nat

Interfaces == {"STA", "AP"}
Blocks == 0 .. PoolSize - 1
RxQueueDepth_one_pool == PoolSize
RxQueueDepth == PoolSize * 2
Jobs == [interface_id : Interfaces, block : Blocks]
Frames == [interface_id : Interfaces, seq : 1 .. MaxFrames]
NoFrame == [interface_id |-> "none", seq |-> 0]
Counters == {"pool_empty", "queue_full", "frames", "delivery_failed"}

VARIABLES
  rx_free_mask,  \* [Interfaces -> SUBSET Blocks]: the free blocks of each pool
  rx_storage,    \* [Interfaces -> [Blocks -> Frames or NoFrame]]
  rx_queue,      \* the shared message queue of jobs
  active,        \* [Interfaces -> BOOLEAN]: interface->active
  stats,         \* [Interfaces -> [Counters -> Nat]]
  producer,      \* the executor thread inside wlh_rtt_wlan_rx_enqueue
  worker,        \* the wlh-rx thread inside rx_main
  arrived,       \* number of frames that have arrived
  delivered,     \* [Interfaces -> Seq(Frames)]: what report_data was given
  lost           \* SUBSET Jobs: history of the jobs rx_main received and skipped

vars == <<rx_free_mask, rx_storage, rx_queue, active, stats, producer, worker,
          arrived, delivered, lost>>

-----------------------------------------------------------------------------
(* wlh_rtt_pool_initial_mask, wlh_rtt_pool_take and wlh_rtt_pool_put on the *)
(* set of indices whose bit is set.                                         *)
pool_initial_mask_short == Blocks \ {PoolSize - 1}

pool_initial_mask == Blocks

pool_take(mask, b) == b \in mask /\ \A c \in mask : b <= c

pool_put_next(mask, b) == mask \cup {b + 1}

pool_put(mask, b) == mask \cup {b}

Bump(i, c) == stats' = [stats EXCEPT ![i][c] = @ + 1]

-----------------------------------------------------------------------------
Init ==
  /\ rx_free_mask = [i \in Interfaces |-> pool_initial_mask]
  /\ rx_storage = [i \in Interfaces |-> [b \in Blocks |-> NoFrame]]
  /\ rx_queue = <<>>
  /\ active = [i \in Interfaces |-> FALSE]
  /\ stats = [i \in Interfaces |-> [c \in Counters |-> 0]]
  /\ producer = [pc |-> "idle", frame |-> NoFrame, block |-> 0]
  /\ worker = [pc |-> "recv", job |-> [interface_id |-> "STA", block |-> 0]]
  /\ arrived = 0
  /\ delivered = [i \in Interfaces |-> <<>>]
  /\ lost = {}

(* rx_enqueue up to and including allocate_block: a frame of a valid length *)
(* on interface i either takes the lowest free block or is counted and      *)
(* dropped.                                                                 *)
rx_enqueue_allocate(i) ==
  /\ producer.pc = "idle"
  /\ arrived < MaxFrames
  /\ arrived' = arrived + 1
  /\ \/ /\ rx_free_mask[i] = {}
        /\ Bump(i, "pool_empty")
        /\ UNCHANGED <<rx_free_mask, producer>>
     \/ /\ \E b \in Blocks :
             /\ pool_take(rx_free_mask[i], b)
             /\ rx_free_mask' = [rx_free_mask EXCEPT ![i] = @ \ {b}]
             /\ producer' = [pc |-> "copy", block |-> b,
                             frame |-> [interface_id |-> i, seq |-> arrived + 1]]
        /\ UNCHANGED stats
  /\ UNCHANGED <<rx_storage, rx_queue, active, worker, delivered, lost>>

(* rt_memcpy of the frame into the block.                                   *)
rx_enqueue_copy ==
  /\ producer.pc = "copy"
  /\ rx_storage' = [rx_storage EXCEPT
                      ![producer.frame.interface_id][producer.block] = producer.frame]
  /\ producer' = [producer EXCEPT !.pc = "send"]
  /\ UNCHANGED <<rx_free_mask, rx_queue, active, stats, worker, arrived, delivered, lost>>

(* rt_mq_send does not wait: on a full queue the block goes back.           *)
rx_enqueue_send ==
  /\ producer.pc = "send"
  /\ LET i == producer.frame.interface_id
         b == producer.block
     IN IF Len(rx_queue) < RxQueueDepth
        THEN /\ rx_queue' = Append(rx_queue, [interface_id |-> i, block |-> b])
             /\ UNCHANGED <<rx_free_mask, stats>>
        ELSE /\ Bump(i, "queue_full")
             /\ rx_free_mask' = [rx_free_mask EXCEPT ![i] = pool_put(@, b)]
             /\ UNCHANGED rx_queue
  /\ producer' = [producer EXCEPT !.pc = "idle"]
  /\ UNCHANGED <<rx_storage, active, worker, arrived, delivered, lost>>

rx_main_recv_free_first ==
  /\ worker.pc = "recv"
  /\ rx_queue # <<>>
  /\ rx_queue' = Tail(rx_queue)
  /\ \E result \in RecvResults :
       \/ /\ result = RT_EOK
          /\ worker' = [pc |-> "check", job |-> Head(rx_queue)]
          /\ rx_free_mask' = [rx_free_mask EXCEPT
                ![Head(rx_queue).interface_id] = pool_put(@, Head(rx_queue).block)]
          /\ UNCHANGED lost
       \/ /\ result # RT_EOK
          /\ lost' = lost \cup {Head(rx_queue)}
          /\ UNCHANGED <<worker, rx_free_mask>>
  /\ UNCHANGED <<rx_storage, active, stats, producer, arrived, delivered>>

(* rx_main: rt_mq_recv takes the oldest job, waiting while there is none.   *)
(* On any result but RT_EOK the loop continues without looking at the job,  *)
(* whose block is then in nobody's hands.                                   *)
rx_main_recv ==
  /\ worker.pc = "recv"
  /\ rx_queue # <<>>
  /\ rx_queue' = Tail(rx_queue)
  /\ \E result \in RecvResults :
       \/ /\ result = RT_EOK
          /\ worker' = [pc |-> "check", job |-> Head(rx_queue)]
          /\ UNCHANGED lost
       \/ /\ result # RT_EOK
          /\ lost' = lost \cup {Head(rx_queue)}
          /\ UNCHANGED worker
  /\ UNCHANGED <<rx_free_mask, rx_storage, active, stats, producer, arrived, delivered>>

rx_main_check_leak ==
  /\ worker.pc = "check"
  /\ LET i == worker.job.interface_id IN
       \/ /\ active[i]
          /\ worker' = [worker EXCEPT !.pc = "report"]
          /\ UNCHANGED stats
       \/ /\ ~active[i]
          /\ Bump(i, "delivery_failed")
          /\ worker' = [worker EXCEPT !.pc = "recv"]
  /\ UNCHANGED <<rx_free_mask, rx_storage, rx_queue, active, producer, arrived, delivered, lost>>

(* rx_main: the first operand of the delivery condition.  A frame for an    *)
(* interface that is not active is counted and its block freed.             *)
rx_main_check ==
  /\ worker.pc = "check"
  /\ LET i == worker.job.interface_id IN
       \/ /\ active[i]
          /\ worker' = [worker EXCEPT !.pc = "report"]
          /\ UNCHANGED stats
       \/ /\ ~active[i]
          /\ Bump(i, "delivery_failed")
          /\ worker' = [worker EXCEPT !.pc = "free"]
  /\ UNCHANGED <<rx_free_mask, rx_storage, rx_queue, active, producer, arrived, delivered, lost>>

(* rx_main: rt_wlan_dev_report_data reads the block; the device may refuse. *)
rx_main_report ==
  /\ worker.pc = "report"
  /\ LET i == worker.job.interface_id IN
       \/ /\ delivered' = [delivered EXCEPT ![i] =
                              Append(@, rx_storage[i][worker.job.block])]
          /\ Bump(i, "frames")
       \/ /\ Bump(i, "delivery_failed")
          /\ UNCHANGED delivered
  /\ worker' = [worker EXCEPT !.pc = "free"]
  /\ UNCHANGED <<rx_free_mask, rx_storage, rx_queue, active, producer, arrived, lost>>

(* rx_main: free_block.                                                     *)
rx_main_free ==
  /\ worker.pc = "free"
  /\ rx_free_mask' = [rx_free_mask EXCEPT
                        ![worker.job.interface_id] = pool_put(@, worker.job.block)]
  /\ worker' = [worker EXCEPT !.pc = "recv"]
  /\ UNCHANGED <<rx_storage, rx_queue, active, stats, producer, arrived, delivered, lost>>

(* interface->active is set by report_connected and cleared by              *)
(* report_disconnected and wlh_rtt_wlan_reset (module WlanControl).         *)
set_active(i) ==
  /\ active' = [active EXCEPT ![i] = ~@]
  /\ UNCHANGED <<rx_free_mask, rx_storage, rx_queue, stats, producer, worker,
                 arrived, delivered, lost>>

rx_enqueue == (\E i \in Interfaces : rx_enqueue_allocate(i))
                \/ rx_enqueue_copy \/ rx_enqueue_send

rx_main == rx_main_recv \/ rx_main_check \/ rx_main_report \/ rx_main_free

Next == rx_enqueue \/ rx_main \/ \E i \in Interfaces : set_active(i)

Spec == Init /\ [][Next]_vars

(* Both threads run whenever they can: neither waits for anything but its   *)
(* queue, and the executor finishes the callback it is in.                  *)
FairSpec == Spec /\ WF_vars(rx_main)
                 /\ WF_vars(rx_enqueue_copy \/ rx_enqueue_send)

-----------------------------------------------------------------------------
(* Where a block is when it is not in its pool.                             *)
ProducerHolds(i, b) ==
  producer.pc # "idle" /\ producer.frame.interface_id = i /\ producer.block = b

WorkerHolds(i, b) ==
  worker.pc # "recv" /\ worker.job = [interface_id |-> i, block |-> b]

Queued(i, b) == [interface_id |-> i, block |-> b] \in Range(rx_queue)

InFlight(i) ==
  {b \in Blocks : ProducerHolds(i, b) \/ WorkerHolds(i, b) \/ Queued(i, b)}

Lost(i) == {b \in Blocks : [interface_id |-> i, block |-> b] \in lost}

(* Every variable has its type, and a producer inside rx_enqueue has a frame. *)
TypeOK ==
  /\ rx_free_mask \in [Interfaces -> SUBSET Blocks]
  /\ rx_storage \in [Interfaces -> [Blocks -> Frames \cup {NoFrame}]]
  /\ rx_queue \in Seq(Jobs)
  /\ active \in [Interfaces -> BOOLEAN]
  /\ stats \in [Interfaces -> [Counters -> Nat]]
  /\ producer \in [pc : {"idle", "copy", "send"}, frame : Frames \cup {NoFrame},
                   block : Blocks]
  /\ producer.pc # "idle" => producer.frame \in Frames
  /\ worker \in [pc : {"recv", "check", "report", "free"}, job : Jobs]
  /\ arrived \in 0 .. MaxFrames
  /\ delivered \in [Interfaces -> Seq(Frames \cup {NoFrame})]
  /\ lost \subseteq Jobs

(* A block of the pool is in exactly one place at any time: the free mask,   *)
(* the executor inside rx_enqueue, one queued job, the wlh-rx thread, or     *)
(* among those rx_main received and skipped.  This is what lets rx_enqueue   *)
(* copy into a block, and rx_main read it, outside the interrupt lock that   *)
(* protects the mask; and a skipped job is the only way a block is lost.     *)
BlockOwnership ==
  /\ IsInjective(rx_queue)
  /\ \A i \in Interfaces, b \in Blocks :
       /\ b \in rx_free_mask[i] => b \notin InFlight(i) \cup Lost(i)
       /\ b \notin rx_free_mask[i] => b \in InFlight(i) \cup Lost(i)
       /\ ~(ProducerHolds(i, b) /\ WorkerHolds(i, b))
       /\ ~(Queued(i, b) /\ (ProducerHolds(i, b) \/ WorkerHolds(i, b)))
       /\ b \in Lost(i) => b \notin InFlight(i)

(* WLH_RTT_RX_QUEUE_DEPTH is the number of blocks of both pools, so the      *)
(* shared queue can hold every job that has a block: rt_mq_send never fails  *)
(* and neither interface can crowd the other out of the queue.               *)
QueueNeverFull ==
  /\ producer.pc = "send" => Len(rx_queue) < RxQueueDepth
  /\ \A i \in Interfaces : stats[i]["queue_full"] = 0

(* The frames given to a device arrived on its interface, and are given in   *)
(* the order in which they arrived, none twice and none overwritten while    *)
(* its job was queued.                                                       *)
DeliveryOrder ==
  \A i \in Interfaces : \A j \in 1 .. Len(delivered[i]) :
    /\ delivered[i][j].interface_id = i
    /\ \A k \in 1 .. j - 1 : delivered[i][k].seq < delivered[i][j].seq

(* A frame is dropped for want of a block only when its own interface has    *)
(* every one of its blocks in flight or skipped by rx_main: station pressure *)
(* cannot consume the AP's pool, nor the AP's the station's.                 *)
PoolIsolation ==
  [][\A i \in Interfaces :
       stats'[i]["pool_empty"] # stats[i]["pool_empty"]
         => InFlight(i) \cup Lost(i) = Blocks]_vars

(* Every block taken from a pool goes back to it, whatever the device and    *)
(* the interface's state do with the frame in it, unless rx_main skips its   *)
(* job.                                                                      *)
EveryBlockReturns ==
  \A i \in Interfaces, b \in Blocks :
    (b \notin rx_free_mask[i]) ~> (b \in rx_free_mask[i] \cup Lost(i))
=============================================================================
