# TLA+ models of the WL-hosted RT-Thread host (HPM6364)

This directory holds specifications of the repository's own core logic, the
TLC configurations that check them on small instances, and TLAPS proofs of the
properties that matter most. `PROJECT.json` is the index: which definition
models which lines, which run checks what, which hazards the properties are for.

Run from this directory:

    tlc -workers 2 -config WlanRx.cfg MCWlanRx
    tlapm WlanRx_proofs.tla

## 1. The system

The repository turns an HPM6364 board into a Wi-Fi host: an RT-Thread
application whose Wi-Fi is an ESP coprocessor on SDIO. Its own code is
`packages/wlh_rtt_host` (the host package), `bootloader/` (UF2 over USB mass
storage), `board/`, `applications/`, and patches to vendor drivers. Host Core,
the protocol engine, is a submodule (`core/`) that is not part of this
repository; everything else under `packages/` and `rt-thread/` is third-party.

### Threads

| thread | priority | what it runs |
|---|---|---|
| `wlh-sdio` worker | 9 | `worker_main`: drains RX then TX under `transport.lock` |
| `wlh-life` | 11 | `lifecycle_main`: `transport_start` / `transport_stop` for Core |
| `wlh-exec` | 12 | `executor_main`: Core's completions and events |
| `wlh-rx` | 13 | `rx_main`: received frames to the WLAN devices |
| shell | 20 | `wlh_reset` calls `wlh_rtt_host_recover`; `wifi ...` commands |
| `wlh-core` | 22 | Host Core |
| any | - | callers of the RT-Thread WLAN API, one per device (its mutex) |

A thread of higher priority preempts at any statement, and the shared fields
are mostly plain memory, so the models interleave statement by statement
wherever a decision on shared state is separated from its use.

### Components, their state, operations and what makes them correct

| component | state | operations | correct when |
|---|---|---|---|
| receive data plane (`wlan_rx.c`) | two pools of blocks (free masks), one queue of jobs, counters | `rx_enqueue` (executor), `rx_main` | a block has one owner; frames in order; one interface cannot starve the other |
| control plane (`request.c`, `wlan.c`, `wlan_event.c`) | one request per interface, four completion slots each, generation counter, `active` | device operations, Core's completions, scan and link events, reset | a completion ends only its own request; slots come back; scans end |
| SoftAP client table (`logic.c`, `wlan_event.c`) | `ap_client[]`, `ap_clients` | JOINED, LEFT, AP stopped, clear | one entry per client; the table is who is associated; the count is the table's |
| SDIO transport (`wlh_rtt_sdio.c`) | TX queue, two semaphores, lock, `running`, `generation`, token counter | worker, start, stop, submit, soft reset, probe, IRQ | each accepted frame completed exactly once, and written only in the session that took it; no lost wake-up; no overrun of the coprocessor |
| SDIO arithmetic (`sdio_protocol.c`) | none | lengths, addresses, tokens modulo powers of two | agree with the reference at wrap-around |
| host facade and lifecycle (`host.c`, `lifecycle.c`) | `started`, `recovering`, `wifi_initialized`, executor and lifecycle queues | init, start, stop, recover, READY handshake | recovery leaves nothing of the old session |
| iPerf2 | `running`, `cancel`, two descriptors | start, stop, session thread | stop ends the session; one session at a time |
| bootloader state (`main.c`, `bl_state.c`) | FlashDB keys `bl.fail_count`, `bl.force_bootloader`, PPOR flags | reset, stay or jump | five watchdog resets force UF2 once, and only once |
| UF2 storage (`bootuf2.c`, `msc_bootuf2.c`) | block bitmap, 4 KiB cache, flash | sector read and write, flush | done exactly when every block is in flash |
| FAL port | flash | read, unaligned write, erase | equals writes to a byte array |
| board, applications, drivers, tools, vendored code | registers, build products | - | not modelled (section 7) |

Components interact through calls (device operations into Core, Core into
submit), callbacks on the executor (completions, events), four message queues,
and shared memory that recovery writes from its caller's thread.

### What is hard here

Interleaving of unlocked state (requests, client table, transport fields),
events applied after a reset that should have discarded them, a worker that a
stop does not wait for, slots whose addresses live inside Core, cumulative
counters that wrap, bounded queues, results that are compared with the wrong
value, and failures that are not reported. `PROJECT.json` lists each hazard at its
line with the property that would catch it, or why there is none yet.

## 2. Modules

| module | models | proofs |
|---|---|---|
| `MessageQueue` | the results of `rt_mq_recv`, a parameter of the four modules that receive from a queue | with those |
| `WlanRx` | `wlan/wlh_rtt_wlan_rx.c`, the pool functions of `src/wlh_rtt_logic.c` | `WlanRx_proofs` |
| `WlanControl` | `src/wlh_rtt_request.c`, `wlan/wlh_rtt_wlan.c`, `wlan/wlh_rtt_wlan_event.c`, the control part of `wlh_rtt_host_recover` | `WlanControl_proofs` |
| `SdioTransport` | `transport/sdio/wlh_rtt_sdio.c`, `available_tokens`, the lifecycle thread | `SdioTransport_proofs` |
| `SdioWire` | the other functions of `transport/sdio/wlh_rtt_sdio_protocol.c` | `SdioWire_proofs` |
| `BoundedTx` | abstract: what the package promises of transport TX; `SdioTransport` implements it | `SdioTransport_proofs` |
| `ApClients` | `wlh_rtt_ap_client_update` / `_clear`, the AP events and reset | `ApClients_proofs` |
| `HostLifecycle` | `src/wlh_rtt_host.c`, the executor and the APSTA handshake of `src/wlh_rtt_lifecycle.c`; composes `Iperf2` | `HostLifecycle_proofs` |
| `Iperf2` | `iperf2/wlh_rtt_iperf2.c` | `HostLifecycle_proofs` |
| `BootState` | `bootloader/src/main.c` up to its decision, `bootloader/src/bl_state.c` | `BootState_proofs` |
| `FalPort` | erase and write of `bootloader/port/fal/fal_flash_port.c` | `Boot_proofs` |
| `Boot` | `bootloader/bootuf2/bootuf2.c`, `msc_bootuf2.c`, the loop of `main.c`; composes `BootState` and `FalPort` | `Boot_proofs` |

`MC...` modules extend the specification they check; the `.cfg` files give the
constants. Operators whose name is that of a definition with a suffix
(`pool_put_next`, `Matches_kind_only`, ...) are mutants: the definition as a
plausible bug would have it. They are used by no specification; substituting
one for its original must make the property it is listed with fail.

### MessageQueue: what rt_mq_recv returns

Five places of the package compare the result of `rt_mq_recv` with `RT_EOK`
(`wlh_rtt_wlan_rx.c:27`, `wlh_rtt_lifecycle.c:12` and `:28`, `wlh_rtt_sdio.c:193`
and `:291`). The kernel in this tree returns the length of the message
(`rt-thread/src/ipc.c:3784-3944`), so that a message which has been taken from the
queue is treated as a failure; kernels before 5.1, with which the package can be
built too (`SConstruct` takes the kernel from `RTT_ROOT`), return `RT_EOK`.
`packages/cherryusb/osal/usb_osal_rtthread.c:129-141` accepts both.

`RecvResults` is the set of results with which a message may be received. Each of
the five receivers chooses one per call and does what the code does with it:

| receiver | `RT_EOK` | anything else |
|---|---|---|
| `WlanRx!rx_main_recv` | delivers the job and frees its block | skips the job; the block stays taken (`lost`) |
| `HostLifecycle!executor_main` | runs the job | drops it (`executor_main_skip`, `skipped`) |
| `SdioTransport!lifecycle_main_recv` | starts or stops the transport | drops the request; its completion is never called |
| `SdioTransport!drain_tx_recv` | checks, writes and completes the frame | forgets it and leaves the burst (`lost`) |
| `SdioTransport!transport_stop_drain` | completes the frame and goes on | forgets it and leaves the rest queued (`lost`) |

`WlanControl` has the executor's jobs one by one, so there a drop is the loss of a
completion or an event (below). The passing runs use `{0, 8}`: every receive may
go either way, so what they show holds with a kernel of either kind. The theorems
hold for every set. What happens with `{length}` alone, the build of this tree, is
run `mq_recv` and the theorems `NothingDelivered`, `NeverStarts`,
`NeverInitialized` and `NeverServed`.

### WlanRx

`rx_free_mask` is the set of indices whose bit is set; `rx_storage`, `rx_queue`,
`active` and `stats` are the fields of the same name; `producer` is the executor
inside `wlh_rtt_wlan_rx_enqueue` and `worker` is `rx_main`. A take or put of the
mask is one step because the code disables interrupts; copy, send, receive,
check of `active`, delivery and free are steps of their own. A frame is its
interface and arrival number; lengths and bytes are carried, never compared.
`lost` is the history of the jobs that `rx_main` received and skipped.

### WlanControl

`request`, `completions`, `next_generation` and `active` are the code's.
`op[i]` is the thread inside a device operation of interface i, `ex` the
executor, `rs` the thread inside `wlh_rtt_host_recover`. Each critical section
of `host->lock` is one step. The unlocked parts are split: `wlan_scan_stop`
into check, finish and report; the event handlers into check or `active`,
finish and report; `wlh_rtt_wlan_reset` into read, clear and the two reports.
`link` is what RT-Thread was last told. External: `rpc` (accepted requests),
`scans` (scan ids the coprocessor will still complete), `peer`, `session`.
Core completes an accepted request exactly once, a timed-out scan may still
report completion, and a stopped Core fails what is outstanding and delivers no
events: this is what the package's callbacks rely on.

Each completion and event comes through the executor's queue and may be lost
there: `executor_post` fails on a full queue, and `executor_main` drops a job whose
receive did not return `RT_EOK`. `completion_lost`, `scan_event_lost` and
`link_event_lost` are these losses, of any job at any time; `lost` and `lost_scans`
record them. With a kernel that returns lengths the steps that serve a completion
or an event are disabled and only the losses are left.

### SdioTransport

The worker's program counter goes through `worker_main`, `drain_rx` (one turn
of the loop per outcome of `read_frame`), `drain_tx`, `wait_for_token` and
`write_frame`. `transport_start` and `transport_stop` are split at their
assignments to `generation` and `running`, which the worker reads without the
lock. `accepted`, `done` and `session` are history variables: the session
whose start accepted a frame, and how often it was completed. The refinement
into `BoundedTx` takes as held the frames in the queue and the one the worker
has in hand, and as completed those with a completion; the capacity is the
queue's depth plus the worker's one. Frames have a length
(`FrameLength`), which submit and `write_frame` check with the functions of
`SdioWire`; received lengths are the outcome of `read_frame`. The coprocessor
offers buffers with a cumulative counter (`offered`, `used`) and has packets
ready at any time. Core may be restarted by recovery, which resets the
coprocessor under the worker's lock, or by the public `wlh_rtt_host_stop` and
`_start`, which do not; `unreset` records that no reset came between the last stop
and start. `lost` is the set of frames that a receive took and forgot; `BoundedTx`
has a step for it that is enabled only where a receive may forget (`Forgets`).
`remove_card` is not an action: RT-Thread's MMC core never removes an SDIO card
and the only caller left is a failed `transport_create`.

### ApClients

`table` and `ap_clients` are the code's; `ex` is the executor between the
search, the entry's update and the store of the count; `rs` is the recovering
thread between the two writes of `wlh_rtt_ap_client_clear`. `on_air` is whose
last delivered event is JOINED.

### HostLifecycle and Iperf2

`initialized`, `started`, `recovering`, `wifi_initialized` and `recoveries` are
the host's fields; `call[c]` is where caller c is inside start, stop or recover.
`started` is read before the lock and `recovering` cleared without it, so these
are steps of their own. The executor runs one job of `executor_queue` at a time;
`host_event` is split between its reading of `wifi_initialized` and its submit.
`executor_main_skip` is a job received with a result other than `RT_EOK`.
`Iperf2` has the static state of the session, `threads[n]` for the n-th session
thread, `stopping[c]` for a caller inside stop, and the descriptors that are
open and shut down. Recovery enters stop and goes on when it has returned.
`wlh_rtt_wlan_reset` and `wlh_rtt_wlan_event`, called on the way, are modelled
in `WlanControl` and `ApClients` and touch no variable of this module.

Assumed of Host Core: a session becomes ready and posts STATE_CHANGED, or fails;
an accepted request is completed once, on the executor; `wlh_host_stop` returns
OK only after everything it posted has run, or gives up with an error. Assumed
of the application: start and stop are not called during a recovery (nothing in
the code excludes it), and iPerf2 is started only while `wifi_initialized` is
set, as there is no network before. `missed` records that a session's READY or
its initialisation was refused, failed, or lost in the full queue, `skipped` that
`executor_main` dropped a job of the handshake: what Core does then is not in this
repository.

### BootState, FalPort and Boot

`BootState` is one step per statement of `main.c` and `bl_state.c` that reads or
writes the PPOR flags or a key, with a reset of any cause between any two.
`crashes`, `hits` and `served` are history variables. FlashDB is taken to read back
what it stored. Its initialisation may fail and so may its writes, in two ways
(`Outcomes`): with an error, the value stored or not; or without one, because the
FAL port returns success for a failed program inside a page, which is what FlashDB
writes at `FDB_WRITE_GRAN` 1. Such a write leaves the old value or, the old entry
being marked as deleted already, none, which reads as 0; `lost` counts them.

`Boot` adds the UF2 mode. A sector write and an enumeration are single steps
because they run in the USB interrupt; main's flush is split into erase, program
and the clearing of `cached_bytes`, which the interrupt may come between.
Addresses count payloads of 256 bytes; flash pages hold a file's data, are blank,
or are bad (programmed over other data). `FalPort` supplies what an erase clears.
`disturbed` records what upset a download: a flash error, a block out of order,
an enumeration that met a filled cache, another file, or a bound exceeded; `torn` that an upset or
interrupted session flashed last. The code has no remedy for these, so
`StoredOrCached` and `AppIsWhole` are about the sessions without them; repeated
blocks, repeated copies and re-enumerations with an empty cache are not upsets.

A file may have any number of blocks. Three sizes bound it, and the code uses the
wrong one: the partition (`Pages`; FAL refuses a flush that leaves it),
`BOOTUF2_BLOCKSMAX` (from it on, no automatic reset), and `bootuf2_mask`
(`MaskBits`). `check_writable` and `state_update` test the block number against
`CONFIG_BOOTUF2_FLASHMAX`, a number of bytes (`BlockMax`). Bits from `MaskBits` on
are therefore set in what the linker put behind the mask: here they are members of
`mask` like the others, may be found set or not (`ignore_block`), and may hit the
sector cache (`Spoilt`).

## 3. Runs

| run | instance | states | shows |
|---|---|---|---|
| `rx` | 2 blocks per pool, 5 frames, receives of either result | 557,900 | ownership, order, isolation; every block returns unless its job was skipped |
| `control_sta` | station, 2 slots, 3 requests, generations modulo 5, losses | 105,684 | slots, generations and link against late and lost completions; slots come back, scans end |
| `control_recover` | both interfaces, 2 slots, 2 requests, 1 recovery, modulo 4, losses | 1,070,364 | no request ends another's while recovery clears requests without the lock |
| `sdio` | 3 frames, queue of 2, bursts 1/1, 1 buffer, tokens modulo 2, 2 starts, receives of either result | 791,290 | wake-ups, tokens, no stale frame; every frame completed or forgotten by a receive; implements `BoundedTx`; wire arithmetic |
| `ap_clients` | 4 clients, 3 entries, 1 recovery | 700,722 | no duplicates, table follows events |
| `boot` | limit 2, 3 resets, 1 FlashDB write that fails, files of 3 and 7 blocks, cache of 2, partition of 3, mask of 5 | 1,185,178 | crash loops end, force is earned and one-shot, only whole images start, the board resets itself only for one complete file, upgrades boot; FAL arithmetic |
| `host` | 2 callers, TCP and UDP server, 2 iPerf2 sessions, queue of 1, 2 Core sessions, receives of either result | 388,327 | recoveries exclude each other and end, APSTA belongs to the session, one iPerf2 session and its descriptors; READY leads to APSTA unless a job was lost, stop ends a session |
| `scan_cancel` | violation | | section 5 |
| `recover_links` | violation | | section 5 |
| `iperf_stop` | violation | | section 5 |
| `mq_recv` | violation; one caller, receives that return a length | | section 5 |
| `kv_silent` | violation; 4 resets, 1 FlashDB write that fails | | section 5 |

### Bounds and why they are enough

- Pools of 2 blocks with 5 frames: a pool is exhausted, a block is reused, and
  the queue holds jobs of both interfaces. The proofs lift the pool size.
- Two slots for the code's four: slots run out after two cancelled scans, and a
  third request then waits. `Init` starts the generation counter at 0 or two
  below its modulus, so that in half of the instances it wraps at the second
  request. `MaxRequests < GenMod - 1`
  says that a slot is not held while the counter goes all the way round, which
  in the code would take 2^32 requests during one RPC timeout, or after a
  completion was lost and its slot stayed taken for good.
- SDIO: three frames fill the queue of two while the worker holds one; with one
  buffer the token counter wraps at the second frame; the semaphore's limit equals
  the queue depth; two starts give a stop, with or without a soft reset, and a
  second session; the invalid streak reaches its limit in two passes.
- Receives that return `{0, 8}`: any number of messages, in any place, is dropped
  and the rest handled, which is more than any one kernel does.
- Losses in the control plane: any completion or event. The bound on requests
  bounds them too.
- SDIO arithmetic: a block of 4, frames of 3 to 14 and a counter modulo 32 in a
  word of 64 keep the ratios that matter (padding, a maximum that is not a
  multiple of the block, several wraps, all ones as an error) at every input.
- Boot: a limit of 2 with 3 resets reaches the limit, the forced session and one
  reset more; the proofs lift both. A file of 3 blocks with a cache and sectors of
  2 has a full flush and a partial one, in the second sector. The file of 7 blocks
  leaves the partition (3), reaches `BOOTUF2_BLOCKSMAX` (4), sets a bit behind the
  mask (5) and is refused at `block_max` (6); it is also the other file of an upset
  session. The computer may skip one block at a time (`MaxSkip`), which is enough to
  have a hole. One disturbance per session is enough to leave the undisturbed case;
  exceeding a bound does not count as one. `kv_silent` has a fourth reset, so that
  two crashes can follow the write that is lost.
- FAL: offsets and sizes below 10 with pages of 4, sectors of 2 and blocks of 4
  cover heads, tails, and ranges with and without block erases.
- Host: an executor queue of 1 is full whenever anything is queued, so every post
  is lost in some behaviour. Two Core sessions give a recovery, or a stop and a
  start, from the first into the second, and two callers contend for it. TCP
  server is the role with two descriptors and a blocking accept, UDP server the one
  that goes on after an error; the client roles have fewer states of the same kinds.
  Two iPerf2 sessions let a start meet the end of the session before.
- One client more than the table holds: it overflows, and freed entries precede
  occupied ones.
- `CHECK_DEADLOCK FALSE` where the bounds on requests, starts or recoveries stop
  the system, and after a failed recovery, which ends in the board's reset.

### Fairness

- `rx`: weak fairness of `rx_main` and of the executor once inside
  `rx_enqueue`; neither waits for anything but its queue.
- `control_sta`: weak fairness of a thread inside a function. Strong fairness, once
  for Core's completions and once for the scan completion events, of being run *or
  lost*: Core completes or times out each request (`rpc_timeout_ms`) and posts its
  jobs to one FIFO from which the executor takes every job, so none is passed over
  although the executor is busy with others in between. That a job is run and not
  lost is not assumed; `SlotsComeBack` and `EveryScanEnds` except the slot or scan
  whose own job was lost, and no other. That every accepted scan does complete on
  the coprocessor is an assumption on it.
- `sdio`: weak fairness of the worker, the lifecycle thread and the submitter
  that still owes its wake-up. None for the coprocessor: tokens may never come.
- `boot`: weak fairness of main's steps before and in UF2 mode; main runs whenever
  no interrupt does. None for resets, for USB or for the computer.
- `host`, `iperf_stop`: weak fairness of a thread inside a call, of the executor,
  of Core's answers (bounded by `rpc_timeout_ms` and `stop_timeout_ms`) and of the
  session thread where it cannot wait for its peer. None for a TCP accept, send or
  receive on a descriptor that was not shut down, and none for new calls.

## 4. Proofs

Checked by tlapm for every value of the constants that the named assumptions
allow: `PoolAssumption`, `MaxFramesAssumption`, `ControlAssumption`,
`WireAssumption`, `SdioAssumption`, `ClientsAssumption`, `IperfAssumption`,
`HostAssumption`, `RecvAssumption`, `BootAssumption`, `Uf2Assumption`. They say that sizes and
limits are numbers that fit together (a block is a number of sectors, the token
counter has more values than there are buffers, ...); TLC evaluates each of them
in the runs. Every safety property of a passing run, invariant or action
property, and the refinement of `BoundedTx` are stated by a theorem. `RecvAssumption`
of `MessageQueue` says only that there is a result: the theorems hold for a kernel
of either convention.

### Receive and control plane

| theorem | statement | argument |
|---|---|---|
| `WlanRx_proofs!TypeCorrect` | `Spec => []TypeOK` | inductive as it stands, one step per action |
| `WlanRx_proofs!OwnershipCorrect` | `Spec => []BlockOwnership` | inductive together with `TypeOK`. It says both that a busy block has a holder, or is one of the skipped jobs', and that these exclude each other; the queue's injectivity is the part that makes the receive step go through |
| `WlanRx_proofs!QueueCorrect` | `Spec => []QueueNeverFull` | by ownership the queue is an injective sequence of jobs and the producer's job is not in it; there are 2 * PoolSize jobs (`JobsCount`), so `QueueHasRoom` |
| `WlanRx_proofs!IsolationCorrect` | `Spec => PoolIsolation` | an empty mask means, by ownership, that every block of that interface is in flight or was skipped |
| `WlanRx_proofs!DeliveryCorrect` | `Spec => []DeliveryOrder` | `LineInv`: delivered frames, the one in the worker's hands, the queue and the one being copied stand in one line by arrival number. Ownership keeps a copy from reaching a block whose job is in the line; a skipped job leaves the line |
| `WlanRx_proofs!NothingDelivered` | `ReturnsLength /\ Spec => [](nothing delivered)` | `rx_main` never leaves its receive |
| `WlanControl_proofs!TypeCorrect` | `Spec => []TypeOK` | inductive; `NextGenerationType` for the wrap |
| `WlanControl_proofs!SlotsCorrect` | `Spec => []SlotOwnership` | inductive with `TypeOK`, in `SlotStep`: begin takes a slot nobody holds; submit moves it from the thread to Core; abort and completion free it; a lost completion keeps it, with `lost` as its holder (`LossStep`). Recovery clears requests and never touches a slot, which is why it cannot break this |
| `WlanControl_proofs!GenerationsCorrect` | `Spec => []GenerationsDistinct` | inductive with `AgeInv`: a generation in use is younger than the counter's first value, and a new request makes each one older (`OneOlder`). `ControlAssumption` (`MaxRequests < GenMod - 1`) keeps the counter from going all the way round, see the bounds in section 3 |
| `WlanControl_proofs!OwnGenerationCorrect` | `Spec => OwnGenerationOnly` | from `SlotOwnership`: Core's completion and the thread's abort name a slot that carries the generation it was submitted with, and `Matches` compares it before the request ends. A request in between, or a recovery, changes the generation and not the slot |
| `WlanControl_proofs!LinkUpCorrect` | `Spec => [](resets = 0 => LinkUpImpliesActive)` | `LinkInv`. The hypothesis is the code's: run `recover_links` has the counterexample of a recovery |
| `WlanControl_proofs!NeverServed` | `ReturnsLength /\ Spec => []Unserved /\ [][rpc \ rpc' \subseteq lost']_vars` | no handler begins, so no interface becomes active and every answer of Core's is lost with its slot |

### SDIO transport and client table

| theorem | statement | argument |
|---|---|---|
| `SdioWire_proofs!WireCorrect` | `AllTransfersAgree /\ LengthsAgree` | arithmetic of quotient and remainder, for every block size, frame limit and counter width |
| `SdioTransport_proofs!WakeCorrect` | `Spec => []WakeCoversQueue` | `WakeInv`: while the transport runs and nothing was forgotten the queue is no longer than the credit, which is the semaphore's count, the wake-up that submit still owes and a pass of the worker that has not sent anything yet. The semaphore's limit loses a release only when its count already covers the queue |
| `SdioTransport_proofs!TxRefinement` | `Spec => RetainsUntilCompletion` | step simulation of `BoundedTx` from `TxInv`: ids in the queue are distinct, the worker's frame is not among them, and a frame is accepted exactly when it is held, completed or lost. The two receives are case splits of their own (`TxRecvCases`, `DrainCases`) |
| `SdioTransport_proofs!NoOverrunCorrect` | `Spec => []NoBufferOverrun` | `FreshInv` and `TokenInv`: unless `unreset`, tokens the host may still take, buffers filled and the write in progress never exceed the coprocessor's buffers, modulo the counter |
| `SdioTransport_proofs!TypeCorrect` | `Spec => []TypeOK` | the types include that no frame completes twice, so they follow from `TxInv` with the shape of the state (`BaseInv`) |
| `SdioTransport_proofs!NoStaleCorrect` | `Spec => NoStaleFrameOnBus` | `TagInv`: a frame that carries the current generation was accepted in this session, and, unless `unreset`, one that passed the check still was: with the reset a session begins only when the worker has nothing in hand (`FreshInv`) |
| `SdioTransport_proofs!WireMatchesCorrect` | `Spec => []WireMatchesReference` | `WireCorrect`, and `Accepted`: submit has refused what `padded_size` cannot send |
| `SdioTransport_proofs!NeverStarts` | `ReturnsLength /\ Spec => [](~running, nothing accepted)` | the lifecycle thread never leaves its receive for `transport_start` |
| `ApClients_proofs!TypeCorrect` | `Spec => []TypeOK` | inductive as it stands; the count does not go below zero because the code tests it |
| `ApClients_proofs!NoDuplicateCorrect` | `Spec => []NoDuplicateClient` | `Reserved`: between the search and the write of a join no entry but the one found can be an active entry of the client; a recovery in between only clears |
| `ApClients_proofs!FollowsCorrect` | `Spec => []TableFollowsEvents` | `FollowInv`: until an overflow or a reset the table is complete between two events, one client behind while the entry is being written, and only the count is behind before its store |

`unreset` stands in `NoBufferOverrun` and `NoStaleFrameOnBus` themselves, not in an
assumption: every restart is part of `Spec`. It is needed. After a stop and start
without a reset an old frame that passed the generation check is written in the new
session, and takes a buffer that the restarted host no longer counts (section 5).

### Host and iPerf2

The invariant has three layers, each used by the next. `SessionInv`: the static
iPerf2 state belongs to the one busy thread, whose program counter says which
descriptors it holds. `RecoverInv`: the types and who may be inside the facade
together. `ApstaInv`: a Core that is down has nothing posted or outstanding.

| theorem | statement | argument |
|---|---|---|
| `HostLifecycle_proofs!SessionOwnsCorrect` | `Spec => []SessionOwnsState` | `SessionInv`: `running` is set before the thread is made and cleared after it has closed what it opened |
| `HostLifecycle_proofs!TypeCorrect` | `Spec => []TypeOK` | `RecoverInv`; the number of recoveries is bounded by the sessions that Core began |
| `HostLifecycle_proofs!RecoverExclusiveCorrect` | `Spec => []RecoverExclusive` | `RecoverInv`: `recovering` is tested and set in one step and cleared by its setter |
| `HostLifecycle_proofs!ApstaCorrect` | `Spec => []ApstaFollowsSession` | `ApstaInv`: Core goes down only when all it posted has run, and the flag is cleared between that and the next session. A lost or skipped job only takes something away |
| `HostLifecycle_proofs!NeverInitialized` | `ReturnsLength /\ Spec => [](~wifi_initialized /\ ~request /\ apsta = 0)` | the executor never leaves its receive |

### Bootloader

The boot decision is proved on `BootState` and carried to `Boot` (`BootRefines`).
The download has four layers: `Uf2Type`; `Complete`, what `STATE->NumberOfBlock`
says of the blocks that were counted, in every session; `Undisturbed`, where every
block of a session that nothing upset is (`Counting`, `Caching`, `Flushing`); and
`Flashed`, what the flash holds between sessions. TLC checked the last two as
invariants of the boot instance before they were proved.

| theorem | statement | argument |
|---|---|---|
| `BootState_proofs!BlTypeCorrect` | `BlSpec => []BlTypeOK` | inductive with crashes and hits bounded by the resets |
| `BootState_proofs!CrashLoopsStop` | `BlSpec => []CrashLoopStops` | from `BlInv`. The property alone is not inductive: the crash has to be followed from the PPOR flags to main's local to the stored count. `CountsCrashes` says the count is at most one behind, and `FailLimit` for each write that was lost without a report (`Slack`), and that the pending cause makes up for it |
| `BootState_proofs!ForceIsEarned` | `BlSpec => NoFalseForce` | `CountsOnlyHits`: the count is never ahead of the watchdog resets, although the flags are cleared before it is stored |
| `BootState_proofs!ForceServedOnce` | `BlSpec => ForceIsOneShot` | `ForceServed`: after a forced session the flag stays clear until a watchdog cause is pending or a FlashDB write failed |
| `Boot_proofs!BootStopsCrashLoops` | `Spec => []CrashLoopStops` | `BootRefines` and `CrashLoopsStop` |
| `Boot_proofs!EraseExact` | `erase` of any range clears whole sectors, as many as the size needs, from the one that holds the offset | the loop from any number of sectors left, for every geometry in which a block is a number of sectors |
| `Boot_proofs!WriteExact` | the ROM calls of `write` cover the range in order and stay within pages | the head ends its page (or the range); from there every chunk starts on a multiple of the chunk (`LoopPrograms`) |
| `Boot_proofs!WriteResultExact` | `write` reports success although calls failed iff only the first did and the range starts inside a page | the definition, for every range and page size: the code's defect, stated exactly |
| `Boot_proofs!TypeCorrect` | `Spec => []TypeOK` | `Uf2Type` and `BlTypeCorrect`; nothing bounds the length of a file, and the bits that may be set end at `block_max`, not at the mask |
| `Boot_proofs!ResetCorrect` | `Spec => ResetsOnlyWhenComplete` | `Complete`: a number other than 0 and 0xffffffff is the only one that was counted, and the mask has no bit beyond it; as many bits as that are all of them |
| `Boot_proofs!StoredCorrect` | `Spec => []StoredOrCached` | `Undisturbed`: the cache starts on a sector, as it is a number of sectors and blocks come in order, so by `EraseOnSector` a flush erases nothing before it |
| `Boot_proofs!PortCorrect` | `Spec => []FlashPortMatchesReference` | `Undisturbed` for the offset of the flush, `EraseExact`, `WriteExact` and `WriteResultExact` for the rest |
| `Boot_proofs!AppCorrect` | `Spec => []AppIsWhole` | `Flashed` with `Undisturbed`: the soft reset comes after the flush of the last block |

Two things about the loops of `FalPort`, which are recursive functions. That a
recursion has a solution at all is proved, from a least fixed point
(`UnionRecursion`) and from the partial solutions on initial segments
(`Recursion`). Inductions go by the least counterexample (`Least`), because the
library's induction rules take a predicate as a parameter.

Only model-checked: the liveness properties (`EveryBlockReturns`, `SlotsComeBack`,
`EveryScanEnds`, `EveryFrameCompleted`, `UpgradeBoots`, `ReadyGetsApsta`,
`RecoverEnds`, `StopEndsSession`). They need fairness and ENABLED, which are outside
the prover's reach.

## 5. Where the code and its documents disagree

Each of the first five is a run that TLC ends with a counterexample.

- `scan_cancel`: the package README says a cancelled scan cannot complete a new
  scan. `report_scan_complete` compares the scan id without the lock and then
  calls `wlh_rtt_request_finish`, which looks at the kind only. Cancel and
  rescan between the two, and the old event ends the new scan.
- `recover_links`: recovery is said to take `w0` and `w1` down, but
  `wlh_rtt_wlan_reset` runs before `wlh_host_stop`. A CONNECTED event handled in
  between leaves the interface active and up in the new session. The same window
  lets a scan be accepted and lost with its session, leaving its request active
  with nothing to end it, and lets a late JOINED put a client back into the table.
- `mq_recv`: recovery is said to rebuild the session and to initialise APSTA again,
  and Host Core to initialise Wi-Fi with both interfaces. With the kernel of this
  tree `rt_mq_recv` returns the length of the message, `executor_main` takes it for
  a failure and drops every job, so no session is ever initialised. The four other
  receivers make the same comparison: no transport start is carried out
  (`NeverStarts`), no frame delivered (`NothingDelivered`), no completion served
  (`NeverServed`). With a kernel that returns `RT_EOK` all of these work; the
  package needs `>= 0` or `> 0` there, as `usb_osal_rtthread.c` has it.
- `kv_silent`: five watchdog resets in a row are said to force UF2 mode, and `write`
  of the FAL port to return the "actual size of written data or error code". Its
  `write_size` is unsigned, so that `write_size < 0` never holds and a failed
  program inside the first page is returned as success. FlashDB writes such ranges;
  `bl_state_update_for_reset` then goes on with a count that was not stored, and
  the application is started after the limit. `CrashLoopStops` says by how much at
  most; `WriteResultExact` says exactly which errors `write` hides.
- `iperf_stop`: recovery is said to stop iPerf2. A stop that comes between
  `wlh_rtt_iperf2_start` and the session thread's `socket()` finds no descriptor
  to shut down; `tcp_server` looks at `cancel` only after `accept`, so it waits for
  a peer that may never come, and `running` refuses every later session. For the
  other roles, and once a descriptor was there, stop does end the session
  (`StopEndsSession` in run `host`).

Seen while modelling, without a run of their own:

- `bootloader/README.md:50-51` says that the jump to the application is disabled
  by default (`BL_ENABLE_APP_JUMP=0`) and the comment in `jump_to_app`
  (`main.c:77-78`) "disabled by default at build time". No such switch exists:
  `main` jumps whenever it does not stay in UF2 mode. The models follow the code;
  `UpgradeBoots` is a statement about it and contradicts those two lines.
- `block_max` is a number of bytes (`bootuf2.c:495`, `:497`) where the tests at
  `:167` and `:195` want a number of blocks, so a file with more blocks than
  `bootuf2_mask` has bits sets bits behind it. Partition and `FLASHMAX` are both
  0x360000, so only files that `uf2_pack.py` would not make get there. A file it
  does make, of an image that fills the partition, has exactly `BOOTUF2_BLOCKSMAX`
  blocks: it is flashed completely and, by `>=` at `:185`, never resets the board.
  `ResetsOnlyWhenComplete` has that bound, and `UpgradeBoots` begins below it.
- `erase` of the FAL port rounds up its size and not its offset. A range that
  starts inside a sector may end in one that was not erased (`PortAgrees`). The
  flushes of an undisturbed download start on a sector.
- Generation tags are said to reject callbacks of a prior transport instance. For
  callbacks they do; but the tag of a frame is compared before a token wait of up
  to 200 ms, and `transport_stop` does not wait for the worker, so after a public
  stop and start an old frame can still be written to the bus in the new session.
  The soft reset of recovery, which takes the worker's lock, prevents it.
- The AP branch of `report_disconnected` zeroes `ap_clients` and leaves the entries
  of `ap_client[]` active, so `wlh_rtt_host_get_stats` can return a count of 0 with
  active entries. `tests/test_logic.c:91` keeps the two in step, but after
  `wlh_rtt_ap_client_clear`, which does clear both.

## 6. Plan

The parts of section 1 that carry state are modelled, and what the runs check of
their safety is proved. Left, in this order:

1. The safety half of the liveness arguments, as proved invariants: that the
   worker never sleeps with room to work, and that a stuck slot or scan can only
   be one that Core still holds.
2. The hazards in `PROJECT.json` that no property covers: start and stop of the
   host beside a recovery, and the scan that Core accepts inside the window of
   `recover_links`.

## 7. Not modelled

- Host Core and the coprocessor firmware: not in the repository; they appear as
  external actions, with the assumptions stated above.
- A start or stop of the host during a recovery, and a session that Core loses and
  re-establishes by itself: see the assumptions under HostLifecycle.
- The read side of the UF2 disk (a FAT image made from constants), the iPerf2 UDP
  headers and reports, FAL `read` and `init`: pure or read-only.
  `bl_state_clear_after_update` has no caller.
- Argument checks of the device operations, security conversion, getters,
  statistics copies, `wlan_send`, and the failure paths of initialisation: pure
  or straight-line; a refused argument changes no state.
- Payloads, protobuf decoding and logging: no property depends on them.
- Board set-up, pin multiplexing, vendor peripheral drivers, the partition table
  generator and the packing tools: register access or build products.
- RT-Thread and the vendored packages: third-party; semaphores, mutexes and
  the WLAN device lock are the primitives of the models, queues are sequences with
  a bound, and what a receive returns is `MessageQueue`. FlashDB's log structure is
  not modelled: `Stored` says what a key may hold after a write.
