------------------------ MODULE HostLifecycle_proofs ------------------------
(***************************************************************************)
(* Proofs about HostLifecycle and the iPerf2 session composed into it.     *)
(*                                                                         *)
(* The inductive invariant has three layers, each using the ones before:   *)
(*                                                                         *)
(*   SessionInv   the static state of Iperf2 belongs to the one busy       *)
(*                thread, which holds the descriptors it opened;           *)
(*   RecoverInv   the types, and who may be inside the facade together;    *)
(*   ApstaInv     a Core that is down has nothing posted or outstanding,   *)
(*                so no completion of one session reaches the next.        *)
(***************************************************************************)
EXTENDS HostLifecycle, SequenceTheorems, TLAPS


-----------------------------------------------------------------------------
(* SessionInv.                                                              *)
Exclusive ==
  \A n \in Sessions : Busy(n) =>
    running /\ shell = "idle" /\ \A m \in Sessions \ {n} : ~Busy(m)

AboutToRun == shell = "create" => running

(* What the thread has opened and not yet closed.                           *)
Held ==
  /\ socket_fd # NoFd =>
       \E n \in Sessions :
         /\ socket_fd = Fd("socket", n)
         /\ threads[n] \in {"connect", "bind", "accept", "loop", "transfer", "close_data",
                            "close_socket"}
  /\ data_fd # NoFd =>
       \E n \in Sessions :
         /\ data_fd = Fd("data", n)
         /\ threads[n] \in {"loop", "transfer", "close_data"}

NoneLost == open = {socket_fd, data_fd} \ {NoFd}

SessionInv == IperfTypeOK /\ Exclusive /\ AboutToRun /\ Held /\ NoneLost

-----------------------------------------------------------------------------
(* RecoverInv.                                                              *)
ShellOnly == {"start_clear", "start_core", "start_done", "stop_core"}

HostTypeOK ==
  /\ {initialized, started, recovering, wifi_initialized, request, missed, skipped}
       \subseteq BOOLEAN
  /\ call \in [Callers -> Body \cup {"idle", "start_clear", "start_core", "start_done",
                                     "stop_core", "recover"}]
  /\ result \in [Callers -> {"RT_EOK", "error"}]
  /\ executor_queue \in Seq({"READY", "other", "ok", "failed"})
  /\ Len(executor_queue) <= ExecutorDepth
  /\ executor \in {"idle", "submit"}
  /\ core \in {"down", "starting", "ready", "stopping", "failed"}
  /\ session \in CoreSessions /\ apsta \in CoreSessions

(* Nobody is inside the facade before it is initialised.                    *)
CallsAreLate ==
  /\ started => initialized
  /\ \A c \in Callers : call[c] # "idle" => initialized

(* A recovery that began a session has not been counted before it leaves.   *)
Counted ==
  /\ recoveries \in 0 .. session
  /\ \A c \in Callers : call[c] = "leave" /\ result[c] = "RT_EOK" => recoveries < session

RecoverInv == HostTypeOK /\ CallsAreLate /\ RecoverExclusive /\ Counted

-----------------------------------------------------------------------------
(* ApstaInv.                                                                *)
DownIsQuiet == core = "down" => executor_queue = <<>> /\ executor = "idle" /\ ~request

OkIsFresh == \A i \in 1 .. Len(executor_queue) : executor_queue[i] = "ok" => apsta = session

UpIsFresh == wifi_initialized /\ core \in {"starting", "ready"} => apsta = session

(* Start and stop run alone, and a host that is not started has no session. *)
StartStop ==
  /\ \A c \in Callers : call[c] \in ShellOnly =>
       c = Shell /\ \A d \in Callers \ {c} : call[d] = "idle"
  /\ \A c \in Callers : call[c] \in Body \cup {"recover", "stop_core"} => started
  /\ ~started => core = "down" \/ call[Shell] = "start_done"
  /\ call[Shell] \in {"start_clear", "start_core"} => core = "down"
  /\ call[Shell] = "start_core" => ~wifi_initialized

(* A recovery that stopped Core keeps it down until it starts it.           *)
Rebuild ==
  \A c \in Callers :
    /\ call[c] = "reset" => core = "down"
    /\ call[c] \in {"clear", "start"} /\ result[c] = "RT_EOK" => core = "down"
    /\ call[c] = "start" /\ result[c] = "RT_EOK" => ~wifi_initialized

ApstaInv == DownIsQuiet /\ OkIsFresh /\ UpIsFresh /\ StartStop /\ Rebuild

-----------------------------------------------------------------------------
(* The layers are invariant one after the other.                            *)
PCs == {"none", "open", "connect", "bind", "accept", "loop", "transfer", "close_data",
        "close_socket", "end", "gone"}

(* wlh_rtt_iperf2_start takes the state only from nobody.                    *)
LEMMA StartSession ==
  ASSUME SessionInv, iperf2_start
  PROVE  SessionInv'
<1> USE IperfAssumption DEF SessionInv
<1>1. CASE start_check
  <2>1. IperfTypeOK' /\ AboutToRun' /\ NoneLost'
    BY <1>1 DEF start_check, IperfTypeOK, AboutToRun, NoneLost, state
  <2>2. Held' /\ Exclusive'
    BY <1>1 DEF start_check, state, Held, Exclusive, Busy
  <2> QED
    BY <2>1, <2>2
<1>2. CASE start_clear
  <2>1. \A n \in Sessions : ~Busy(n)
    BY <1>2 DEF start_clear, Exclusive
  <2>2. socket_fd = NoFd /\ data_fd = NoFd
    BY <2>1 DEF Held, Busy
  <2>3. IperfTypeOK' /\ AboutToRun' /\ Held' /\ NoneLost'
    BY <1>2, <2>2 DEF start_clear, IperfTypeOK, AboutToRun, Held, NoneLost
  <2>4. Exclusive'
    BY <1>2, <2>1 DEF start_clear, Exclusive, Busy
  <2> QED
    BY <2>3, <2>4
<1>3. CASE start_run
  <2>1. \A n \in Sessions : ~Busy(n)
    BY <1>3 DEF start_run, Exclusive
  <2>2. IperfTypeOK' /\ AboutToRun' /\ Held' /\ NoneLost'
    BY <1>3 DEF start_run, IperfTypeOK, AboutToRun, Held, NoneLost
  <2>3. Exclusive'
    BY <1>3, <2>1 DEF start_run, Exclusive, Busy
  <2> QED
    BY <2>2, <2>3
<1>4. ASSUME NEW ok \in BOOLEAN, start_create(ok)
      PROVE  SessionInv'
  <2>1. \A n \in Sessions : ~Busy(n)
    BY <1>4 DEF start_create, Exclusive
  <2>2. socket_fd = NoFd /\ data_fd = NoFd
    BY <2>1 DEF Held, Busy
  <2>3. \A n \in Sessions : threads'[n] = threads[n] \/ (ok /\ n = Started + 1)
    BY <1>4 DEF start_create, ThreadTo, IperfTypeOK
  <2>4. threads' \in [Sessions -> PCs]
    <3> HIDE DEF Started
    <3> QED
      BY <1>4 DEF start_create, ThreadTo, IperfTypeOK, PCs
  <2>5. running' \in BOOLEAN /\ (ok => running')
    BY <1>4 DEF start_create, AboutToRun, IperfTypeOK
  <2>6. shell' = "idle" /\ UNCHANGED <<cancel, socket_fd, data_fd, role, open, shut, stopping>>
    BY <1>4 DEF start_create
  <2>7. IperfTypeOK'
    BY <2>4, <2>5, <2>6 DEF IperfTypeOK, PCs
  <2>8. AboutToRun' /\ Held' /\ NoneLost'
    BY <2>2, <2>6 DEF AboutToRun, Held, NoneLost
  <2>9. Exclusive'
    <3>1. \A n \in Sessions : Busy(n)' => ok /\ n = Started + 1
      BY <2>1, <2>3 DEF Busy
    <3> HIDE DEF Started
    <3> QED
      BY <3>1, <2>5, <2>6 DEF Exclusive
  <2> QED
    BY <2>7, <2>8, <2>9
<1> QED
  BY <1>1, <1>2, <1>3, <1>4 DEF iperf2_start

(* wlh_rtt_iperf2_stop, by whichever caller, takes nothing from the session. *)
LEMMA StopSession ==
  ASSUME SessionInv, NEW c \in Callers, iperf2_stop(c)
  PROVE  SessionInv'
<1>1. /\ UNCHANGED <<running, socket_fd, data_fd, role, threads, open, shell>>
      /\ cancel' \in BOOLEAN /\ shut' \subseteq open
      /\ stopping' \in [Callers -> {"idle", "check", "cancel", "data", "socket"}]
  BY DEF SessionInv, IperfTypeOK, iperf2_stop, stop_check, stop_cancel, stop_data,
     stop_socket,
         StopTo, ShutDown, state
<1>2. IperfTypeOK'
  BY <1>1 DEF SessionInv, IperfTypeOK
<1>3. Exclusive' /\ Held'
  BY <1>1 DEF SessionInv, Exclusive, Held, Busy
<1>4. AboutToRun' /\ NoneLost'
  BY <1>1 DEF SessionInv, AboutToRun, NoneLost
<1> QED
  BY <1>2, <1>3, <1>4 DEF SessionInv

(* What a step of thread n does to the program counters.                     *)
LEMMA ThreadMoves ==
  ASSUME SessionInv, NEW n \in Sessions, Busy(n), NEW pc \in PCs, ThreadTo(n, pc)
  PROVE  /\ threads' \in [Sessions -> PCs]
         /\ threads'[n] = pc
         /\ \A m \in Sessions \ {n} : threads'[m] = threads[m] /\ ~Busy(m)
<1>1. threads \in [Sessions -> PCs]
  BY DEF SessionInv, IperfTypeOK, PCs
<1>2. \A m \in Sessions \ {n} : ~Busy(m)
  BY DEF SessionInv, Exclusive
<1> QED
  BY <1>1, <1>2 DEF ThreadTo

(* The descriptors of thread n when it is at pc.                             *)
Own(n, pc) ==
  /\ socket_fd \in Descriptors \cup {NoFd} /\ data_fd \in Descriptors \cup {NoFd}
  /\ open \in SUBSET Descriptors /\ shut \subseteq open
  /\ socket_fd # NoFd =>
       /\ socket_fd = Fd("socket", n)
       /\ pc \in {"connect", "bind", "accept", "loop", "transfer", "close_data", "close_socket"}
  /\ data_fd # NoFd => data_fd = Fd("data", n) /\ pc \in {"loop", "transfer", "close_data"}
  /\ NoneLost

(* The session's thread opens, uses and closes its own descriptors.          *)
LEMMA ThreadSession ==
  ASSUME SessionInv, NEW n \in Sessions, session_step(n)
  PROVE  SessionInv'
<1>1. PICK pc \in PCs \ {"none"} : ThreadTo(n, pc)
  BY DEF session_step, session_own, session_open, session_connect, session_accept,
         session_loop, session_transfer, session_close_data, session_close_socket,
         session_end, PCs
<1>2. Busy(n) /\ running /\ shell = "idle"
  BY DEF session_step, session_own, session_open, session_connect, session_accept,
         session_loop, session_transfer, session_close_data, session_close_socket,
         session_end, Busy, SessionInv, Exclusive
<1>3. /\ threads' \in [Sessions -> PCs]
      /\ threads'[n] = pc
      /\ \A m \in Sessions \ {n} : threads'[m] = threads[m] /\ ~Busy(m)
  BY <1>1, <1>2, ThreadMoves
<1>4. UNCHANGED <<cancel, role, shell, stopping>>
  BY DEF session_step, session_own, session_open, session_connect, session_accept,
         session_loop, session_transfer, session_close_data, session_close_socket,
         session_end, state
<1>5. running' \in BOOLEAN /\ (~running' => pc = "gone")
  BY <1>1, <1>2, <1>3 DEF session_step, session_own, session_open, session_connect,
         session_accept, session_loop, session_transfer, session_close_data,
         session_close_socket, session_end, state, SessionInv, IperfTypeOK, ThreadTo
<1>6. Own(n, threads[n])
  BY <1>3 DEF SessionInv, Held, Busy, IperfTypeOK, Own
<1>7. Exclusive' /\ AboutToRun'
  BY <1>2, <1>3, <1>4, <1>5 DEF SessionInv, Exclusive, AboutToRun, Busy
<1>8. Fd("socket", n) \in Descriptors /\ Fd("data", n) \in Descriptors
  BY DEF Descriptors, Fd
<1>9. \A q : ThreadTo(n, q) => q = pc
  BY <1>3 DEF ThreadTo, SessionInv, IperfTypeOK
<1>10. Own(n, pc)'
  <2>1. CASE session_open(n)
    BY <2>1, <1>6, <1>8, <1>9 DEF session_open, NoneLost, Fd, NoFd, Own
  <2>2. CASE session_connect(n)
    BY <2>2, <1>6, <1>8, <1>9 DEF session_connect, state, NoneLost, Fd, NoFd, Own
  <2>3. CASE session_accept(n)
    BY <2>3, <1>6, <1>8, <1>9 DEF session_accept, NoneLost, Fd, NoFd, Own
  <2>4. CASE session_loop(n)
    BY <2>4, <1>6, <1>8, <1>9 DEF session_loop, state, NoneLost, Fd, NoFd, Own
  <2>5. CASE session_transfer(n)
    BY <2>5, <1>6, <1>8, <1>9 DEF session_transfer, state, NoneLost, Fd, NoFd, Own
  <2>6. CASE session_close_data(n)
    BY <2>6, <1>6, <1>8, <1>9 DEF session_close_data, Close, NoneLost, Fd, NoFd, Own
  <2>7. CASE session_close_socket(n)
    BY <2>7, <1>6, <1>8, <1>9 DEF session_close_socket, Close, NoneLost, Fd, NoFd, Own
  <2>8. CASE session_end(n)
    BY <2>8, <1>6, <1>8, <1>9 DEF session_end, state, NoneLost, Fd, NoFd, Own
  <2> QED
    BY <2>1, <2>2, <2>3, <2>4, <2>5, <2>6, <2>7, <2>8 DEF session_step, session_own
<1>11. IperfTypeOK'
  BY <1>3, <1>4, <1>5, <1>10 DEF SessionInv, IperfTypeOK, PCs, Own
<1>12. Held'
  BY <1>3, <1>10 DEF Held, Own
<1> QED
  BY <1>7, <1>10, <1>11, <1>12 DEF SessionInv, Own

(* The shell and a recovery enter wlh_rtt_iperf2_stop; nothing else moves.   *)
LEMMA EnterStop ==
  ASSUME SessionInv, NEW c \in Callers, StopTo(c, "check"),
         UNCHANGED <<state, threads, open, shut, shell>>
  PROVE  SessionInv'
<1>1. IperfTypeOK'
  BY DEF SessionInv, IperfTypeOK, state, StopTo
<1>2. Exclusive' /\ Held' /\ AboutToRun' /\ NoneLost'
  BY DEF SessionInv, Exclusive, Held, AboutToRun, NoneLost, Busy, state
<1> QED
  BY <1>1, <1>2 DEF SessionInv

LEMMA SameSession ==
  ASSUME SessionInv, UNCHANGED iperf_vars
  PROVE  SessionInv'
BY DEF SessionInv, iperf_vars, state, IperfTypeOK, Exclusive, Held, AboutToRun, NoneLost,
   Busy

LEMMA SessionStep ==
  ASSUME SessionInv, [Next]_vars
  PROVE  SessionInv'
<1>1. CASE UNCHANGED iperf_vars
  BY <1>1, SameSession
<1>2. CASE IperfStep
  BY <1>2, IperfAssumption, StartSession, StopSession, ThreadSession,
     EnterStop DEF IperfStep
<1>3. ASSUME NEW c \in Callers, recover_enter(c)
      PROVE  SessionInv'
  <2>1. CASE recovering
    BY <1>3, <2>1, SameSession DEF recover_enter, iperf_vars
  <2>2. CASE ~recovering
    BY <1>3, <2>2, EnterStop DEF recover_enter
  <2> QED
    BY <2>1, <2>2
<1>4. ASSUME NEW c \in Callers, host_recover(c) \/ recover_steps(c), ~recover_enter(c)
      PROVE  UNCHANGED iperf_vars
  BY <1>4 DEF host_recover, recover_steps, recover_stop, recover_stopped,
     recover_soft_reset,
              recover_clear, recover_start, recover_leave
<1>5. CASE host_init \/ host_start \/ host_stop \/ start_steps
  BY <1>5, <1>1 DEF host_init, host_start, host_stop, start_steps, host_start_clear,
              host_start_core, host_start_done, host_stop_core
<1>6. CASE executor_main \/ core_answers \/ core_other_event \/ link_event_lost
  BY <1>6, <1>1 DEF executor_main, executor_main_recv, executor_main_skip, host_event,
     host_event_submit, wifi_initialize_complete,
              core_answers, core_ready, core_request_ok, core_request_fails,
              core_other_event, link_event_lost
<1>7. CASE UNCHANGED vars
  BY <1>7, <1>1 DEF vars
<1> QED
  BY <1>1, <1>2, <1>3, <1>4, <1>5, <1>6, <1>7 DEF Next

LEMMA SessionInductive == Spec => []SessionInv
<1>1. Init => SessionInv
  <2> SUFFICES ASSUME Init PROVE SessionInv
    OBVIOUS
  <2>1. IperfTypeOK
    BY DEF Init, IperfInit, IperfTypeOK
  <2>2. Exclusive /\ AboutToRun /\ Held /\ NoneLost
    BY DEF Init, IperfInit, Exclusive, AboutToRun, Held, NoneLost, Busy
  <2> QED
    BY <2>1, <2>2 DEF SessionInv
<1>2. SessionInv /\ [Next]_vars => SessionInv'
  BY SessionStep
<1> QED
  BY <1>1, <1>2, PTL DEF Spec

(* One iPerf2 session at a time, although start, stop and the threads share  *)
(* one static state with no lock: running is set before the thread is made   *)
(* and cleared after it has closed what it opened, so no second thread, no   *)
(* start and no leaked descriptor, however many sessions, callers and        *)
(* recoveries there are.                                                     *)
THEOREM SessionOwnsCorrect == Spec => []SessionOwnsState
<1>1. SessionInv => SessionOwnsState
  BY DEF SessionInv, Exclusive, NoneLost, SessionOwnsState
<1> QED
  BY <1>1, SessionInductive, PTL

-----------------------------------------------------------------------------
Jobs == {"READY", "other", "ok", "failed"}

(* A post keeps the queue a bounded queue of jobs; taking one does too.      *)
LEMMA Post ==
  ASSUME HostTypeOK, NEW job \in Jobs, executor_post(job)
  PROVE  executor_queue' \in Seq(Jobs) /\ Len(executor_queue') <= ExecutorDepth
<1>1. executor_queue \in Seq(Jobs) /\ Len(executor_queue) <= ExecutorDepth
  BY DEF HostTypeOK, Jobs
<1>2. CASE Full
  BY <1>1, <1>2 DEF executor_post
<1>3. CASE ~Full
  <2>1. executor_queue' = Append(executor_queue, job)
    BY <1>3 DEF executor_post
  <2>2. Len(executor_queue) < ExecutorDepth /\ Len(executor_queue) \in Nat
    BY <1>1, <1>3, HostAssumption DEF Full
  <2>3. executor_queue' \in Seq(Jobs) /\ Len(executor_queue') = Len(executor_queue) + 1
    BY <1>1, <2>1
  <2> QED
    BY <2>2, <2>3, HostAssumption
<1> QED
  BY <1>2, <1>3

LEMMA Take ==
  ASSUME HostTypeOK, executor_queue # <<>>, executor_queue' = Tail(executor_queue)
  PROVE  executor_queue' \in Seq(Jobs) /\ Len(executor_queue') <= ExecutorDepth
<1>1. executor_queue \in Seq(Jobs) /\ Len(executor_queue) <= ExecutorDepth
  BY DEF HostTypeOK, Jobs
<1>2. Len(executor_queue) \in Nat /\ Len(executor_queue') = Len(executor_queue) - 1
      /\ executor_queue' \in Seq(Jobs)
  BY <1>1
<1> QED
  BY <1>1, <1>2, HostAssumption

Places == Body \cup {"idle", "start_clear", "start_core", "start_done", "stop_core", "recover"}

CoreTypeOK ==
  /\ core \in {"down", "starting", "ready", "stopping", "failed"}
  /\ session \in CoreSessions /\ apsta \in CoreSessions
  /\ request \in BOOLEAN /\ missed \in BOOLEAN /\ skipped \in BOOLEAN

LEMMA CoreTypes ==
  ASSUME HostTypeOK,
         \/ core_start_ok \/ core_start_fails
         \/ core_stop \/ core_stop_ok \/ core_stop_timeout
  PROVE  CoreTypeOK'
<1>1. CoreTypeOK
  BY DEF HostTypeOK, CoreTypeOK
<1>2. CASE core_start_ok
  <2>1. session' \in CoreSessions
    <3>1. session \in 0 .. MaxCoreStarts /\ session < MaxCoreStarts /\ session' = session + 1
      BY <1>1, <1>2 DEF core_start_ok, CoreTypeOK, CoreSessions
    <3> QED
      BY <3>1, HostAssumption DEF CoreSessions
  <2> QED
    BY <1>1, <1>2, <2>1, Zenon DEF core_start_ok, CoreTypeOK
<1>3. CASE core_start_fails
  BY <1>1, <1>3 DEF core_start_fails, outside, CoreTypeOK
<1>4. CASE core_stop \/ core_stop_ok \/ core_stop_timeout
  BY <1>1, <1>4 DEF core_stop, core_stop_ok, core_stop_timeout, CoreTypeOK
<1> QED
  BY <1>2, <1>3, <1>4

(* The types are preserved by the facade ...                                 *)
LEMMA ShellTypes ==
  ASSUME HostTypeOK, host_init \/ host_start \/ host_stop \/ start_steps
  PROVE  HostTypeOK'
<1> USE IperfAssumption, HostAssumption
<1>1. call' \in [Callers -> Places] /\ UNCHANGED <<result, executor_queue, executor>>
  BY DEF HostTypeOK, host_init, host_start, host_stop, start_steps, host_start_clear,
         host_start_core, host_start_done, host_stop_core, CallTo, Places
<1>2. CoreTypeOK'
  <2>1. CASE UNCHANGED outside
    BY <2>1 DEF outside, HostTypeOK, CoreTypeOK
  <2> QED
    BY <2>1, CoreTypes, Zenon DEF host_init, host_start, host_stop, start_steps,
       host_start_clear, host_start_core, host_start_done, host_stop_core
<1>3. {initialized, started, recovering, wifi_initialized}' \subseteq BOOLEAN
  BY DEF HostTypeOK, host_init, host_start, host_stop, start_steps, host_start_clear,
         host_start_core, host_start_done, host_stop_core, facade
<1> QED
  BY <1>1, <1>2, <1>3 DEF HostTypeOK, Places, CoreTypeOK

(* ... by a recovery ...                                                     *)
LEMMA RecoverTypes ==
  ASSUME HostTypeOK, NEW c \in Callers, host_recover(c) \/ recover_steps(c)
  PROVE  HostTypeOK'
<1> USE HostAssumption
<1>1. call' \in [Callers -> Places] /\ UNCHANGED <<executor_queue, executor>>
  BY DEF HostTypeOK, host_recover, recover_steps, recover_enter, recover_stop,
     recover_stopped,
         recover_soft_reset, recover_clear, recover_start, recover_leave, CallTo, Places, Body
<1>2. result' \in [Callers -> {"RT_EOK", "error"}]
  BY DEF HostTypeOK, host_recover, recover_steps, recover_enter, recover_stop,
     recover_stopped,
         recover_soft_reset, recover_clear, recover_start, recover_leave
<1>3. CoreTypeOK'
  <2>1. CASE UNCHANGED outside
    BY <2>1 DEF outside, HostTypeOK, CoreTypeOK
  <2>2. CASE recover_soft_reset(c)
    BY <2>2 DEF recover_soft_reset, HostTypeOK, CoreTypeOK, CoreSessions
  <2> QED
    BY <2>1, <2>2, CoreTypes, Zenon DEF host_recover, recover_steps, recover_enter,
       recover_stop, recover_stopped, recover_clear, recover_start, recover_leave
<1>4. {initialized, started, recovering, wifi_initialized}' \subseteq BOOLEAN
  BY DEF HostTypeOK, host_recover, recover_steps, recover_enter, recover_stop,
     recover_stopped,
         recover_soft_reset, recover_clear, recover_start, recover_leave, facade
<1> QED
  BY <1>1, <1>2, <1>3, <1>4 DEF HostTypeOK, Places, CoreTypeOK

(* ... and by the executor and Core.                                         *)
LEMMA ExecutorTypes ==
  ASSUME HostTypeOK, executor_main \/ core_answers \/ core_other_event \/ link_event_lost
  PROVE  HostTypeOK'
<1> USE HostAssumption
<1>1. executor_queue' \in Seq(Jobs) /\ Len(executor_queue') <= ExecutorDepth
  <2>1. CASE executor_main
    <3>1. CASE executor_queue # <<>> /\ executor_queue' = Tail(executor_queue)
      BY <3>1, Take
    <3>2. CASE UNCHANGED executor_queue
      BY <3>2 DEF HostTypeOK, Jobs
    <3> QED
      BY <2>1, <3>1, <3>2 DEF executor_main, executor_main_recv, executor_main_skip,
         host_event, host_event_submit, wifi_initialize_complete
  <2>2. CASE core_answers \/ core_other_event
    <3>1. \E job \in Jobs : executor_post(job)
      BY <2>2 DEF core_answers, core_ready, core_request_ok, core_request_fails,
                  core_other_event, Jobs
    <3> QED
      BY <3>1, Post
  <2>3. CASE link_event_lost
    BY <2>3 DEF HostTypeOK, Jobs, link_event_lost
  <2> QED
    BY <2>1, <2>2, <2>3
<1>2. /\ core' \in {"down", "starting", "ready", "stopping", "failed"}
      /\ UNCHANGED session /\ apsta' \in CoreSessions
      /\ executor' \in {"idle", "submit"}
      /\ UNCHANGED <<initialized, started, recovering, call, result>>
  BY DEF HostTypeOK, executor_main, executor_main_recv, executor_main_skip, host_event,
     host_event_submit, wifi_initialize_complete,
         core_answers, core_ready, core_request_ok, core_request_fails, core_other_event,
         link_event_lost, outside, facade
<1>3. wifi_initialized' \in BOOLEAN /\ request' \in BOOLEAN /\ missed' \in BOOLEAN
      /\ skipped' \in BOOLEAN
  <2>1. wifi_initialized \in BOOLEAN /\ request \in BOOLEAN /\ missed \in BOOLEAN /\ skipped \in BOOLEAN
    BY DEF HostTypeOK
  <2>2. Full \in BOOLEAN
    BY DEF Full
  <2>3. CASE executor_main
    BY <2>1, <2>3, Zenon DEF executor_main, executor_main_recv, executor_main_skip,
       host_event, host_event_submit,
       wifi_initialize_complete, outside, facade
  <2>4. CASE core_answers
    BY <2>1, <2>2, <2>4, Zenon DEF core_answers, core_ready, core_request_ok,
       core_request_fails, facade
  <2>5. CASE core_other_event \/ link_event_lost
    BY <2>1, <2>5, Zenon DEF core_other_event, link_event_lost, outside, facade
  <2> QED
    BY <2>3, <2>4, <2>5
<1> QED
  BY <1>1, <1>2, <1>3 DEF HostTypeOK, Jobs

-----------------------------------------------------------------------------
(* CallTo moves one caller.                                                  *)
LEMMA CallMoves ==
  ASSUME HostTypeOK, NEW c \in Callers, NEW pc, CallTo(c, pc)
  PROVE  call'[c] = pc /\ \A d \in Callers \ {c} : call'[d] = call[d]
<1>1. call \in [Callers -> Places]
  BY DEF HostTypeOK, Places
<1> QED
  BY <1>1 DEF CallTo

(* Starting and stopping touch no recovery: nobody is inside one.            *)
LEMMA ShellRecovers ==
  ASSUME RecoverInv, host_init \/ host_start \/ host_stop \/ start_steps
  PROVE  CallsAreLate' /\ RecoverExclusive' /\ Counted'
<1> USE IperfAssumption DEF RecoverInv
<1>1. PICK pc \in ShellOnly \cup {"idle"} : CallTo(Shell, pc)
  BY DEF host_init, host_start, host_stop, start_steps, host_start_clear, host_start_core,
         host_start_done, host_stop_core, ShellOnly
<1>2. call'[Shell] = pc /\ \A d \in Callers \ {Shell} : call'[d] = call[d]
  BY <1>1, CallMoves
<1>3. UNCHANGED result /\ call[Shell] \in ShellOnly \cup {"idle"}
  BY DEF host_init, host_start, host_stop, start_steps, host_start_clear, host_start_core,
         host_start_done, host_stop_core, ShellOnly, AllIdle
<1>4. \/ ~initialized /\ recoveries' = 0
      \/ UNCHANGED <<recovering, recoveries>>
  BY DEF host_init, host_start, host_stop, start_steps, host_start_clear, host_start_core,
         host_start_done, host_stop_core, facade
<1>5. session \in Nat /\ session' \in Nat /\ session' >= session
  BY HostAssumption
  DEF HostTypeOK, host_init, host_start, host_stop, start_steps, host_start_clear,
         host_start_core, host_start_done, host_stop_core, core_start_ok, core_start_fails,
         core_stop, core_stop_ok, core_stop_timeout, outside, CoreSessions
<1>6. \/ initialized'
      \/ ~initialized /\ pc = "idle" /\ ~started'
  <2>1. CASE host_init
    <3>1. CallTo(Shell, IF initialized' THEN "start_clear" ELSE "idle")
      BY <2>1 DEF host_init
    <3>2. pc = IF initialized' THEN "start_clear" ELSE "idle"
      BY <1>2, <3>1, CallMoves
    <3> QED
      BY <2>1, <3>2 DEF host_init
  <2>2. CASE host_start \/ host_stop \/ start_steps
    <3>1. initialized \/ started \/ call[Shell] # "idle"
      BY <2>2 DEF host_start, host_stop, start_steps, host_start_clear, host_start_core,
                  host_start_done, host_stop_core
    <3>2. UNCHANGED initialized
      BY <2>2 DEF host_start, host_stop, start_steps, host_start_clear, host_start_core,
                  host_start_done, host_stop_core, facade
    <3> QED
      BY <3>1, <3>2 DEF CallsAreLate
  <2> QED
    BY <2>1, <2>2
<1>7. CallsAreLate'
  BY <1>2, <1>6 DEF CallsAreLate
<1>8. RecoverExclusive'
  BY <1>2, <1>3, <1>4 DEF RecoverExclusive, CallsAreLate, ShellOnly, Body
<1>9. Counted'
  BY <1>2, <1>3, <1>4, <1>5 DEF Counted, CallsAreLate, ShellOnly, Body
<1> QED
  BY <1>7, <1>8, <1>9

(* A recovery enters alone and is counted once.                              *)
LEMMA RecoverRecovers ==
  ASSUME RecoverInv, NEW c \in Callers, host_recover(c) \/ recover_steps(c)
  PROVE  CallsAreLate' /\ RecoverExclusive' /\ Counted'
<1> USE DEF RecoverInv
<1>1. PICK pc : CallTo(c, pc)
  BY Zenon DEF host_recover, recover_steps, recover_enter, recover_stop, recover_stopped,
       recover_soft_reset, recover_clear, recover_start, recover_leave
<1>2. call'[c] = pc /\ \A d \in Callers \ {c} : call'[d] = call[d]
  BY <1>1, CallMoves
<1>3. CallsAreLate'
  <2>1. UNCHANGED <<started, initialized>>
    BY DEF host_recover, recover_steps, recover_enter, recover_stop, recover_stopped,
       recover_soft_reset, recover_clear, recover_start, recover_leave, facade
  <2>2. call[c] # "idle" \/ started
    BY DEF host_recover, recover_steps, recover_enter, recover_stop, recover_stopped,
       recover_soft_reset, recover_clear, recover_start, recover_leave
  <2> QED
    BY <1>2, <2>1, <2>2 DEF CallsAreLate
<1>4. RecoverExclusive'
  <2>1. CASE host_recover(c)
    BY <2>1, <1>2, CallMoves DEF host_recover, facade, RecoverExclusive, Body
  <2>2. CASE recover_enter(c)
    BY <2>2, <1>2, CallMoves DEF recover_enter, RecoverExclusive, Body
  <2>3. CASE recover_stop(c) \/ recover_stopped(c) \/ recover_soft_reset(c) \/ recover_clear(c)
             \/ recover_start(c)
    BY <2>3, <1>2 DEF recover_stop, recover_stopped, recover_soft_reset, recover_clear,
       recover_start, facade, RecoverExclusive, Body
  <2>4. CASE recover_leave(c)
    BY <2>4, <1>2, CallMoves DEF recover_leave, RecoverExclusive, Body
  <2> QED
    BY <2>1, <2>2, <2>3, <2>4 DEF recover_steps
<1>5. session \in Nat
  BY HostAssumption DEF HostTypeOK, CoreSessions
<1>6. result \in [Callers -> {"RT_EOK", "error"}]
  BY DEF HostTypeOK
<1>7. Counted'
  <2>1. CASE host_recover(c) \/ recover_enter(c)
    BY <2>1, <1>2, <1>5, CallMoves DEF host_recover, recover_enter, facade, outside, Counted
  <2>2. CASE recover_stop(c)
    BY <2>2, <1>2, <1>5, CallMoves DEF recover_stop, core_stop, facade, Counted
  <2>3. CASE recover_stopped(c)
    BY <2>3, <1>2, <1>5, <1>6, CallMoves
    DEF recover_stopped, core_stop_ok, core_stop_timeout, facade, Counted
  <2>4. CASE recover_soft_reset(c) \/ recover_clear(c)
    BY <2>4, <1>2, <1>5, <1>6, CallMoves
    DEF recover_soft_reset, recover_clear, facade, outside, Counted
  <2>5. CASE recover_start(c)
    <3>1. \A d \in Callers \ {c} : call'[d] # "leave"
      BY <2>5, <1>2 DEF recover_start, RecoverExclusive, Body
    <3>2. UNCHANGED recoveries
      BY <2>5 DEF recover_start, facade
    <3>3. \/ session' = session + 1
          \/ session' = session /\ result'[c] # "RT_EOK"
      BY <2>5, <1>6 DEF recover_start, core_start_ok, core_start_fails, outside
    <3> QED
      BY <3>1, <3>2, <3>3, <1>5 DEF Counted
  <2>6. CASE recover_leave(c)
    <3>1. \A d \in Callers : call'[d] # "leave"
      BY <2>6, <1>2, CallMoves DEF recover_leave, RecoverExclusive, Body
    <3>2. session' = session /\ recoveries' \in 0 .. session
      BY <2>6, <1>5 DEF recover_leave, outside, Counted
    <3> QED
      BY <3>1, <3>2 DEF Counted
  <2> QED
    BY <2>1, <2>2, <2>3, <2>4, <2>5, <2>6 DEF recover_steps
<1> QED
  BY <1>3, <1>4, <1>7

LEMMA SameRecover ==
  ASSUME RecoverInv,
         UNCHANGED <<initialized, started, recovering, recoveries, call, result, session>>
  PROVE  CallsAreLate' /\ RecoverExclusive' /\ Counted'
BY DEF RecoverInv, CallsAreLate, RecoverExclusive, Counted

LEMMA RecoverStep ==
  ASSUME RecoverInv, [Next]_vars
  PROVE  RecoverInv'
<1>1. CASE host_init \/ host_start \/ host_stop \/ start_steps
  BY <1>1, ShellTypes, ShellRecovers DEF RecoverInv
<1>2. ASSUME NEW c \in Callers, host_recover(c) \/ recover_steps(c)
      PROVE  RecoverInv'
  BY <1>2, RecoverTypes, RecoverRecovers DEF RecoverInv
<1>3. CASE executor_main \/ core_answers \/ core_other_event \/ link_event_lost
  <2>1. UNCHANGED <<initialized, started, recovering, recoveries, call, result, session>>
    BY <1>3 DEF executor_main, executor_main_recv, executor_main_skip, host_event,
       host_event_submit, wifi_initialize_complete,
       core_answers, core_ready, core_request_ok, core_request_fails, core_other_event,
       link_event_lost, outside, facade
  <2> QED
    BY <1>3, <2>1, ExecutorTypes, SameRecover DEF RecoverInv
<1>4. CASE IperfStep \/ UNCHANGED vars
  <2>1. UNCHANGED host_vars
    BY <1>4 DEF IperfStep, vars
  <2>2. HostTypeOK'
    BY <2>1 DEF RecoverInv, HostTypeOK, host_vars, facade, outside
  <2> QED
    BY <2>1, <2>2, SameRecover DEF RecoverInv, host_vars, facade, outside
<1> QED
  BY <1>1, <1>2, <1>3, <1>4 DEF Next

LEMMA RecoverInductive == Spec => []RecoverInv
<1>1. Init => RecoverInv
  <2> SUFFICES ASSUME Init PROVE RecoverInv
    OBVIOUS
  <2>1. CallsAreLate /\ RecoverExclusive /\ Counted
    BY DEF Init, CallsAreLate, RecoverExclusive, Counted, Body
  <2>2. executor_queue \in Seq({"READY", "other", "ok", "failed"})
        /\ Len(executor_queue) <= ExecutorDepth
    BY HostAssumption DEF Init
  <2>3. session \in CoreSessions /\ apsta \in CoreSessions
    BY HostAssumption DEF Init, CoreSessions
  <2>4. HostTypeOK
    BY <2>2, <2>3 DEF Init, HostTypeOK
  <2> QED
    BY <2>1, <2>4 DEF RecoverInv
<1>2. RecoverInv /\ [Next]_vars => RecoverInv'
  BY RecoverStep
<1> QED
  BY <1>1, <1>2, PTL DEF Spec

(* Every variable has its type, the executor's queue its bound, and the      *)
(* recoveries counted are sessions that Core began.                          *)
THEOREM TypeCorrect == Spec => []TypeOK
<1>1. SessionInv /\ RecoverInv => TypeOK
  BY DEF SessionInv, RecoverInv, HostTypeOK, Counted, TypeOK
<1> QED
  BY <1>1, SessionInductive, RecoverInductive, PTL

(* Two recoveries never overlap, whatever the callers: recovering is tested  *)
(* and set in one step, cleared only by the one that set it, and zeroed by   *)
(* wlh_rtt_host_init only when nobody can be inside.                         *)
THEOREM RecoverExclusiveCorrect == Spec => []RecoverExclusive
<1>1. RecoverInv => RecoverExclusive
  BY DEF RecoverInv
<1> QED
  BY <1>1, RecoverInductive, PTL

-----------------------------------------------------------------------------
(* The executor and Core, once Core is up, keep what wifi_initialized says.  *)
LEMMA ExecutorApsta ==
  ASSUME RecoverInv, ApstaInv,
         executor_main \/ core_answers \/ core_other_event \/ link_event_lost
  PROVE  ApstaInv'
<1> DEFINE queue == executor_queue
<1>1. queue \in Seq(Jobs)
  BY DEF RecoverInv, HostTypeOK, Jobs
<1>2. core # "down" /\ core' # "down"
  BY DEF ApstaInv, DownIsQuiet, executor_main, executor_main_recv, executor_main_skip,
     host_event, host_event_submit,
     wifi_initialize_complete, core_answers, core_ready, core_request_ok,
     core_request_fails,
     core_other_event, link_event_lost, outside
<1>3. UNCHANGED <<started, call, result, session>>
  BY DEF executor_main, executor_main_recv, executor_main_skip, host_event,
     host_event_submit, wifi_initialize_complete,
     core_answers, core_ready, core_request_ok, core_request_fails, core_other_event,
     link_event_lost, outside, facade
<1>4. StartStop' /\ Rebuild'
  BY <1>2, <1>3 DEF ApstaInv, StartStop, Rebuild
<1>5. DownIsQuiet'
  BY <1>2 DEF DownIsQuiet
<1>6. OkIsFresh' /\ UpIsFresh'
  <2>1. CASE executor_main
    <3>1. \A i \in 1 .. Len(queue') : \E j \in 1 .. Len(queue) : queue'[i] = queue[j]
      <4>1. CASE queue # <<>> /\ queue' = Tail(queue)
        BY <4>1, <1>1
      <4>2. CASE queue' = queue
        BY <4>2
      <4> QED
        BY <2>1, <4>1, <4>2 DEF executor_main, executor_main_recv, executor_main_skip,
           host_event, host_event_submit,
           wifi_initialize_complete
    <3>2. UNCHANGED <<core, apsta>>
      BY <2>1 DEF executor_main, executor_main_recv, executor_main_skip, host_event,
         host_event_submit, wifi_initialize_complete,
         outside
    <3>3. OkIsFresh'
      BY <3>1, <3>2, <1>3 DEF OkIsFresh, ApstaInv
    <3>4. wifi_initialized' => wifi_initialized \/ apsta = session
      <4>1. CASE wifi_initialize_complete
        <5>1. queue # <<>> /\ (wifi_initialized' => wifi_initialized \/ Head(queue) = "ok")
          BY <4>1 DEF wifi_initialize_complete, executor_main_recv
        <5>2. 1 \in 1 .. Len(queue) /\ Head(queue) = queue[1]
          BY <5>1, <1>1
        <5> QED
          BY <5>1, <5>2 DEF ApstaInv, OkIsFresh
      <4>2. CASE UNCHANGED wifi_initialized
        BY <4>2
      <4> QED
        BY <2>1, <4>1, <4>2 DEF executor_main, executor_main_recv, executor_main_skip,
           host_event, host_event_submit, facade
    <3>5. UpIsFresh'
      BY <3>2, <3>4, <1>3 DEF UpIsFresh, ApstaInv
    <3> QED
      BY <3>3, <3>5
  <2>2. CASE core_answers \/ core_other_event
    <3>1. UNCHANGED wifi_initialized
      BY <2>2 DEF core_answers, core_ready, core_request_ok, core_request_fails,
         core_other_event, facade
    <3>2. PICK job \in Jobs : executor_post(job) /\ (job = "ok" => apsta' = session)
      BY <2>2 DEF core_answers, core_ready, core_request_ok, core_request_fails,
         core_other_event, Jobs
    <3>3. apsta' = session \/ UNCHANGED apsta
      BY <2>2 DEF core_answers, core_ready, core_request_ok, core_request_fails,
         core_other_event, outside
    <3>4. \A i \in 1 .. Len(queue') :
            queue'[i] = job \/ \E j \in 1 .. Len(queue) : queue'[i] = queue[j]
      BY <1>1, <3>2 DEF executor_post
    <3>5. OkIsFresh'
      BY <3>2, <3>3, <3>4, <1>3 DEF OkIsFresh, ApstaInv
    <3>6. core \in {"starting", "ready"} \/ core' = core
      BY <2>2 DEF core_answers, core_ready, core_request_ok, core_request_fails,
         core_other_event, outside
    <3>7. UpIsFresh'
      BY <3>1, <3>3, <3>6, <1>3 DEF UpIsFresh, ApstaInv
    <3> QED
      BY <3>5, <3>7
  <2>3. CASE link_event_lost
    BY <2>3 DEF link_event_lost, OkIsFresh, UpIsFresh, ApstaInv
  <2> QED
    BY <2>1, <2>2, <2>3
<1> QED
  BY <1>4, <1>5, <1>6 DEF ApstaInv

(* A step that leaves Core and its posts alone keeps the first three parts,  *)
(* if it sets wifi_initialized to nothing but FALSE.                         *)
LEMMA CoreUntouched ==
  ASSUME ApstaInv, UNCHANGED <<executor_queue, executor, outside>>,
         wifi_initialized' => wifi_initialized
  PROVE  DownIsQuiet' /\ OkIsFresh' /\ UpIsFresh'
<1>1. UNCHANGED <<core, session, request, apsta>>
  BY DEF outside
<1> QED
  BY <1>1 DEF ApstaInv, DownIsQuiet, OkIsFresh, UpIsFresh

(* Core begins a session, with nothing posted and wifi_initialized clear.    *)
LEMMA CoreBegins ==
  ASSUME RecoverInv, ApstaInv, core_start_ok, ~wifi_initialized,
         UNCHANGED <<executor_queue, executor, wifi_initialized>>
  PROVE  DownIsQuiet' /\ OkIsFresh' /\ UpIsFresh'
<1>1. executor_queue = <<>> /\ core' = "starting"
  BY DEF ApstaInv, DownIsQuiet, core_start_ok
<1> QED
  BY <1>1 DEF DownIsQuiet, OkIsFresh, UpIsFresh

(* Core stops.                                                               *)
LEMMA CoreStops ==
  ASSUME ApstaInv, core_stop \/ core_stop_ok \/ core_stop_timeout,
         UNCHANGED <<executor_queue, executor>>
  PROVE  DownIsQuiet' /\ OkIsFresh' /\ UpIsFresh'
<1>1. DownIsQuiet'
  BY DEF core_stop, core_stop_ok, core_stop_timeout, DownIsQuiet
<1>2. OkIsFresh' /\ UpIsFresh'
  BY DEF ApstaInv, core_stop, core_stop_ok, core_stop_timeout, OkIsFresh, UpIsFresh
<1> QED
  BY <1>1, <1>2

(* Starting and stopping, which run alone.                                   *)
LEMMA ShellApsta ==
  ASSUME RecoverInv, ApstaInv, host_init \/ host_start \/ host_stop \/ start_steps
  PROVE  ApstaInv'
<1> USE IperfAssumption
<1>1. HostTypeOK /\ StartStop
  BY DEF RecoverInv, ApstaInv
<1>2. PICK pc \in ShellOnly \cup {"idle"} : CallTo(Shell, pc)
  BY DEF host_init, host_start, host_stop, start_steps, host_start_clear, host_start_core,
         host_start_done, host_stop_core, ShellOnly
<1>3. call'[Shell] = pc /\ \A d \in Callers \ {Shell} : call'[d] = call[d]
  BY <1>1, <1>2, CallMoves
<1>4. \A d \in Callers \ {Shell} : call[d] = "idle"
  BY <1>1 DEF host_init, host_start, host_stop, start_steps, host_start_clear,
     host_start_core,
         host_start_done, host_stop_core, ShellOnly, AllIdle, StartStop, RecoverInv,
         CallsAreLate
<1>5. \A q : CallTo(Shell, q) => q = pc
  BY <1>1, <1>3, CallMoves
<1>6. Rebuild'
  BY <1>3, <1>4 DEF Rebuild, ShellOnly
<1>7. /\ \A c \in Callers : call'[c] \in ShellOnly =>
           c = Shell /\ \A d \in Callers \ {c} : call'[d] = "idle"
      /\ \A c \in Callers : call'[c] \in Body \cup {"recover", "stop_core"} =>
           c = Shell /\ pc = "stop_core"
  BY <1>3, <1>4 DEF ShellOnly, Body
<1>8. /\ pc = "stop_core" => started'
      /\ ~started' => core' = "down" \/ pc = "start_done"
      /\ pc \in {"start_clear", "start_core"} => core' = "down"
      /\ pc = "start_core" => ~wifi_initialized'
      /\ DownIsQuiet' /\ OkIsFresh' /\ UpIsFresh'
  <2>1. CASE host_init
    <3>1. ~started /\ core = "down"
      BY <2>1, <1>1 DEF host_init, RecoverInv, CallsAreLate, StartStop
    <3>2. pc \in {"start_clear", "idle"}
      BY <2>1, <1>5 DEF host_init
    <3>3. DownIsQuiet' /\ OkIsFresh' /\ UpIsFresh'
      BY <2>1, CoreUntouched DEF host_init
    <3> QED
      BY <2>1, <3>1, <3>2, <3>3 DEF host_init, outside
  <2>2. CASE host_start
    <3>1. core = "down" /\ pc = "start_clear"
      BY <2>2, <1>1, <1>5 DEF host_start, AllIdle, StartStop
    <3>2. DownIsQuiet' /\ OkIsFresh' /\ UpIsFresh'
      BY <2>2, CoreUntouched DEF host_start, facade
    <3> QED
      BY <2>2, <3>1, <3>2 DEF host_start, outside
  <2>3. CASE host_start_clear
    <3>1. core = "down" /\ pc = "start_core"
      BY <2>3, <1>1, <1>5 DEF host_start_clear, StartStop
    <3>2. DownIsQuiet' /\ OkIsFresh' /\ UpIsFresh'
      BY <2>3, CoreUntouched DEF host_start_clear
    <3> QED
      BY <2>3, <3>1, <3>2 DEF host_start_clear, outside
  <2>4. CASE host_start_core
    <3>1. core = "down" /\ ~wifi_initialized
      BY <2>4, <1>1 DEF host_start_core, StartStop
    <3>2. CASE core_start_ok /\ CallTo(Shell, "start_done")
      <4>1. DownIsQuiet' /\ OkIsFresh' /\ UpIsFresh'
        BY <2>4, <3>1, <3>2, CoreBegins DEF host_start_core, facade
      <4> QED
        BY <3>2, <4>1, <1>5
    <3>3. CASE core_start_fails /\ CallTo(Shell, "idle")
      <4>1. DownIsQuiet' /\ OkIsFresh' /\ UpIsFresh'
        BY <2>4, <3>3, CoreUntouched DEF host_start_core, facade, core_start_fails
      <4> QED
        BY <3>1, <3>3, <4>1, <1>5 DEF core_start_fails, outside
    <3> QED
      BY <2>4, <3>2, <3>3 DEF host_start_core
  <2>5. CASE host_start_done
    <3>1. DownIsQuiet' /\ OkIsFresh' /\ UpIsFresh'
      BY <2>5, CoreUntouched DEF host_start_done
    <3> QED
      BY <2>5, <3>1, <1>5 DEF host_start_done
  <2>6. CASE host_stop
    <3>1. DownIsQuiet' /\ OkIsFresh' /\ UpIsFresh'
      BY <2>6, CoreStops DEF host_stop
    <3> QED
      BY <2>6, <3>1, <1>5 DEF host_stop
  <2>7. CASE host_stop_core
    <3>1. DownIsQuiet' /\ OkIsFresh' /\ UpIsFresh'
      BY <2>7, CoreStops DEF host_stop_core
    <3>2. started /\ pc = "idle"
      BY <2>7, <1>1, <1>5 DEF host_stop_core, StartStop
    <3> QED
      BY <2>7, <3>1, <3>2 DEF host_stop_core, core_stop_ok
  <2> QED
    BY <2>1, <2>2, <2>3, <2>4, <2>5, <2>6, <2>7 DEF start_steps
<1>9. StartStop'
  BY <1>3, <1>7, <1>8 DEF StartStop
<1> QED
  BY <1>6, <1>8, <1>9 DEF ApstaInv

(* A recovery, during which nobody starts or stops.                          *)
LEMMA RecoverApsta ==
  ASSUME RecoverInv, ApstaInv, NEW c \in Callers, host_recover(c) \/ recover_steps(c)
  PROVE  ApstaInv'
<1> USE IperfAssumption
<1>1. HostTypeOK /\ StartStop /\ Rebuild /\ RecoverExclusive
  BY DEF RecoverInv, ApstaInv
<1>2. PICK pc \in Body \cup {"idle", "recover"} : CallTo(c, pc)
  BY DEF host_recover, recover_steps, recover_enter, recover_stop, recover_stopped,
         recover_soft_reset, recover_clear, recover_start, recover_leave, Body
<1>3. call'[c] = pc /\ \A d \in Callers \ {c} : call'[d] = call[d]
  BY <1>1, <1>2, CallMoves
<1>4. \A q : CallTo(c, q) => q = pc
  BY <1>1, <1>3, CallMoves
<1>5. started /\ UNCHANGED started
  BY <1>1 DEF StartStop, host_recover, recover_steps, recover_enter, recover_stop,
         recover_stopped, recover_soft_reset, recover_clear, recover_start, recover_leave,
         Body, facade
<1>6. \A d \in Callers : call[d] \notin ShellOnly
  BY <1>1 DEF StartStop, host_recover, recover_steps, recover_enter, recover_stop,
         recover_stopped, recover_soft_reset, recover_clear, recover_start, recover_leave,
         Body, ShellOnly
<1>7. StartStop'
  BY <1>3, <1>5, <1>6 DEF StartStop, ShellOnly, Body
<1>8. CASE host_recover(c)
  <2>1. DownIsQuiet' /\ OkIsFresh' /\ UpIsFresh'
    BY <1>8, CoreUntouched DEF host_recover, facade
  <2>2. Rebuild'
    BY <1>8, <1>1, <1>3, <1>4 DEF host_recover, facade, outside, Rebuild
  <2> QED
    BY <1>7, <2>1, <2>2 DEF ApstaInv
<1>9. CASE recover_enter(c)
  <2>1. DownIsQuiet' /\ OkIsFresh' /\ UpIsFresh'
    BY <1>9, CoreUntouched DEF recover_enter
  <2>2. pc \in {"idle", "iperf"}
    BY <1>9, <1>4 DEF recover_enter
  <2>3. Rebuild'
    BY <1>9, <1>1, <1>3, <2>2 DEF recover_enter, outside, Rebuild
  <2> QED
    BY <1>7, <2>1, <2>3 DEF ApstaInv
<1>10. CASE call[c] \in Body
  <2>1. \A d \in Callers \ {c} : call'[d] \notin Body
    BY <1>1, <1>3, <1>10 DEF RecoverExclusive
  <2>2. /\ pc = "reset" => core' = "down"
        /\ pc \in {"clear", "start"} /\ result'[c] = "RT_EOK" => core' = "down"
        /\ pc = "start" /\ result'[c] = "RT_EOK" => ~wifi_initialized'
        /\ DownIsQuiet' /\ OkIsFresh' /\ UpIsFresh'
    <3>1. CASE recover_stop(c)
      <4>1. DownIsQuiet' /\ OkIsFresh' /\ UpIsFresh'
        BY <3>1, CoreStops DEF recover_stop
      <4> QED
        BY <3>1, <4>1, <1>4 DEF recover_stop
    <3>2. CASE recover_stopped(c)
      <4>1. DownIsQuiet' /\ OkIsFresh' /\ UpIsFresh'
        BY <3>2, CoreStops DEF recover_stopped
      <4>2. \/ pc = "reset" /\ core' = "down"
            \/ pc = "clear" /\ result'[c] = "error"
        BY <3>2, <1>1, <1>4 DEF recover_stopped, core_stop_ok, HostTypeOK
      <4> QED
        BY <4>1, <4>2
    <3>3. CASE recover_soft_reset(c)
      <4>1. core = "down" /\ executor_queue = <<>> /\ UNCHANGED <<core, executor_queue>>
        BY <3>3, <1>1 DEF recover_soft_reset, Rebuild, ApstaInv, DownIsQuiet
      <4>2. DownIsQuiet'
        BY <3>3 DEF recover_soft_reset, ApstaInv, DownIsQuiet
      <4>3. OkIsFresh' /\ UpIsFresh'
        BY <4>1 DEF OkIsFresh, UpIsFresh
      <4>4. pc = "clear"
        BY <3>3, <1>4 DEF recover_soft_reset
      <4> QED
        BY <4>1, <4>2, <4>3, <4>4
    <3>4. CASE recover_clear(c)
      <4>1. DownIsQuiet' /\ OkIsFresh' /\ UpIsFresh'
        BY <3>4, CoreUntouched DEF recover_clear
      <4>2. pc = "start"
        BY <3>4, <1>4 DEF recover_clear
      <4> QED
        BY <3>4, <4>1, <4>2, <1>1 DEF recover_clear, outside, Rebuild
    <3>5. CASE recover_start(c)
      <4>1. CASE result[c] = "RT_EOK" /\ core_start_ok
        <5>1. ~wifi_initialized
          BY <3>5, <4>1, <1>1 DEF recover_start, Rebuild
        <5> QED
          BY <3>5, <4>1, <5>1, <1>4, CoreBegins DEF recover_start, facade
      <4>2. CASE UNCHANGED outside
        <5>1. DownIsQuiet' /\ OkIsFresh' /\ UpIsFresh'
          BY <3>5, <4>2, CoreUntouched DEF recover_start, facade
        <5> QED
          BY <3>5, <5>1, <1>4 DEF recover_start
      <4> QED
        BY <3>5, <4>1, <4>2 DEF recover_start, core_start_fails
    <3>6. CASE recover_leave(c)
      <4>1. DownIsQuiet' /\ OkIsFresh' /\ UpIsFresh'
        BY <3>6, CoreUntouched DEF recover_leave
      <4> QED
        BY <3>6, <4>1, <1>4 DEF recover_leave
    <3> QED
      BY <1>10, <3>1, <3>2, <3>3, <3>4, <3>5, <3>6
      DEF recover_steps, recover_enter, host_recover, Body
  <2>3. Rebuild'
    BY <1>3, <2>1, <2>2 DEF Rebuild, Body
  <2> QED
    BY <1>7, <2>2, <2>3 DEF ApstaInv
<1> QED
  BY <1>8, <1>9, <1>10 DEF recover_steps, recover_stop, recover_stopped, recover_soft_reset,
     recover_clear, recover_start, recover_leave, Body

LEMMA ApstaStep ==
  ASSUME RecoverInv, ApstaInv, [Next]_vars
  PROVE  ApstaInv'
<1>1. CASE IperfStep \/ UNCHANGED vars
  <2>1. UNCHANGED host_vars
    BY <1>1 DEF IperfStep, vars
  <2>2. DownIsQuiet' /\ OkIsFresh' /\ UpIsFresh'
    BY <2>1, CoreUntouched DEF host_vars, facade
  <2>3. StartStop' /\ Rebuild'
    BY <2>1 DEF ApstaInv, StartStop, Rebuild, host_vars, facade, outside
  <2> QED
    BY <2>2, <2>3 DEF ApstaInv
<1> QED
  BY <1>1, ShellApsta, RecoverApsta, ExecutorApsta DEF Next

LEMMA ApstaInductive == Spec => []ApstaInv
<1>1. Init => ApstaInv
  BY IperfAssumption DEF Init, ApstaInv, DownIsQuiet, OkIsFresh, UpIsFresh, StartStop,
     Rebuild,
     ShellOnly, Body
<1>2. RecoverInv /\ ApstaInv /\ [Next]_vars => ApstaInv'
  BY ApstaStep
<1> QED
  BY <1>1, <1>2, RecoverInductive, PTL DEF Spec

(* wifi_initialized speaks of the session that is up, although               *)
(* wifi_initialize_complete sets it for a result of no matter which session: *)
(* Core goes down only when all it posted has run, and start and recover     *)
(* clear the flag between that and the next session.                         *)
THEOREM ApstaCorrect == Spec => []ApstaFollowsSession
<1>1. ApstaInv => ApstaFollowsSession
  BY DEF ApstaInv, UpIsFresh, ApstaFollowsSession
<1> QED
  BY <1>1, ApstaInductive, PTL

(* With a kernel whose rt_mq_recv returns the length of the message, as the  *)
(* one of this tree does, executor_main runs no job: no initialisation is    *)
(* ever submitted, APSTA never comes up and wifi_initialized is never set.   *)
THEOREM NeverInitialized ==
  ReturnsLength /\ Spec => [](~wifi_initialized /\ ~request /\ apsta = 0)
<1> SUFFICES ASSUME ReturnsLength
             PROVE  Spec => [](~wifi_initialized /\ ~request /\ apsta = 0)
  BY DEF ReturnsLength
<1> DEFINE Asleep == ~wifi_initialized /\ ~request /\ apsta = 0 /\ executor = "idle"
<1>1. Init => Asleep
  BY DEF Init
<1>2. Asleep /\ [Next]_vars => Asleep'
  <2> SUFFICES ASSUME Asleep, [Next]_vars PROVE Asleep'
    OBVIOUS
  <2> USE DEF facade, outside
  <2>1. CASE executor_main
    <3>1. executor_main_skip
      BY <2>1 DEF executor_main, executor_main_recv, host_event, host_event_submit,
         wifi_initialize_complete, ReturnsLength
    <3> QED
      BY <3>1 DEF executor_main_skip
  <2>2. CASE core_answers \/ core_other_event \/ link_event_lost
    BY <2>2 DEF core_answers, core_ready, core_request_ok, core_request_fails,
       core_other_event, link_event_lost
  <2>3. CASE host_init \/ host_start \/ host_stop \/ start_steps
    BY <2>3 DEF host_init, host_start, host_stop, start_steps, host_start_clear,
       host_start_core, host_start_done, host_stop_core, core_start_ok, core_start_fails,
       core_stop, core_stop_ok, core_stop_timeout
  <2>4. ASSUME NEW c \in Callers, host_recover(c) \/ recover_steps(c) PROVE Asleep'
    BY <2>4 DEF host_recover, recover_steps, recover_enter, recover_stop, recover_stopped,
       recover_soft_reset, recover_clear, recover_start, recover_leave, core_start_ok,
       core_start_fails, core_stop, core_stop_ok, core_stop_timeout
  <2>5. CASE IperfStep \/ UNCHANGED vars
    BY <2>5 DEF IperfStep, vars, host_vars
  <2> QED
    BY <2>1, <2>2, <2>3, <2>4, <2>5 DEF Next
<1>3. Asleep => ~wifi_initialized /\ ~request /\ apsta = 0
  OBVIOUS
<1> QED
  BY <1>1, <1>2, <1>3, PTL DEF Spec
=============================================================================
