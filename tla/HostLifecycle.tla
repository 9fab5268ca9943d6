--------------------------- MODULE HostLifecycle ---------------------------
(***************************************************************************)
(* The host facade (src/wlh_rtt_host.c), the executor thread and the       *)
(* initialisation of APSTA (src/wlh_rtt_lifecycle.c), composed with the    *)
(* iPerf2 session that recovery stops.                                     *)
(*                                                                         *)
(* Threads: the callers of the package, of which Shell alone starts and    *)
(* stops the host and any may recover it; the executor, which runs what    *)
(* Core posts, in order; the session threads of Iperf2.  wlh_rtt_wlan_reset*)
(* and wlh_rtt_wlan_event, called on the way, are WlanControl and          *)
(* ApClients: they touch no state of this module.                          *)
(*                                                                         *)
(* Assumed: nothing orders start and stop against a recovery in progress,  *)
(* so the application has to; here it does.  It starts an iPerf2 session   *)
(* only while wifi_initialized is set: there is no network before.         *)
(*                                                                         *)
(* External: Host Core.  start begins a session or fails; a session        *)
(* becomes ready, posting a STATE_CHANGED event, or fails; an accepted     *)
(* request is completed once, on the executor; stop fails the outstanding  *)
(* request and returns OK only when everything it posted has run, or gives *)
(* up after stop_timeout_ms.  A post that finds the queue full is lost;    *)
(* Core is not assumed to notice a job that executor_main drops.           *)
(***************************************************************************)
EXTENDS Iperf2, MessageQueue

CONSTANTS ExecutorDepth,   \* WLH_RTT_EXECUTOR_DEPTH
          MaxCoreStarts    \* bound on the sessions of Core

ASSUME HostAssumption ==
  /\ ExecutorDepth \in Nat \ {0} /\ MaxCoreStarts \in Nat

CoreSessions == 0 .. MaxCoreStarts

VARIABLES
  initialized, started, recovering, wifi_initialized, recoveries,   \* host
  call,              \* [Callers -> where in start, stop or recover]
  result,            \* [Callers -> RT_EOK or not: recover's local]
  executor_queue,    \* what Core has posted
  executor,          \* "idle", or "submit" between host_event's check and submit
  core,              \* "down", "starting", "ready", "stopping", "failed"
  session,           \* number of the session Core began last
  request,           \* Core holds an initialise request of this package
  apsta,             \* session in which the coprocessor initialised APSTA
  missed,            \* this session's READY or initialisation was lost or failed
  skipped            \* executor_main dropped this session's READY or an answer

facade == <<initialized, started, recovering, wifi_initialized, recoveries>>
outside == <<core, session, request, apsta, missed, skipped>>
host_vars == <<facade, call, result, executor_queue, executor, outside>>
vars == <<iperf_vars, host_vars>>

CallTo(c, pc) == call' = [call EXCEPT ![c] = pc]
AllIdle == \A c \in Callers : call[c] = "idle" /\ stopping[c] = "idle"

(* executor_post: refused when the queue is full.                           *)
Full == Len(executor_queue) >= ExecutorDepth
executor_post_unbounded(job) == executor_queue' = Append(executor_queue, job)

executor_post(job) ==
  executor_queue' = IF Full THEN executor_queue ELSE Append(executor_queue, job)

-----------------------------------------------------------------------------
(* wlh_host_start and the end of wlh_host_stop, as Core answers them.       *)
core_start_ok == /\ core = "down" /\ session < MaxCoreStarts
                 /\ core' = "starting" /\ session' = session + 1 /\ missed' = FALSE
                 /\ skipped' = FALSE /\ UNCHANGED <<request, apsta>>
core_start_fails == UNCHANGED outside

core_stop == core' = "stopping" /\ UNCHANGED <<session, request, apsta, missed, skipped>>
core_stop_ok == /\ executor_queue = <<>> /\ executor = "idle" /\ ~request
                /\ core' = "down" /\ UNCHANGED <<session, request, apsta, missed, skipped>>
core_stop_timeout == core' = "failed" /\ UNCHANGED <<session, request, apsta, missed, skipped>>

-----------------------------------------------------------------------------
(* wlh_rtt_host_init, called from wlh_rtt_host_default_start: everything is *)
(* zeroed and created, or rolled back.                                      *)
host_init ==
  /\ ~initialized /\ call[Shell] = "idle"
  /\ initialized' \in BOOLEAN
  /\ CallTo(Shell, IF initialized' THEN "start_clear" ELSE "idle")
  /\ started' = FALSE /\ recovering' = FALSE /\ wifi_initialized' = FALSE /\ recoveries' = 0
  /\ UNCHANGED <<iperf_vars, result, executor_queue, executor, outside>>

(* wlh_rtt_host_start.                                                      *)
host_start ==
  /\ initialized /\ AllIdle /\ shell = "idle" /\ ~started
  /\ CallTo(Shell, "start_clear")
  /\ UNCHANGED <<iperf_vars, facade, result, executor_queue, executor, outside>>

host_start_clear ==
  /\ call[Shell] = "start_clear"
  /\ wifi_initialized' = FALSE
  /\ CallTo(Shell, "start_core")
  /\ UNCHANGED <<iperf_vars, initialized, started, recovering, recoveries, result,
                 executor_queue, executor, outside>>

host_start_core ==
  /\ call[Shell] = "start_core"
  /\ \/ core_start_ok /\ CallTo(Shell, "start_done")
     \/ core_start_fails /\ CallTo(Shell, "idle")
  /\ UNCHANGED <<iperf_vars, facade, result, executor_queue, executor>>

host_start_done ==
  /\ call[Shell] = "start_done"
  /\ started' = TRUE
  /\ CallTo(Shell, "idle")
  /\ UNCHANGED <<iperf_vars, initialized, recovering, wifi_initialized, recoveries,
                 result, executor_queue, executor, outside>>

(* wlh_rtt_host_stop: wifi_initialized goes before Core is stopped, started *)
(* only when it was.                                                        *)
host_stop ==
  /\ AllIdle /\ shell = "idle" /\ started
  /\ wifi_initialized' = FALSE
  /\ core_stop
  /\ CallTo(Shell, "stop_core")
  /\ UNCHANGED <<iperf_vars, initialized, started, recovering, recoveries, result,
                 executor_queue, executor>>

host_stop_core ==
  /\ call[Shell] = "stop_core"
  /\ \/ core_stop_ok /\ started' = FALSE
     \/ core_stop_timeout /\ UNCHANGED started
  /\ CallTo(Shell, "idle")
  /\ UNCHANGED <<iperf_vars, initialized, recovering, wifi_initialized, recoveries,
                 result, executor_queue, executor>>

-----------------------------------------------------------------------------
(* wlh_rtt_host_recover by caller c.  started is read before the lock.      *)
host_recover(c) ==
  /\ call[c] = "idle" /\ stopping[c] = "idle" /\ (c = Shell => shell = "idle")
  /\ call[Shell] \notin {"start_clear", "start_core", "start_done", "stop_core"}
  /\ started /\ session < MaxCoreStarts   \* the second is the bound
  /\ CallTo(c, "recover")
  /\ UNCHANGED <<iperf_vars, facade, result, executor_queue, executor, outside>>

(* Only one caller goes on; it enters wlh_rtt_iperf2_stop.                  *)
recover_enter_unchecked(c) ==
  /\ call[c] = "recover"
  /\ recovering' = TRUE
  /\ CallTo(c, "iperf") /\ StopTo(c, "check")
  /\ UNCHANGED <<state, threads, open, shut, shell, initialized, started, wifi_initialized,
                 recoveries, result, executor_queue, executor, outside>>

recover_enter(c) ==
  /\ call[c] = "recover"
  /\ IF recovering
     THEN CallTo(c, "idle") /\ UNCHANGED <<recovering, stopping>>
     ELSE recovering' = TRUE /\ CallTo(c, "iperf") /\ StopTo(c, "check")
  /\ UNCHANGED <<state, threads, open, shut, shell, initialized, started, wifi_initialized,
                 recoveries, result, executor_queue, executor, outside>>

recover_stop(c) ==
  /\ call[c] = "iperf" /\ stopping[c] = "idle"
  /\ core_stop
  /\ CallTo(c, "stop")
  /\ UNCHANGED <<iperf_vars, facade, result, executor_queue, executor>>

(* The soft reset is skipped when the stop failed, and may fail itself.     *)
recover_stopped(c) ==
  /\ call[c] = "stop"
  /\ \/ core_stop_ok /\ result' = [result EXCEPT ![c] = "RT_EOK"] /\ CallTo(c, "reset")
     \/ core_stop_timeout /\ result' = [result EXCEPT ![c] = "error"] /\ CallTo(c, "clear")
  /\ UNCHANGED <<iperf_vars, facade, executor_queue, executor>>

recover_soft_reset(c) ==
  /\ call[c] = "reset"
  /\ \/ apsta' = 0 /\ UNCHANGED result
     \/ result' = [result EXCEPT ![c] = "error"] /\ UNCHANGED apsta
  /\ CallTo(c, "clear")
  /\ UNCHANGED <<iperf_vars, facade, executor_queue, executor, core, session, request,
                 missed, skipped>>

recover_clear_none(c) ==
  /\ call[c] = "clear"
  /\ CallTo(c, "start")
  /\ UNCHANGED <<iperf_vars, facade, result, executor_queue, executor, outside>>

recover_clear(c) ==
  /\ call[c] = "clear"
  /\ wifi_initialized' = FALSE
  /\ CallTo(c, "start")
  /\ UNCHANGED <<iperf_vars, initialized, started, recovering, recoveries, result,
                 executor_queue, executor, outside>>

recover_start(c) ==
  /\ call[c] = "start"
  /\ \/ result[c] = "RT_EOK" /\ core_start_ok /\ UNCHANGED result
     \/ result[c] = "RT_EOK" /\ core_start_fails /\ result' = [result EXCEPT ![c] = "error"]
     \/ result[c] # "RT_EOK" /\ UNCHANGED <<result, outside>>
  /\ CallTo(c, "leave")
  /\ UNCHANGED <<iperf_vars, facade, executor_queue, executor>>

(* Counted, or handed to fatal_recovery; recovering is cleared either way,  *)
(* without the lock.                                                        *)
recover_leave_on_success(c) ==
  /\ call[c] = "leave"
  /\ recoveries' = recoveries + (IF result[c] = "RT_EOK" THEN 1 ELSE 0)
  /\ recovering' = (result[c] # "RT_EOK")
  /\ result' = [result EXCEPT ![c] = "RT_EOK"]
  /\ CallTo(c, "idle")
  /\ UNCHANGED <<iperf_vars, initialized, started, wifi_initialized, executor_queue,
                 executor, outside>>

recover_leave(c) ==
  /\ call[c] = "leave"
  /\ recoveries' = recoveries + (IF result[c] = "RT_EOK" THEN 1 ELSE 0)
  /\ recovering' = FALSE
  /\ result' = [result EXCEPT ![c] = "RT_EOK"]
  /\ CallTo(c, "idle")
  /\ UNCHANGED <<iperf_vars, initialized, started, wifi_initialized, executor_queue,
                 executor, outside>>

recover_steps(c) ==
  \/ recover_enter(c) \/ recover_stop(c) \/ recover_stopped(c) \/ recover_soft_reset(c)
  \/ recover_clear(c) \/ recover_start(c) \/ recover_leave(c)

-----------------------------------------------------------------------------
(* executor_main receives one job, and runs it if the result is RT_EOK.     *)
executor_main_recv(jobs) ==
  /\ executor = "idle" /\ executor_queue # <<>> /\ Head(executor_queue) \in jobs
  /\ RT_EOK \in RecvResults

(* On any other result the job is dropped.                                  *)
executor_main_skip ==
  /\ executor = "idle" /\ executor_queue # <<>> /\ RecvResults # {RT_EOK}
  /\ executor_queue' = Tail(executor_queue)
  /\ skipped' = (skipped \/ Head(executor_queue) # "other")
  /\ UNCHANGED <<iperf_vars, facade, call, result, executor, core, session, request,
                 apsta, missed>>

(* host_event reads wifi_initialized ...                                    *)
host_event_not_recovering ==
  /\ executor_main_recv({"READY", "other"})
  /\ executor_queue' = Tail(executor_queue)
  /\ executor' = IF Head(executor_queue) = "READY" /\ ~wifi_initialized /\ ~recovering
                 THEN "submit" ELSE "idle"
  /\ UNCHANGED <<iperf_vars, facade, call, result, outside>>

host_event ==
  /\ executor_main_recv({"READY", "other"})
  /\ executor_queue' = Tail(executor_queue)
  /\ executor' = IF Head(executor_queue) = "READY" /\ ~wifi_initialized
                 THEN "submit" ELSE "idle"
  /\ UNCHANGED <<iperf_vars, facade, call, result, outside>>

(* ... and then submits the initialisation, which Core may refuse: it does  *)
(* when it has left the ready state.                                        *)
host_event_submit ==
  /\ executor = "submit"
  /\ \/ core = "ready" /\ ~request /\ request' = TRUE /\ UNCHANGED missed
     \/ missed' = TRUE /\ UNCHANGED request
  /\ executor' = "idle"
  /\ UNCHANGED <<iperf_vars, facade, call, result, executor_queue, core, session, apsta,
                 skipped>>

(* ... or wifi_initialize_complete takes the result, of no matter which     *)
(* session.                                                                 *)
wifi_initialize_complete ==
  /\ executor_main_recv({"ok", "failed"})
  /\ executor_queue' = Tail(executor_queue)
  /\ wifi_initialized' = (wifi_initialized \/ Head(executor_queue) = "ok")
  /\ UNCHANGED <<iperf_vars, initialized, started, recovering, recoveries, call, result,
                 executor, outside>>

executor_main ==
  executor_main_skip \/ host_event \/ host_event_submit \/ wifi_initialize_complete

-----------------------------------------------------------------------------
(* Core and the coprocessor.                                                *)
core_ready ==
  /\ core = "starting"
  /\ core' = "ready"
  /\ executor_post("READY") /\ missed' = Full
  /\ UNCHANGED <<iperf_vars, facade, call, result, executor, session, request, apsta,
                 skipped>>

core_other_event ==
  /\ core = "ready"
  /\ executor_post("other")
  /\ UNCHANGED <<iperf_vars, facade, call, result, executor, outside>>

core_request_ok ==
  /\ request /\ core = "ready"
  /\ request' = FALSE /\ apsta' = session
  /\ executor_post("ok") /\ missed' = (missed \/ Full)
  /\ UNCHANGED <<iperf_vars, facade, call, result, executor, core, session, skipped>>

core_request_fails ==
  /\ request
  /\ request' = FALSE /\ missed' = TRUE
  /\ executor_post("failed")
  /\ UNCHANGED <<iperf_vars, facade, call, result, executor, core, session, apsta,
                 skipped>>

(* A transport that cannot start, a missed heartbeat, or                    *)
(* wlh_rtt_host_link_event.                                                 *)
link_event_lost ==
  /\ core \in {"starting", "ready"}
  /\ core' = "failed"
  /\ UNCHANGED <<iperf_vars, facade, call, result, executor_queue, executor, session,
                 request, apsta, missed, skipped>>

core_answers == core_ready \/ core_request_ok \/ core_request_fails

-----------------------------------------------------------------------------
Init ==
  /\ IperfInit
  /\ initialized = FALSE /\ started = FALSE /\ recovering = FALSE
  /\ wifi_initialized = FALSE /\ recoveries = 0
  /\ call = [c \in Callers |-> "idle"] /\ result = [c \in Callers |-> "RT_EOK"]
  /\ executor_queue = <<>> /\ executor = "idle"
  /\ core = "down" /\ session = 0 /\ request = FALSE /\ apsta = 0
  /\ missed = FALSE /\ skipped = FALSE

(* Steps of Iperf2 by threads that are not inside the facade.               *)
IperfStep ==
  /\ \/ call[Shell] = "idle" /\ (shell = "idle" => wifi_initialized) /\ iperf2_start
     \/ \E c \in Callers : iperf2_stop(c)
     \/ \E n \in Sessions : session_step(n)
     \/ /\ call[Shell] = "idle" /\ shell = "idle" /\ stopping[Shell] = "idle" /\ Started > 0
        /\ StopTo(Shell, "check")
        /\ UNCHANGED <<state, threads, open, shut, shell>>
  /\ UNCHANGED host_vars

start_steps == host_start_clear \/ host_start_core \/ host_start_done \/ host_stop_core

Next ==
  \/ IperfStep
  \/ host_init \/ host_start \/ host_stop \/ start_steps
  \/ \E c \in Callers : host_recover(c) \/ recover_steps(c)
  \/ executor_main
  \/ core_answers \/ core_other_event \/ link_event_lost

Spec == Init /\ [][Next]_vars

(* Threads inside a call, the executor and the session's own steps go on;   *)
(* Core answers, and its stop returns.  What the peer of a TCP session does *)
(* is not fair, nor is a new call.                                          *)
FairSpec ==
  /\ Spec
  /\ WF_vars(iperf2_start /\ shell # "idle" /\ UNCHANGED host_vars)
  /\ \A c \in Callers : WF_vars(iperf2_stop(c) /\ UNCHANGED host_vars)
  /\ WF_vars((\E n \in Sessions : session_own(n)) /\ UNCHANGED host_vars)
  /\ \A c \in Callers : WF_vars(recover_steps(c))
  /\ WF_vars(executor_main) /\ WF_vars(core_answers)

-----------------------------------------------------------------------------
Body == {"iperf", "stop", "reset", "clear", "start", "leave"}

(* Every variable has its type, and recoveries counts sessions of Core.      *)
TypeOK ==
  /\ IperfTypeOK
  /\ {initialized, started, recovering, wifi_initialized, request, missed, skipped}
       \subseteq BOOLEAN
  /\ recoveries \in 0 .. session
  /\ call \in [Callers -> Body \cup {"idle", "start_clear", "start_core", "start_done",
                                     "stop_core", "recover"}]
  /\ result \in [Callers -> {"RT_EOK", "error"}]
  /\ executor_queue \in Seq({"READY", "other", "ok", "failed"})
  /\ Len(executor_queue) <= ExecutorDepth
  /\ executor \in {"idle", "submit"}
  /\ core \in {"down", "starting", "ready", "stopping", "failed"}
  /\ session \in CoreSessions /\ apsta \in CoreSessions

(* Two recoveries never overlap although started is read, and recovering     *)
(* cleared, outside the lock, and recovering is set all the while.           *)
RecoverExclusive ==
  \A c \in Callers : call[c] \in Body =>
    recovering /\ \A d \in Callers \ {c} : call[d] \notin Body

(* wifi_initialized speaks of the session that is up: a ready session that   *)
(* has it set was initialised itself, whatever completions of the one before *)
(* were still under way when it was stopped.                                 *)
ApstaFollowsSession == wifi_initialized /\ core = "ready" => apsta = session

(* Every session that becomes ready is given APSTA, the ones that recovery   *)
(* rebuilt too, unless it ends first, the coprocessor or Core refuses, the   *)
(* full executor queue lost the event, or executor_main dropped it.          *)
ReadyGetsApsta ==
  core = "ready" ~> wifi_initialized \/ missed \/ skipped \/ core # "ready"

(* A recovery ends, however it fails, and lets the next one in.              *)
RecoverEnds == recovering ~> ~recovering

-----------------------------------------------------------------------------
(* A claim of the package's README that the code does not keep: recovery     *)
(* "stops iPerf2".  A session that the recovery cancelled ends.              *)
RecoveryStopsIperf == (recovering /\ cancel /\ SessionAlive) ~> ~SessionAlive

(* Another: recovery "rebuilds the Session, and initializes APSTA again".     *)
(* A session that stays ready, and whose events and answers are not lost,    *)
(* refused or failed, gets APSTA.                                            *)
ReadyInitializes == core = "ready" ~> wifi_initialized \/ missed \/ core # "ready"
=============================================================================
