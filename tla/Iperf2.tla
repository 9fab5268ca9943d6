------------------------------- MODULE Iperf2 -------------------------------
(***************************************************************************)
(* The iPerf2 session of iperf2/wlh_rtt_iperf2.c: wlh_rtt_iperf2_start by  *)
(* the application's shell thread, wlh_rtt_iperf2_stop by it or by a       *)
(* recovering caller, and the session threads that run iperf_main.  All of *)
(* them share the one static state with no lock.                           *)
(*                                                                         *)
(* External: sockets.  connect, a UDP send and a UDP receive (200 ms       *)
(* timeout) return in the end; accept, send and recv on TCP return when    *)
(* the peer does its part, which it may never do, or fail once the         *)
(* descriptor is shut down.  Time is up whenever the loop looks.           *)
(***************************************************************************)
EXTENDS Integers, Sequences, FiniteSets

CONSTANTS Callers,      \* threads that call the package
          Shell,        \* the one that runs shell commands
          Roles,        \* of tcp_client, tcp_server, udp_client, udp_server
          MaxSessions   \* bound on the sessions started

ASSUME IperfAssumption ==
  /\ Shell \in Callers
  /\ Roles \subseteq {"tcp_client", "tcp_server", "udp_client", "udp_server"} /\ Roles # {}
  /\ MaxSessions \in Nat

Sessions == 1 .. MaxSessions
Descriptors == {"socket", "data"} \X Sessions
NoFd == <<"none", 0>>

VARIABLES
  running, cancel, socket_fd, data_fd, role,   \* state
  threads,      \* [Sessions -> program counter of the session's thread]
  open, shut,   \* descriptors that are open, and shut down
  shell,        \* the shell inside wlh_rtt_iperf2_start
  stopping      \* [Callers -> program counter inside wlh_rtt_iperf2_stop]

state == <<running, cancel, socket_fd, data_fd, role>>
iperf_vars == <<state, threads, open, shut, shell, stopping>>

Started == Cardinality({n \in Sessions : threads[n] # "none"})
ThreadTo(n, pc) == threads' = [threads EXCEPT ![n] = pc]
StopTo(c, pc) == stopping' = [stopping EXCEPT ![c] = pc]

-----------------------------------------------------------------------------
(* wlh_rtt_iperf2_start: checked, cleared, and running before the thread.   *)
start_check ==
  /\ shell = "idle" /\ stopping[Shell] = "idle" /\ Started < MaxSessions
  /\ ~running
  /\ shell' = "clear"
  /\ UNCHANGED <<state, threads, open, shut, stopping>>

start_clear ==
  /\ shell = "clear"
  /\ running' = FALSE /\ cancel' = FALSE /\ socket_fd' = NoFd /\ data_fd' = NoFd
  /\ role' \in Roles
  /\ shell' = "run"
  /\ UNCHANGED <<threads, open, shut, stopping>>

start_run ==
  /\ shell = "run"
  /\ running' = TRUE
  /\ shell' = "create"
  /\ UNCHANGED <<cancel, socket_fd, data_fd, role, threads, open, shut, stopping>>

start_create(ok) ==
  /\ shell = "create"
  /\ IF ok THEN ThreadTo(Started + 1, "open") /\ UNCHANGED running
           ELSE running' = FALSE /\ UNCHANGED threads
  /\ shell' = "idle"
  /\ UNCHANGED <<cancel, socket_fd, data_fd, role, open, shut, stopping>>

iperf2_start == \/ start_check \/ start_clear \/ start_run
                \/ \E ok \in BOOLEAN : start_create(ok)

-----------------------------------------------------------------------------
(* wlh_rtt_iperf2_stop: nothing if no session runs; else cancel, and shut   *)
(* down the descriptors that are there.  The caller enters at "check".      *)
stop_check(c) ==
  /\ stopping[c] = "check"
  /\ StopTo(c, IF running THEN "cancel" ELSE "idle")
  /\ UNCHANGED <<state, threads, open, shut, shell>>

stop_cancel(c) ==
  /\ stopping[c] = "cancel"
  /\ cancel' = TRUE
  /\ StopTo(c, "data")
  /\ UNCHANGED <<running, socket_fd, data_fd, role, threads, open, shut, shell>>

ShutDown(fd) == shut' = IF fd \in open THEN shut \cup {fd} ELSE shut

stop_data(c) ==
  /\ stopping[c] = "data"
  /\ ShutDown(data_fd)
  /\ StopTo(c, "socket")
  /\ UNCHANGED <<state, threads, open, shell>>

stop_socket(c) ==
  /\ stopping[c] = "socket"
  /\ ShutDown(socket_fd)
  /\ StopTo(c, "idle")
  /\ UNCHANGED <<state, threads, open, shell>>

iperf2_stop(c) == stop_check(c) \/ stop_cancel(c) \/ stop_data(c) \/ stop_socket(c)

-----------------------------------------------------------------------------
(* A session's thread.  Its descriptors are known by its number.            *)
Fd(kind, n) == <<kind, n>>

(* The socket is opened, or the session ends at once.                       *)
session_open(n) ==
  /\ threads[n] = "open"
  /\ \/ /\ open' = open \cup {Fd("socket", n)}
        /\ socket_fd' = Fd("socket", n)
        /\ ThreadTo(n, CASE role = "tcp_client" -> "connect"
                         [] role = "udp_client" -> "loop"
                         [] OTHER -> "bind")
     \/ ThreadTo(n, "close_data") /\ UNCHANGED <<open, socket_fd>>
  /\ UNCHANGED <<running, cancel, data_fd, role, shut, shell, stopping>>

(* connect, or bind and listen, succeed or end the session.                 *)
session_connect(n) ==
  /\ threads[n] \in {"connect", "bind"}
  /\ \/ ThreadTo(n, "close_data")
     \/ ThreadTo(n, IF role = "tcp_server" THEN "accept" ELSE "loop")
  /\ UNCHANGED <<state, open, shut, shell, stopping>>

(* accept gives a connection, or fails: it must once the socket is shut.    *)
session_accept(n) ==
  /\ threads[n] = "accept"
  /\ \/ ThreadTo(n, "close_data") /\ UNCHANGED <<open, data_fd>>
     \/ /\ Fd("socket", n) \notin shut
        /\ open' = open \cup {Fd("data", n)}
        /\ data_fd' = Fd("data", n)
        /\ ThreadTo(n, "loop")
  /\ UNCHANGED <<running, cancel, socket_fd, role, shut, shell, stopping>>

(* The head of each loop: cancelled, time up, or another transfer.          *)
session_loop_time_only(n) ==
  /\ threads[n] = "loop"
  /\ ThreadTo(n, "transfer") \/ ThreadTo(n, "close_data")
  /\ UNCHANGED <<state, open, shut, shell, stopping>>

session_loop(n) ==
  /\ threads[n] = "loop"
  /\ \/ ~cancel /\ ThreadTo(n, "transfer")
     \/ ThreadTo(n, "close_data")
  /\ UNCHANGED <<state, open, shut, shell, stopping>>

Transfers(n) == Fd(IF role = "tcp_server" THEN "data" ELSE "socket", n)

(* send or recv: TCP ends the session on an error, the UDP server goes on.  *)
session_transfer(n) ==
  /\ threads[n] = "transfer"
  /\ \/ Transfers(n) \notin shut /\ ThreadTo(n, "loop")
     \/ role = "udp_server" /\ ThreadTo(n, "loop")
     \/ ThreadTo(n, "close_data")
  /\ UNCHANGED <<state, open, shut, shell, stopping>>

(* iperf_main closes what is open, the data descriptor first, then clears   *)
(* running.                                                                 *)
Close(fd) == open' = open \ {fd} /\ shut' = shut \ {fd}

session_close_data(n) ==
  /\ threads[n] = "close_data"
  /\ Close(data_fd) /\ data_fd' = NoFd
  /\ ThreadTo(n, "close_socket")
  /\ UNCHANGED <<running, cancel, socket_fd, role, shell, stopping>>

session_close_socket_after_end(n) ==
  /\ threads[n] = "close_socket"
  /\ running' = FALSE
  /\ ThreadTo(n, "end")
  /\ UNCHANGED <<cancel, socket_fd, data_fd, role, open, shut, shell, stopping>>

session_close_socket(n) ==
  /\ threads[n] = "close_socket"
  /\ Close(socket_fd) /\ socket_fd' = NoFd
  /\ ThreadTo(n, "end")
  /\ UNCHANGED <<running, cancel, data_fd, role, shell, stopping>>

session_end(n) ==
  /\ threads[n] = "end"
  /\ running' = FALSE
  /\ ThreadTo(n, "gone")
  /\ UNCHANGED <<cancel, socket_fd, data_fd, role, open, shut, shell, stopping>>

(* Steps that return whatever the peer does.                                *)
session_own(n) ==
  \/ session_open(n) \/ session_connect(n) \/ session_loop(n)
  \/ session_close_data(n) \/ session_close_socket(n) \/ session_end(n)
  \/ session_accept(n) /\ Fd("socket", n) \in shut
  \/ session_transfer(n) /\ (role \in {"udp_client", "udp_server"} \/ Transfers(n) \in shut)

session_step(n) == session_own(n) \/ session_accept(n) \/ session_transfer(n)

IperfInit ==
  /\ running = FALSE /\ cancel = FALSE /\ socket_fd = NoFd /\ data_fd = NoFd
  /\ role = "none"
  /\ threads = [n \in Sessions |-> "none"]
  /\ open = {} /\ shut = {}
  /\ shell = "idle" /\ stopping = [c \in Callers |-> "idle"]

-----------------------------------------------------------------------------
(* Every variable of the session has its type.                               *)
IperfTypeOK ==
  /\ running \in BOOLEAN /\ cancel \in BOOLEAN /\ role \in Roles \cup {"none"}
  /\ socket_fd \in Descriptors \cup {NoFd} /\ data_fd \in Descriptors \cup {NoFd}
  /\ threads \in [Sessions -> {"none", "open", "connect", "bind", "accept", "loop",
                               "transfer", "close_data", "close_socket", "end", "gone"}]
  /\ open \in SUBSET Descriptors /\ shut \subseteq open
  /\ shell \in {"idle", "clear", "run", "create"}
  /\ stopping \in [Callers -> {"idle", "check", "cancel", "data", "socket"}]

Busy(n) == threads[n] \notin {"none", "gone"}

(* One session at a time: two session threads never share the state, no      *)
(* start clears it under one, and no descriptor is lost, because running is  *)
(* cleared only after the thread has closed what it opened.                  *)
SessionOwnsState ==
  /\ \A n \in Sessions : Busy(n) =>
       /\ running /\ shell \notin {"run", "create"}
       /\ \A m \in Sessions \ {n} : ~Busy(m)
  /\ open = {socket_fd, data_fd} \ {NoFd}

(* A stopped session ends: as soon as cancel is set, even if stop found no   *)
(* descriptor because the thread had not opened it yet, or, for a TCP        *)
(* server, once a descriptor was shut down as well.                          *)
SessionAlive == \E n \in Sessions : Busy(n)
StopEndsSession ==
  (SessionAlive /\ cancel /\ (role # "tcp_server" \/ shut # {})) ~> ~SessionAlive

=============================================================================
