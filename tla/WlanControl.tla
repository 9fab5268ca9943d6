----------------------------- MODULE WlanControl -----------------------------
(***************************************************************************)
(* The WLAN control plane: one management request per interface with       *)
(* bounded completion slots (src/wlh_rtt_request.c), the RT-Thread WLAN    *)
(* device operations that begin requests (wlan/wlh_rtt_wlan.c), the Host   *)
(* Core events that end them (wlan/wlh_rtt_wlan_event.c) and the reset     *)
(* that host stop and recovery perform (wlh_rtt_wlan_reset).               *)
(*                                                                         *)
(* Threads.  RT-Thread serialises the device operations of one WLAN device *)
(* with the device's mutex, so each interface has one operation thread     *)
(* (op[i]).  Host Core runs completions and events one at a time on the    *)
(* executor thread (ex).  Recovery runs on its caller's thread (rs).       *)
(* host->lock makes each of request_begin, _abort, _finish and the         *)
(* critical section of _complete one step; everything else is read and     *)
(* written outside it, so a step ends wherever a thread leaves a decision  *)
(* it made on unlocked state for a later statement.                        *)
(*                                                                         *)
(* External: Host Core and the coprocessor (rpc, scans, peer, session) are *)
(* modelled from how this code uses them: an accepted request is completed *)
(* exactly once, OK or not; an OK scan ends with a SCAN_COMPLETED event    *)
(* for its scan_id and one that timed out may still do so; CONNECTED and   *)
(* DISCONNECTED follow the coprocessor's link; a stopped Core rejects      *)
(* requests, fails the outstanding ones and delivers no more events.  Each *)
(* completion and event is posted to the executor's queue, and any of them *)
(* may be lost on the way: the queue is full, or executor_main receives it *)
(* with a result other than RT_EOK and drops it.                           *)
(***************************************************************************)
EXTENDS MessageQueue, Sequences, FiniteSets

CONSTANTS Interfaces,     \* the interfaces in use, a subset of {"STA", "AP"}
          Slots,          \* 1 .. WLH_RTT_REQUEST_COMPLETION_SLOTS
          GenMod,         \* 2^32: generations are modulo GenMod
          MaxRequests,    \* bound on the requests begun in a behaviour
          MaxResets       \* bound on the recoveries in a behaviour

ASSUME ControlAssumption ==
  /\ Interfaces \subseteq {"STA", "AP"} /\ Interfaces # {}
  /\ Slots \in SUBSET Nat /\ Slots # {}
  /\ GenMod \in Nat /\ GenMod > 2
  /\ MaxRequests \in Nat /\ MaxRequests < GenMod - 1
  /\ MaxResets \in Nat

Kinds == {"NONE", "SCAN", "CONNECT", "DISCONNECT", "AP_START", "AP_STOP"}
Generations == 0 .. GenMod - 1
Requests == [active : BOOLEAN, kind : Kinds, generation : Generations]
NoRequest == [active |-> FALSE, kind |-> "NONE", generation |-> 0]
Completions == [in_use : BOOLEAN, kind : Kinds, generation : Generations]
Rpcs == [interface : Interfaces, slot : Slots, kind : Kinds, generation : Generations]
Operations == [pc : {"idle", "submit", "abort", "stop_finish", "stop_report"}, slot : Slots]
Reports == {"SCAN_DONE", "SCAN_REPORT", "CONNECT", "CONNECT_FAIL", "DISCONNECT",
            "AP_START", "AP_STOP", "NONE"}

VARIABLES
  request,          \* [Interfaces -> Requests]: interface->request
  completions,      \* [Interfaces -> [Slots -> Completions]]
  next_generation,  \* host->next_generation
  active,           \* [Interfaces -> BOOLEAN]: interface->active
  op, ex, rs,       \* program counters and locals of the three kinds of thread
  link,             \* RT-Thread's view of each device: "up" or "down"
  rpc,              \* requests Host Core has accepted and not completed
  scans,            \* scan_ids the coprocessor will still complete
  peer,             \* the coprocessor's link of each interface
  session,          \* "ready" or "stopped"
  begun, resets,    \* how many requests and recoveries there have been
  lost, lost_scans  \* completions, and scan_ids whose completion, never ran

host == <<request, completions, next_generation, active>>
core == <<rpc, scans, peer, session>>
losses == <<lost, lost_scans>>
vars == <<host, op, ex, rs, link, core, begun, resets, losses>>

-----------------------------------------------------------------------------
(* wlh_rtt_next_generation: 0 means "no request" and is skipped.            *)
next_generation_unbounded(c) == IF c = 0 THEN 1 ELSE c + 1

next_generation_zero(c) == (c + 1) % GenMod

wlh_rtt_next_generation(c) == LET n == (c + 1) % GenMod IN IF n = 0 THEN 1 ELSE n

(* The request a completion or an abort speaks for is still the active one. *)
Matches_kind_only(i, c) == request[i].active /\ request[i].kind = c.kind

Matches(i, c) == /\ request[i].active
                 /\ request[i].kind = c.kind
                 /\ request[i].generation = c.generation

(* rt_wlan_dev_indicate_event_handle, by its effect on RT-Thread's link.    *)
report_event(i, event) ==
  link' = [link EXCEPT ![i] =
             IF event \in {"CONNECT", "AP_START"} THEN "up"
             ELSE IF event \in {"DISCONNECT", "AP_STOP"} THEN "down" ELSE @]

(* wlh_rtt_request_finish ends whatever request of this kind is active.     *)
request_finish(i, kind) ==
  request' = IF request[i].active /\ request[i].kind = kind
             THEN [request EXCEPT ![i] = NoRequest] ELSE request

-----------------------------------------------------------------------------
(* Device operations, on the caller's thread.                               *)

(* request_begin takes the first free slot, or the operation is EBUSY.      *)
request_begin(i, kind) ==
  /\ op[i].pc = "idle"
  /\ begun < MaxRequests
  /\ ~request[i].active
  /\ \E s \in Slots :
       /\ ~completions[i][s].in_use
       /\ \A t \in Slots : t < s => completions[i][t].in_use
       /\ LET g == wlh_rtt_next_generation(next_generation) IN
            /\ next_generation' = g
            /\ request' = [request EXCEPT ![i] =
                             [active |-> TRUE, kind |-> kind, generation |-> g]]
            /\ completions' = [completions EXCEPT ![i][s] =
                                 [in_use |-> TRUE, kind |-> kind, generation |-> g]]
            /\ op' = [op EXCEPT ![i] = [pc |-> "submit", slot |-> s]]
  /\ begun' = begun + 1
  /\ UNCHANGED <<active, ex, rs, link, core, resets, losses>>

(* wlh_host_wifi_*: Core takes the request, or refuses it.                  *)
submit(i) ==
  /\ op[i].pc = "submit"
  /\ LET s == op[i].slot
         c == completions[i][s]
     IN \/ /\ session = "ready"
           /\ rpc' = rpc \cup {[interface |-> i, slot |-> s, kind |-> c.kind,
                                generation |-> c.generation]}
           /\ op' = [op EXCEPT ![i].pc = "idle"]
        \/ /\ op' = [op EXCEPT ![i].pc = "abort"]
           /\ UNCHANGED rpc
  /\ UNCHANGED <<host, ex, rs, link, scans, peer, session, begun, resets, losses>>

(* wlh_rtt_request_abort.                                                   *)
request_abort(i) ==
  /\ op[i].pc = "abort"
  /\ LET s == op[i].slot IN
       /\ request' = IF Matches(i, completions[i][s])
                     THEN [request EXCEPT ![i] = NoRequest] ELSE request
       /\ completions' = [completions EXCEPT ![i][s].in_use = FALSE]
  /\ op' = [op EXCEPT ![i].pc = "idle"]
  /\ UNCHANGED <<next_generation, active, ex, rs, link, core, begun, resets, losses>>

(* The operations begin a request of their kind once their arguments are    *)
(* accepted; a refused argument changes nothing.                            *)
wlan_scan == "STA" \in Interfaces /\ request_begin("STA", "SCAN")
wlan_join == "STA" \in Interfaces /\ request_begin("STA", "CONNECT")
wlan_disconnect == "STA" \in Interfaces /\ request_begin("STA", "DISCONNECT")
wlan_softap == "AP" \in Interfaces /\ request_begin("AP", "AP_START")
wlan_ap_stop == "AP" \in Interfaces /\ request_begin("AP", "AP_STOP")

(* wlan_scan_stop: an unlocked check, then request_finish, then SCAN_DONE.  *)
scan_stop_check ==
  /\ "STA" \in Interfaces
  /\ op["STA"].pc = "idle"
  /\ request["STA"].active /\ request["STA"].kind = "SCAN"
  /\ op' = [op EXCEPT !["STA"].pc = "stop_finish"]
  /\ UNCHANGED <<host, ex, rs, link, core, begun, resets, losses>>

scan_stop_finish ==
  /\ "STA" \in Interfaces
  /\ op["STA"].pc = "stop_finish"
  /\ request_finish("STA", "SCAN")
  /\ op' = [op EXCEPT !["STA"].pc = "stop_report"]
  /\ UNCHANGED <<completions, next_generation, active, ex, rs, link, core, begun, resets, losses>>

scan_stop_report ==
  /\ "STA" \in Interfaces
  /\ op["STA"].pc = "stop_report"
  /\ report_event("STA", "SCAN_DONE")
  /\ op' = [op EXCEPT !["STA"].pc = "idle"]
  /\ UNCHANGED <<host, ex, rs, core, begun, resets, losses>>

-----------------------------------------------------------------------------
(* Completions and events, on the executor thread.                          *)

(* executor_main runs the job it received.                                  *)
ExIdle == ex.pc = "idle" /\ RT_EOK \in RecvResults
ExTo(pc, i, event, id) == ex' = [pc |-> pc, interface |-> i, event |-> event, id |-> id]
ExDone == ex' = [ex EXCEPT !.pc = "idle"]

(* What request_complete reports to RT-Thread for a failed request.         *)
FailureReport(kind) ==
  CASE kind = "SCAN" -> "SCAN_DONE"
    [] kind = "CONNECT" -> "CONNECT_FAIL"
    [] kind = "DISCONNECT" -> "DISCONNECT"
    [] OTHER -> "AP_STOP"

(* How the coprocessor answers: an OK scan will complete, and one whose     *)
(* request timed out may; an OK connect starts joining, an OK disconnect    *)
(* starts leaving.                                                          *)
CoreAnswers(r, ok) ==
  /\ rpc' = rpc \ {r}
  /\ scans' \in IF session = "stopped" \/ r.kind # "SCAN" THEN {scans}
                ELSE IF ok THEN {scans \cup {r.generation}}
                ELSE {scans, scans \cup {r.generation}}
  /\ peer' = IF ~ok THEN peer
             ELSE CASE r.kind \in {"CONNECT", "AP_START"} ->
                         [peer EXCEPT ![r.interface] = "joining"]
                    [] r.kind \in {"DISCONNECT", "AP_STOP"} ->
                         [peer EXCEPT ![r.interface] = "leaving"]
                    [] OTHER -> peer
  /\ UNCHANGED session

request_complete_keeps_slot(r, ok) ==
  LET i == r.interface
      c == completions[i][r.slot]
      matched == Matches(i, c)
  IN /\ ExIdle
     /\ ok => session = "ready"
     /\ CoreAnswers(r, ok)
     /\ request' = IF ~ok /\ matched THEN [request EXCEPT ![i] = NoRequest] ELSE request
     /\ completions' = IF matched THEN [completions EXCEPT ![i][r.slot].in_use = FALSE]
                                  ELSE completions
     /\ IF ok \/ ~matched THEN UNCHANGED ex
                          ELSE ExTo("report", i, FailureReport(c.kind), c.generation)
     /\ UNCHANGED <<next_generation, active, op, rs, link, begun, resets, losses>>

(* wlh_rtt_request_complete for the accepted request r.                     *)
request_complete(r, ok) ==
  LET i == r.interface
      c == completions[i][r.slot]
      matched == Matches(i, c)
  IN /\ ExIdle
     /\ ok => session = "ready"
     /\ CoreAnswers(r, ok)
     /\ request' = IF ~ok /\ matched THEN [request EXCEPT ![i] = NoRequest] ELSE request
     /\ completions' = [completions EXCEPT ![i][r.slot].in_use = FALSE]
     /\ IF ok \/ ~matched THEN UNCHANGED ex
                          ELSE ExTo("report", i, FailureReport(c.kind), c.generation)
     /\ UNCHANGED <<next_generation, active, op, rs, link, begun, resets, losses>>

(* The unlocked check of report_scan_result and report_scan_complete.       *)
ScanIsCurrent(id) == /\ "STA" \in Interfaces
                     /\ request["STA"].active
                     /\ request["STA"].kind = "SCAN"
                     /\ request["STA"].generation = id

(* report_scan_result: results are passed on after the check.               *)
report_scan_result(id) ==
  /\ ExIdle /\ id \in scans
  /\ ScanIsCurrent(id)
  /\ ExTo("report", "STA", "SCAN_REPORT", id)
  /\ UNCHANGED <<host, op, rs, link, core, begun, resets, losses>>

report_scan_complete_no_finish(id) ==
  /\ ExIdle /\ id \in scans
  /\ scans' = scans \ {id}
  /\ IF ScanIsCurrent(id) THEN ExTo("report", "STA", "SCAN_DONE", id) ELSE UNCHANGED ex
  /\ UNCHANGED <<host, op, rs, link, rpc, peer, session, begun, resets, losses>>

(* report_scan_complete: check, then request_finish, then SCAN_DONE.        *)
report_scan_complete(id) ==
  /\ ExIdle /\ id \in scans
  /\ scans' = scans \ {id}
  /\ IF ScanIsCurrent(id) THEN ExTo("finish", "STA", "SCAN_DONE", id) ELSE UNCHANGED ex
  /\ UNCHANGED <<host, op, rs, link, rpc, peer, session, begun, resets, losses>>

report_connected_not_active(i) ==
  /\ ExIdle /\ peer[i] = "joining"
  /\ peer' = [peer EXCEPT ![i] = "up"]
  /\ ExTo("finish", i, IF i = "STA" THEN "CONNECT" ELSE "AP_START", 0)
  /\ UNCHANGED <<host, op, rs, link, rpc, scans, session, begun, resets, losses>>

(* report_connected and report_disconnected up to interface->active.        *)
report_connected(i) ==
  /\ ExIdle /\ peer[i] = "joining"
  /\ peer' = [peer EXCEPT ![i] = "up"]
  /\ active' = [active EXCEPT ![i] = TRUE]
  /\ ExTo("finish", i, IF i = "STA" THEN "CONNECT" ELSE "AP_START", 0)
  /\ UNCHANGED <<request, completions, next_generation, op, rs, link, rpc, scans,
                 session, begun, resets, losses>>

report_disconnected(i) ==
  /\ ExIdle /\ peer[i] \in {"joining", "up", "leaving"}
  /\ peer' = [peer EXCEPT ![i] = "down"]
  /\ active' = [active EXCEPT ![i] = FALSE]
  /\ ExTo("finish", i, IF i = "STA" THEN "DISCONNECT" ELSE "AP_STOP", 0)
  /\ UNCHANGED <<request, completions, next_generation, op, rs, link, rpc, scans,
                 session, begun, resets, losses>>

(* ... each followed by request_finish for the kind the event answers ...   *)
ex_finish ==
  /\ ex.pc = "finish"
  /\ request_finish(ex.interface, IF ex.event = "SCAN_DONE" THEN "SCAN" ELSE ex.event)
  /\ ex' = [ex EXCEPT !.pc = "report"]
  /\ UNCHANGED <<completions, next_generation, active, op, rs, link, core, begun, resets, losses>>

(* ... and the report to RT-Thread.                                         *)
ex_report ==
  /\ ex.pc = "report"
  /\ report_event(ex.interface, ex.event)
  /\ ExDone
  /\ UNCHANGED <<host, op, rs, core, begun, resets, losses>>

-----------------------------------------------------------------------------
(* What is lost: Core's answer to r is not delivered, and its slot stays    *)
(* taken; the end of a scan, or a change of the link, is not reported.      *)
completion_lost(r, ok) ==
  /\ ok => session = "ready"
  /\ CoreAnswers(r, ok)
  /\ lost' = lost \cup {r}
  /\ UNCHANGED <<host, op, ex, rs, link, begun, resets, lost_scans>>

scan_event_lost(id) ==
  /\ id \in scans
  /\ scans' = scans \ {id}
  /\ lost_scans' = lost_scans \cup {id}
  /\ UNCHANGED <<host, op, ex, rs, link, rpc, peer, session, begun, resets, lost>>

link_event_lost(i) ==
  /\ \/ peer[i] = "joining" /\ peer' = [peer EXCEPT ![i] = "up"]
     \/ peer[i] # "down" /\ peer' = [peer EXCEPT ![i] = "down"]
  /\ UNCHANGED <<host, op, ex, rs, link, rpc, scans, session, begun, resets, losses>>

-----------------------------------------------------------------------------
(* wlh_rtt_host_recover as far as the control plane is concerned:           *)
(* wlh_rtt_wlan_reset for each interface, then wlh_host_stop, the soft      *)
(* reset and wlh_host_start.                                                *)

FirstInterface == IF "STA" \in Interfaces THEN "STA" ELSE "AP"
RsTo(pc) == rs' = [rs EXCEPT !.pc = pc]

recover_begin ==
  /\ rs.pc = "idle" /\ session = "ready" /\ resets < MaxResets
  /\ resets' = resets + 1
  /\ rs' = [rs EXCEPT !.pc = "read", !.interface = FirstInterface]
  /\ UNCHANGED <<host, op, ex, link, core, begun, losses>>

(* was_active, pending and had_pending are read without host->lock ...      *)
wlan_reset_read ==
  /\ rs.pc = "read"
  /\ LET i == rs.interface IN
       rs' = [rs EXCEPT !.pc = "clear", !.was_active = active[i],
                        !.had_pending = request[i].active, !.pending = request[i].kind]
  /\ UNCHANGED <<host, op, ex, link, core, begun, resets, losses>>

(* ... and so are active and request cleared.                               *)
wlan_reset_clear ==
  /\ rs.pc = "clear"
  /\ active' = [active EXCEPT ![rs.interface] = FALSE]
  /\ request' = [request EXCEPT ![rs.interface] = NoRequest]
  /\ RsTo("report_pending")
  /\ UNCHANGED <<completions, next_generation, op, ex, link, core, begun, resets, losses>>

wlan_reset_report_pending ==
  /\ rs.pc = "report_pending"
  /\ IF rs.had_pending THEN report_event(rs.interface, FailureReport(rs.pending))
                       ELSE UNCHANGED link
  /\ RsTo("report_link")
  /\ UNCHANGED <<host, op, ex, core, begun, resets, losses>>

wlan_reset_report_link ==
  /\ rs.pc = "report_link"
  /\ IF rs.was_active
     THEN report_event(rs.interface, IF rs.interface = "STA" THEN "DISCONNECT" ELSE "AP_STOP")
     ELSE UNCHANGED link
  /\ IF rs.interface = "STA" /\ "AP" \in Interfaces
     THEN rs' = [rs EXCEPT !.pc = "read", !.interface = "AP"]
     ELSE RsTo("stop")
  /\ UNCHANGED <<host, op, ex, core, begun, resets, losses>>

(* wlh_host_stop ends the session: no event of it is delivered any more.    *)
host_stop ==
  /\ rs.pc = "stop"
  /\ session' = "stopped"
  /\ scans' = {}
  /\ peer' = [i \in Interfaces |-> "down"]
  /\ RsTo("start")
  /\ UNCHANGED <<host, op, ex, link, rpc, begun, resets, losses>>

(* Soft reset and wlh_host_start, once Core has failed what was pending.    *)
host_start ==
  /\ rs.pc = "start" /\ rpc = {}
  /\ session' = "ready"
  /\ RsTo("idle")
  /\ UNCHANGED <<host, op, ex, link, rpc, scans, peer, begun, resets, losses>>

-----------------------------------------------------------------------------
Init ==
  /\ request = [i \in Interfaces |-> NoRequest]
  /\ completions = [i \in Interfaces |->
       [s \in Slots |-> [in_use |-> FALSE, kind |-> "NONE", generation |-> 0]]]
  /\ next_generation \in {0, GenMod - 2}
  /\ active = [i \in Interfaces |-> FALSE]
  /\ op = [i \in Interfaces |-> [pc |-> "idle", slot |-> CHOOSE s \in Slots : TRUE]]
  /\ ex = [pc |-> "idle", interface |-> FirstInterface, event |-> "NONE", id |-> 0]
  /\ rs = [pc |-> "idle", interface |-> FirstInterface, was_active |-> FALSE,
           had_pending |-> FALSE, pending |-> "NONE"]
  /\ link = [i \in Interfaces |-> "down"]
  /\ rpc = {}
  /\ scans = {}
  /\ peer = [i \in Interfaces |-> "down"]
  /\ session = "ready"
  /\ begun = 0
  /\ resets = 0
  /\ lost = {} /\ lost_scans = {}

Begin == wlan_scan \/ wlan_join \/ wlan_disconnect \/ wlan_softap \/ wlan_ap_stop
Operation(i) == submit(i) \/ request_abort(i)
ScanStop == scan_stop_check \/ scan_stop_finish \/ scan_stop_report
Complete == \E r \in rpc, ok \in BOOLEAN : request_complete(r, ok)
ScanEvent == \E id \in scans : report_scan_result(id) \/ report_scan_complete(id)
LinkEvent == \E i \in Interfaces : report_connected(i) \/ report_disconnected(i)
Handler == ex_finish \/ ex_report
Loss == \/ \E r \in rpc, ok \in BOOLEAN : completion_lost(r, ok)
        \/ \E id \in scans : scan_event_lost(id)
        \/ \E i \in Interfaces : link_event_lost(i)
wlan_reset == \/ wlan_reset_read \/ wlan_reset_clear
              \/ wlan_reset_report_pending \/ wlan_reset_report_link
recover == recover_begin \/ wlan_reset \/ host_stop \/ host_start

Next ==
  \/ Begin
  \/ \E i \in Interfaces : Operation(i)
  \/ ScanStop
  \/ Complete \/ ScanEvent \/ LinkEvent \/ Handler \/ Loss
  \/ recover

Spec == Init /\ [][Next]_vars

(* A thread that is inside a function goes on; Core completes every request *)
(* it accepted and posts every event to the executor queue, a FIFO, so each *)
(* job is run or lost and none is passed over for ever.                     *)
FairSpec ==
  /\ Spec
  /\ \A i \in Interfaces : WF_vars(Operation(i))
  /\ WF_vars(scan_stop_finish \/ scan_stop_report)
  /\ WF_vars(Handler)
  /\ SF_vars(\E r \in rpc, ok \in BOOLEAN : request_complete(r, ok) \/ completion_lost(r, ok))
  /\ SF_vars(\E id \in scans : report_scan_complete(id) \/ scan_event_lost(id))

-----------------------------------------------------------------------------
(* Every variable has its type: slots, generations and program counters stay *)
(* within their sets, the generation counter within its width.               *)
TypeOK ==
  /\ request \in [Interfaces -> Requests]
  /\ completions \in [Interfaces -> [Slots -> Completions]]
  /\ next_generation \in Generations
  /\ active \in [Interfaces -> BOOLEAN]
  /\ op \in [Interfaces -> Operations]
  /\ ex \in [pc : {"idle", "finish", "report"}, interface : Interfaces,
             event : Reports, id : Generations]
  /\ rs \in [pc : {"idle", "read", "clear", "report_pending", "report_link", "stop", "start"},
             interface : Interfaces, was_active : BOOLEAN, had_pending : BOOLEAN,
             pending : Kinds]
  /\ link \in [Interfaces -> {"up", "down"}]
  /\ rpc \in SUBSET Rpcs
  /\ scans \in SUBSET Generations
  /\ peer \in [Interfaces -> {"down", "joining", "up", "leaving"}]
  /\ session \in {"ready", "stopped"}
  /\ begun \in 0 .. MaxRequests
  /\ resets \in 0 .. MaxResets
  /\ lost \in SUBSET Rpcs /\ lost_scans \in SUBSET Generations

OpHolds(i, s) == op[i].pc \in {"submit", "abort"} /\ op[i].slot = s

Callbacks == rpc \cup lost

(* A completion slot is in use exactly while one operation thread or one     *)
(* request inside Core holds it, never both, or for good once the request's  *)
(* completion was lost; and the slot still carries the kind and the          *)
(* generation that Core's request was made with: Core's callback is never    *)
(* given a slot that was freed or recycled under it.                         *)
SlotOwnership ==
  /\ \A i \in Interfaces, s \in Slots :
       completions[i][s].in_use <=>
         OpHolds(i, s) \/ \E r \in Callbacks : r.interface = i /\ r.slot = s
  /\ \A r \in Callbacks :
       /\ ~OpHolds(r.interface, r.slot)
       /\ completions[r.interface][r.slot].kind = r.kind
       /\ completions[r.interface][r.slot].generation = r.generation
       /\ \A q \in Callbacks : q.interface = r.interface /\ q.slot = r.slot => q = r

(* The generations of the slots in use are not 0, which request_begin's      *)
(* callers read as EBUSY, and differ from each other across both             *)
(* interfaces, also when the counter wraps.                                  *)
GenerationsDistinct ==
  \A i, j \in Interfaces : \A s, t \in Slots :
    completions[i][s].in_use /\ completions[j][t].in_use =>
      /\ completions[i][s].generation # 0
      /\ completions[i][s].generation = completions[j][t].generation => i = j /\ s = t

(* A completion, or the abort of a refused request, never ends a request     *)
(* begun after its own: request_complete and request_abort compare the       *)
(* generation under host->lock, whatever happened to their request since.    *)
OwnGenerationOnly ==
  [][\A i \in Interfaces :
       request[i].active /\ ~request'[i].active =>
         /\ \A r \in rpc \ rpc' : r.interface = i => r.generation = request[i].generation
         /\ op[i].pc = "abort" /\ op'[i].pc = "idle" =>
              completions[i][op[i].slot].generation = request[i].generation]_vars

(* RT-Thread sees the link up only while interface->active lets frames       *)
(* through, once the handlers that change them have run to their end.        *)
LinkUpImpliesActive ==
  \A i \in Interfaces :
    link[i] = "up" /\ ex.pc = "idle" /\ rs.pc = "idle" => active[i]

(* Every completion slot taken is given back, so that a burst of cancelled   *)
(* scans cannot leave the interface EBUSY for good; only the loss of a       *)
(* slot's own completion keeps it.                                           *)
SlotsComeBack ==
  \A i \in Interfaces, s \in Slots :
    completions[i][s].in_use ~>
      \/ ~completions[i][s].in_use
      \/ \E r \in lost : r.interface = i /\ r.slot = s

(* Every scan ends: its generation does not stay the active request's,       *)
(* unless its own completion or its own SCAN_COMPLETED event was lost.       *)
EveryScanEnds ==
  \A i \in Interfaces, g \in Generations :
    (request[i].active /\ request[i].kind = "SCAN" /\ request[i].generation = g)
      ~> \/ ~(request[i].active /\ request[i].generation = g)
         \/ g \in lost_scans \/ \E r \in lost : r.generation = g

-----------------------------------------------------------------------------
(* Claims of the repository's documents that the code does not keep.         *)

(* "a cancelled scan cannot complete a new scan": the SCAN_COMPLETED event   *)
(* of one scan_id never ends the request of another.                         *)
CancelledScanCannotCompleteNew ==
  [][ex.pc = "finish" /\ ex'.pc = "report" /\ ex.event = "SCAN_DONE"
       /\ request["STA"].active /\ ~request'["STA"].active
       => request["STA"].generation = ex.id]_vars

(* "takes w0 and w1 down": when recovery has started the new session, and    *)
(* no handler is running, neither interface is still active or up.           *)
RecoveryTakesLinksDown ==
  [][rs.pc = "start" /\ rs'.pc = "idle" /\ ex.pc = "idle" =>
       \A i \in Interfaces : ~active[i] /\ link[i] = "down"]_vars
=============================================================================
