-------------------------- MODULE WlanControl_proofs --------------------------
(***************************************************************************)
(* Proofs about the control plane for every number of completion slots,    *)
(* every generation width and every number of requests and recoveries.     *)
(***************************************************************************)
EXTENDS WlanControl, TLAPS

(* A new generation is a generation and is not the reserved 0.               *)
LEMMA NextGenerationType ==
  ASSUME NEW c \in Generations
  PROVE  /\ wlh_rtt_next_generation(c) \in Generations
         /\ wlh_rtt_next_generation(c) # 0
<1>1. (c + 1) % GenMod \in 0 .. GenMod - 1
  BY ControlAssumption DEF Generations
<1> QED
  BY <1>1, ControlAssumption DEF Generations, wlh_rtt_next_generation

(* Storing a slot keeps the table of completions well formed.                *)
LEMMA SlotType ==
  ASSUME completions \in [Interfaces -> [Slots -> Completions]],
         NEW i \in Interfaces, NEW s \in Slots, NEW c \in Completions
  PROVE  [completions EXCEPT ![i][s] = c] \in [Interfaces -> [Slots -> Completions]]
<1>1. [completions[i] EXCEPT ![s] = c] \in [Slots -> Completions]
  OBVIOUS
<1> QED
  BY <1>1

(* Freeing a slot clears its in_use flag and touches nothing else.           *)
LEMMA FreeSlot ==
  ASSUME completions \in [Interfaces -> [Slots -> Completions]],
         NEW i \in Interfaces, NEW s \in Slots
  PROVE  LET d == [completions EXCEPT ![i][s].in_use = FALSE] IN
           /\ d \in [Interfaces -> [Slots -> Completions]]
           /\ \A j \in Interfaces, t \in Slots :
                /\ d[j][t].in_use <=> completions[j][t].in_use /\ ~(j = i /\ t = s)
                /\ d[j][t].kind = completions[j][t].kind
                /\ d[j][t].generation = completions[j][t].generation
<1> DEFINE c == [completions[i][s] EXCEPT !.in_use = FALSE]
           d == [completions EXCEPT ![i][s] = c]
<1>1. /\ completions[i][s] \in Completions
      /\ c \in Completions
      /\ c.in_use = FALSE /\ c.kind = completions[i][s].kind
      /\ c.generation = completions[i][s].generation
  <2>1. completions[i][s] \in Completions
    OBVIOUS
  <2>2. ASSUME NEW x \in Completions
        PROVE  LET y == [x EXCEPT !.in_use = FALSE] IN
                 /\ y \in Completions /\ y.in_use = FALSE
                 /\ y.kind = x.kind /\ y.generation = x.generation
    BY DEF Completions
  <2> QED
    BY <2>1, <2>2
<1>2. d \in [Interfaces -> [Slots -> Completions]]
  BY <1>1, SlotType
<1>3. [completions EXCEPT ![i][s].in_use = FALSE] = d
  OBVIOUS
<1> HIDE DEF c
<1>4. \A j \in Interfaces, t \in Slots :
        d[j][t] = IF j = i /\ t = s THEN c ELSE completions[j][t]
  OBVIOUS
<1>5. \A j \in Interfaces, t \in Slots : completions[j][t].in_use \in BOOLEAN
  BY DEF Completions
<1> HIDE DEF d
<1> QED
  BY <1>1, <1>2, <1>3, <1>4, <1>5

(* An operation thread that moves on stays an operation thread.              *)
LEMMA OperationType ==
  ASSUME op \in [Interfaces -> Operations], NEW i \in Interfaces,
         NEW p \in {"idle", "submit", "abort", "stop_finish", "stop_report"}
  PROVE  [op EXCEPT ![i].pc = p] \in [Interfaces -> Operations]
<1>1. op[i] \in Operations
  OBVIOUS
<1>2. [op[i] EXCEPT !.pc = p] \in Operations
  BY <1>1 DEF Operations
<1> QED
  BY <1>2

(* report_event only moves the link up or down.                              *)
LEMMA ReportType ==
  ASSUME link \in [Interfaces -> {"up", "down"}], NEW i \in Interfaces, NEW e,
         report_event(i, e)
  PROVE  link' \in [Interfaces -> {"up", "down"}]
BY DEF report_event

(* request_finish leaves a request or none.                                  *)
LEMMA FinishType ==
  ASSUME request \in [Interfaces -> Requests], NEW i \in Interfaces, NEW k,
         request_finish(i, k)
  PROVE  request' \in [Interfaces -> Requests]
BY ControlAssumption DEF request_finish, Requests, NoRequest, Kinds, Generations

-----------------------------------------------------------------------------
(* The types of the control plane are preserved by every thread.             *)
THEOREM TypeCorrect == Spec => []TypeOK
<1> USE DEF TypeOK
<1>0. NoRequest \in Requests
  BY ControlAssumption DEF NoRequest, Requests, Kinds, Generations
<1>1. Init => TypeOK
  <2> SUFFICES ASSUME Init PROVE TypeOK
    OBVIOUS
  <2>1. FirstInterface \in Interfaces
    BY ControlAssumption DEF FirstInterface
  <2>2. [in_use |-> FALSE, kind |-> "NONE", generation |-> 0] \in Completions
    BY ControlAssumption DEF Completions, Kinds, Generations
  <2>3. (CHOOSE s \in Slots : TRUE) \in Slots
    BY ControlAssumption
  <2>4. next_generation \in Generations /\ 0 \in Generations
    BY ControlAssumption DEF Init, Generations
  <2> QED
    BY <1>0, <2>1, <2>2, <2>3, <2>4, ControlAssumption DEF Init, Operations, Kinds, Reports
<1>2. TypeOK /\ [Next]_vars => TypeOK'
  <2> SUFFICES ASSUME TypeOK, [Next]_vars PROVE TypeOK'
    OBVIOUS
  <2> USE DEF host, core, losses
  <2>1. ASSUME NEW i \in Interfaces, NEW k \in Kinds, request_begin(i, k)
        PROVE  TypeOK'
    <3> DEFINE g == wlh_rtt_next_generation(next_generation)
    <3>1. g \in Generations
      BY NextGenerationType
    <3>2. k \in Kinds
      OBVIOUS
    <3> HIDE DEF g
    <3>3. PICK s \in Slots :
            /\ next_generation' = g
            /\ request' = [request EXCEPT ![i] =
                             [active |-> TRUE, kind |-> k, generation |-> g]]
            /\ completions' = [completions EXCEPT ![i][s] =
                                 [in_use |-> TRUE, kind |-> k, generation |-> g]]
            /\ op' = [op EXCEPT ![i] = [pc |-> "submit", slot |-> s]]
      BY <2>1 DEF request_begin, g
    <3>4. [in_use |-> TRUE, kind |-> k, generation |-> g] \in Completions
      BY <3>1, <3>2 DEF Completions
    <3>5. completions' \in [Interfaces -> [Slots -> Completions]]
      BY <3>3, <3>4, SlotType
    <3>6. request' \in [Interfaces -> Requests]
      BY <3>1, <3>2, <3>3 DEF Requests
    <3>7. begun' \in 0 .. MaxRequests
      BY <2>1, ControlAssumption DEF request_begin
    <3> QED
      BY <2>1, <3>1, <3>3, <3>5, <3>6, <3>7 DEF request_begin, Operations
  <2>2. ASSUME NEW i \in Interfaces, submit(i) PROVE TypeOK'
    <3>1. op[i].slot \in Slots /\ completions[i][op[i].slot] \in Completions
      BY DEF Operations
    <3>2. rpc' \in SUBSET Rpcs
      BY <2>2, <3>1 DEF submit, Rpcs, Completions
    <3>3. op' \in [Interfaces -> Operations]
      <4>1. \/ op' = [op EXCEPT ![i].pc = "idle"]
            \/ op' = [op EXCEPT ![i].pc = "abort"]
        BY <2>2 DEF submit
      <4>2. [op EXCEPT ![i].pc = "idle"] \in [Interfaces -> Operations]
        BY OperationType
      <4>3. [op EXCEPT ![i].pc = "abort"] \in [Interfaces -> Operations]
        BY OperationType
      <4> QED
        BY <4>1, <4>2, <4>3
    <3> QED
      BY <2>2, <3>2, <3>3 DEF submit
  <2>3. ASSUME NEW i \in Interfaces, request_abort(i) PROVE TypeOK'
    <3>1. completions' \in [Interfaces -> [Slots -> Completions]]
      BY <2>3, FreeSlot DEF request_abort, Operations
    <3>2. request' \in [Interfaces -> Requests]
      BY <1>0, <2>3 DEF request_abort
    <3>3. op' \in [Interfaces -> Operations]
      BY <2>3, OperationType DEF request_abort
    <3> QED
      BY <2>3, <3>1, <3>2, <3>3 DEF request_abort
  <2>4. CASE scan_stop_check
    BY <2>4, OperationType DEF scan_stop_check
  <2>5. CASE scan_stop_finish
    BY <2>5, FinishType, OperationType DEF scan_stop_finish
  <2>6. CASE scan_stop_report
    BY <2>6, ReportType, OperationType DEF scan_stop_report
  <2>7. ASSUME NEW r \in rpc, NEW ok \in BOOLEAN, request_complete(r, ok) PROVE TypeOK'
    <3> DEFINE i == r.interface
    <3>1. /\ i \in Interfaces /\ r.slot \in Slots /\ r.generation \in Generations
          /\ rpc' \in SUBSET Rpcs
      BY <2>7 DEF Rpcs, request_complete, CoreAnswers
    <3>2. completions' \in [Interfaces -> [Slots -> Completions]]
      BY <2>7, <3>1, FreeSlot DEF request_complete
    <3>3. request' \in [Interfaces -> Requests]
      BY <1>0, <2>7, <3>1 DEF request_complete
    <3>4. scans' \in SUBSET Generations
      BY <2>7, <3>1 DEF request_complete, CoreAnswers
    <3>5. peer' \in [Interfaces -> {"down", "joining", "up", "leaving"}]
      BY <2>7, <3>1 DEF request_complete, CoreAnswers
    <3>6. completions[i][r.slot].generation \in Generations
      BY <3>1 DEF Completions
    <3>7. ex' \in [pc : {"idle", "finish", "report"}, interface : Interfaces,
                   event : Reports, id : Generations]
      BY <2>7, <3>1, <3>6 DEF request_complete, ExTo, FailureReport, Reports
    <3> QED
      BY <2>7, <3>1, <3>2, <3>3, <3>4, <3>5, <3>7 DEF request_complete, CoreAnswers
  <2>8. ASSUME NEW id \in scans, report_scan_result(id) PROVE TypeOK'
    <3>1. "STA" \in Interfaces
      BY <2>8 DEF report_scan_result, ScanIsCurrent
    <3> QED
      BY <2>8, <3>1 DEF report_scan_result, ExTo, Reports
  <2>9. ASSUME NEW id \in scans, report_scan_complete(id) PROVE TypeOK'
    <3>1. ScanIsCurrent(id) => "STA" \in Interfaces
      BY DEF ScanIsCurrent
    <3> QED
      BY <2>9, <3>1 DEF report_scan_complete, ExTo, Reports
  <2>10. ASSUME NEW i \in Interfaces, report_connected(i) PROVE TypeOK'
    BY <2>10, ControlAssumption DEF report_connected, ExTo, Reports, Generations
  <2>11. ASSUME NEW i \in Interfaces, report_disconnected(i) PROVE TypeOK'
    BY <2>11, ControlAssumption DEF report_disconnected, ExTo, Reports, Generations
  <2>12. CASE ex_finish
    BY <2>12, FinishType DEF ex_finish
  <2>13. CASE ex_report
    BY <2>13, ReportType DEF ex_report, ExDone
  <2>14. CASE recover_begin
    <3>1. FirstInterface \in Interfaces
      BY ControlAssumption DEF FirstInterface
    <3>2. rs' \in [pc : {"idle", "read", "clear", "report_pending", "report_link", "stop",
                         "start"},
                   interface : Interfaces, was_active : BOOLEAN, had_pending : BOOLEAN,
                   pending : Kinds]
      BY <2>14, <3>1 DEF recover_begin
    <3>3. resets' \in 0 .. MaxResets
      BY <2>14, ControlAssumption DEF recover_begin
    <3> QED
      BY <2>14, <3>2, <3>3 DEF recover_begin
  <2>15. CASE wlan_reset_read
    BY <2>15 DEF wlan_reset_read, Requests
  <2>16. CASE wlan_reset_clear
    BY <1>0, <2>16 DEF wlan_reset_clear, RsTo
  <2>17. CASE wlan_reset_report_pending
    BY <2>17, ReportType DEF wlan_reset_report_pending, RsTo
  <2>18. CASE wlan_reset_report_link
    <3>1. link' \in [Interfaces -> {"up", "down"}]
      BY <2>18, ReportType DEF wlan_reset_report_link
    <3>2. \/ RsTo("stop")
          \/ "AP" \in Interfaces /\ rs' = [rs EXCEPT !.pc = "read", !.interface = "AP"]
      BY <2>18 DEF wlan_reset_report_link
    <3>3. rs' \in [pc : {"idle", "read", "clear", "report_pending", "report_link", "stop",
                         "start"},
                   interface : Interfaces, was_active : BOOLEAN, had_pending : BOOLEAN,
                   pending : Kinds]
      BY <3>2 DEF RsTo
    <3> QED
      BY <2>18, <3>1, <3>3 DEF wlan_reset_report_link
  <2>19. CASE host_stop
    BY <2>19 DEF host_stop, RsTo
  <2>20. CASE host_start
    BY <2>20 DEF host_start, RsTo
  <2>21. CASE UNCHANGED vars
    BY <2>21 DEF vars
  <2>22. ASSUME NEW r \in rpc, NEW ok \in BOOLEAN, completion_lost(r, ok) PROVE TypeOK'
    <3>1. /\ r.interface \in Interfaces /\ r.generation \in Generations
          /\ rpc' \in SUBSET Rpcs /\ lost' \in SUBSET Rpcs
      BY <2>22 DEF Rpcs, completion_lost, CoreAnswers
    <3>2. scans' \in SUBSET Generations
      BY <2>22, <3>1 DEF completion_lost, CoreAnswers
    <3>3. peer' \in [Interfaces -> {"down", "joining", "up", "leaving"}]
      BY <2>22, <3>1 DEF completion_lost, CoreAnswers
    <3> QED
      BY <2>22, <3>1, <3>2, <3>3 DEF completion_lost, CoreAnswers
  <2>23. ASSUME NEW id \in scans, scan_event_lost(id) PROVE TypeOK'
    BY <2>23 DEF scan_event_lost
  <2>24. ASSUME NEW i \in Interfaces, link_event_lost(i) PROVE TypeOK'
    BY <2>24 DEF link_event_lost
  <2> QED
    BY <2>1, <2>2, <2>3, <2>4, <2>5, <2>6, <2>7, <2>8, <2>9, <2>10, <2>11, <2>12, <2>13,
       <2>14, <2>15, <2>16, <2>17, <2>18, <2>19, <2>20, <2>21, <2>22, <2>23, <2>24
    DEF Next, Begin, wlan_scan, wlan_join, wlan_disconnect, wlan_softap, wlan_ap_stop, Kinds,
        Operation, ScanStop, Complete, ScanEvent, LinkEvent, Handler, Loss,
        wlan_reset, recover
<1> QED
  BY <1>1, <1>2, PTL DEF Spec

-----------------------------------------------------------------------------
(* A completion that is still due has not been lost.                         *)
LossInv == rpc \cap lost = {}

LEMMA LossStep ==
  ASSUME TypeOK, SlotOwnership, LossInv, [Next]_vars
  PROVE  LossInv'
<1>1. ASSUME rpc' \subseteq rpc, lost' = lost PROVE LossInv'
  BY <1>1 DEF LossInv
<1>2. ASSUME NEW i \in Interfaces, submit(i) PROVE LossInv'
  <2> DEFINE s == op[i].slot
             c == completions[i][s]
             r == [interface |-> i, slot |-> s, kind |-> c.kind,
                   generation |-> c.generation]
  <2>1. r.interface = i /\ r.slot = s
    OBVIOUS
  <2>2. OpHolds(i, s) /\ lost' = lost /\ (rpc' = rpc \cup {r} \/ rpc' = rpc)
    BY <1>2 DEF submit, OpHolds, losses
  <2>3. r \notin lost
    BY <2>1, <2>2, Zenon DEF SlotOwnership, Callbacks
  <2> HIDE DEF r
  <2> QED
    BY <2>2, <2>3 DEF LossInv
<1>3. ASSUME NEW r \in rpc, NEW ok \in BOOLEAN, completion_lost(r, ok) PROVE LossInv'
  <2>1. rpc' = rpc \ {r} /\ lost' = lost \cup {r}
    BY <1>3 DEF completion_lost, CoreAnswers
  <2> QED
    BY <2>1 DEF LossInv
<1>4. ASSUME NEW r \in rpc, NEW ok \in BOOLEAN, request_complete(r, ok) PROVE LossInv'
  BY <1>1, <1>4 DEF request_complete, CoreAnswers, losses
<1>5. CASE Begin \/ (\E i \in Interfaces : request_abort(i)) \/ ScanStop
  BY <1>1, <1>5 DEF Begin, wlan_scan, wlan_join, wlan_disconnect, wlan_softap, wlan_ap_stop,
     request_begin, request_abort, ScanStop, scan_stop_check, scan_stop_finish,
     scan_stop_report, core, losses
<1>6. CASE ScanEvent \/ LinkEvent \/ Handler
  BY <1>1, <1>6 DEF ScanEvent, LinkEvent, Handler, report_scan_result, report_scan_complete,
     report_connected, report_disconnected, ex_finish, ex_report, core, losses
<1>7. CASE (\E id \in scans : scan_event_lost(id)) \/ \E i \in Interfaces : link_event_lost(i)
  BY <1>1, <1>7 DEF scan_event_lost, link_event_lost, losses
<1>8. CASE recover
  BY <1>1, <1>8 DEF recover, recover_begin, wlan_reset, wlan_reset_read, wlan_reset_clear,
     wlan_reset_report_pending, wlan_reset_report_link, host_stop, host_start, core, losses
<1>9. CASE UNCHANGED vars
  BY <1>1, <1>9 DEF vars, core, losses
<1> QED
  BY <1>2, <1>3, <1>4, <1>5, <1>6, <1>7, <1>8, <1>9 DEF Next, Operation, Complete, Loss

(* Each step passes a completion slot on or leaves its owner alone.          *)
LEMMA SlotStep ==
  ASSUME TypeOK, SlotOwnership, LossInv, [Next]_vars
  PROVE  SlotOwnership'
<1> USE DEF TypeOK, host, core, losses
<1>typed. \A q \in Callbacks : q.interface \in Interfaces /\ q.slot \in Slots
  BY DEF Callbacks, Rpcs
<1>1. ASSUME NEW i \in Interfaces, NEW k \in Kinds, request_begin(i, k)
      PROVE  SlotOwnership'
  <2> DEFINE g == wlh_rtt_next_generation(next_generation)
  <2>1. PICK s \in Slots :
          /\ ~completions[i][s].in_use
          /\ completions' = [completions EXCEPT ![i][s] =
                               [in_use |-> TRUE, kind |-> k, generation |-> g]]
          /\ op' = [op EXCEPT ![i] = [pc |-> "submit", slot |-> s]]
    BY <1>1 DEF request_begin
  <2>2. op[i].pc = "idle" /\ Callbacks' = Callbacks
    BY <1>1 DEF request_begin, Callbacks
  <2> HIDE DEF g
  <2>3. \A j \in Interfaces, t \in Slots :
          completions'[j][t] = IF j = i /\ t = s
                               THEN [in_use |-> TRUE, kind |-> k, generation |-> g]
                               ELSE completions[j][t]
    BY <2>1
  <2>4. \A j \in Interfaces, t \in Slots :
          /\ OpHolds(j, t)' <=> OpHolds(j, t) \/ (j = i /\ t = s)
          /\ ~OpHolds(i, t)
    BY <2>1, <2>2 DEF OpHolds
  <2>5. \A r \in Callbacks : r.interface \in Interfaces /\ r.slot \in Slots
                         /\ ~(r.interface = i /\ r.slot = s)
    BY <1>typed, <2>1 DEF SlotOwnership
  <2> QED
    BY <2>2, <2>3, <2>4, <2>5 DEF SlotOwnership
<1>2. ASSUME NEW i \in Interfaces, submit(i) PROVE SlotOwnership'
  <2> DEFINE s == op[i].slot
             c == completions[i][s]
             r == [interface |-> i, slot |-> s, kind |-> c.kind,
                   generation |-> c.generation]
  <2>1. s \in Slots /\ OpHolds(i, s) /\ UNCHANGED completions /\ lost' = lost
    BY <1>2 DEF submit, OpHolds, Operations
  <2>2. CASE rpc' = rpc \cup {r} /\ op' = [op EXCEPT ![i].pc = "idle"]
    <3>1. \A j \in Interfaces, t \in Slots :
            OpHolds(j, t)' <=> OpHolds(j, t) /\ ~(j = i /\ t = s)
      BY <2>1, <2>2 DEF OpHolds, Operations
    <3>2. /\ r.interface = i /\ r.slot = s /\ r.kind = c.kind
          /\ r.generation = c.generation
      OBVIOUS
    <3>3. \A q \in Callbacks : q.interface \in Interfaces /\ q.slot \in Slots
                           /\ ~(q.interface = i /\ q.slot = s)
      BY <1>typed, <2>1 DEF SlotOwnership
    <3> HIDE DEF r, s
    <3>4. Callbacks' = Callbacks \cup {r}
      BY <2>1, <2>2 DEF Callbacks
    <3> QED
      BY <2>1, <3>1, <3>2, <3>3, <3>4 DEF SlotOwnership
  <2>3. CASE rpc' = rpc /\ op' = [op EXCEPT ![i].pc = "abort"]
    <3>1. \A j \in Interfaces, t \in Slots : OpHolds(j, t)' <=> OpHolds(j, t)
      BY <1>2, <2>3 DEF OpHolds, Operations, submit
    <3>2. Callbacks' = Callbacks
      BY <2>1, <2>3 DEF Callbacks
    <3> QED
      BY <1>typed, <2>1, <3>1, <3>2 DEF SlotOwnership
  <2> QED
    BY <1>2, <2>2, <2>3 DEF submit
<1>3. ASSUME NEW i \in Interfaces, request_abort(i) PROVE SlotOwnership'
  <2> DEFINE s == op[i].slot
  <2>1. s \in Slots /\ OpHolds(i, s) /\ Callbacks' = Callbacks
    BY <1>3 DEF request_abort, OpHolds, Operations, Callbacks
  <2>2. \A j \in Interfaces, t \in Slots :
          completions'[j][t].in_use <=> completions[j][t].in_use /\ ~(j = i /\ t = s)
    BY <1>3, <2>1, FreeSlot DEF request_abort
  <2>kept. \A j \in Interfaces, t \in Slots :
          /\ completions'[j][t].kind = completions[j][t].kind
          /\ completions'[j][t].generation = completions[j][t].generation
    BY <1>3, <2>1, FreeSlot DEF request_abort
  <2>3. \A j \in Interfaces, t \in Slots :
          OpHolds(j, t)' <=> OpHolds(j, t) /\ ~(j = i /\ t = s)
    BY <1>3, <2>1 DEF request_abort, OpHolds, Operations
  <2>4. \A q \in Callbacks : q.interface \in Interfaces /\ q.slot \in Slots
                         /\ ~(q.interface = i /\ q.slot = s)
    BY <1>typed, <2>1 DEF SlotOwnership
  <2> HIDE DEF s
  <2>5. ASSUME NEW j \in Interfaces, NEW t \in Slots
        PROVE  completions'[j][t].in_use <=>
                 OpHolds(j, t)' \/ \E q \in Callbacks' : q.interface = j /\ q.slot = t
    BY <2>1, <2>2, <2>3, <2>4 DEF SlotOwnership
  <2>6. ASSUME NEW q \in Callbacks'
        PROVE  /\ ~OpHolds(q.interface, q.slot)'
               /\ completions'[q.interface][q.slot].kind = q.kind
               /\ completions'[q.interface][q.slot].generation = q.generation
               /\ \A p \in Callbacks' : p.interface = q.interface /\ p.slot = q.slot => p = q
    <3>1. /\ q \in Callbacks /\ q.interface \in Interfaces /\ q.slot \in Slots
          /\ Callbacks' \subseteq Callbacks
      BY <2>1, <2>4
    <3>2. ~OpHolds(q.interface, q.slot)'
      BY <2>3, <3>1 DEF SlotOwnership
    <3>3. /\ completions'[q.interface][q.slot].kind = q.kind
          /\ completions'[q.interface][q.slot].generation = q.generation
      <4>1. /\ completions[q.interface][q.slot].kind = q.kind
            /\ completions[q.interface][q.slot].generation = q.generation
        BY <3>1, Zenon DEF SlotOwnership
      <4>2. /\ completions'[q.interface][q.slot].kind = completions[q.interface][q.slot].kind
            /\ completions'[q.interface][q.slot].generation
                 = completions[q.interface][q.slot].generation
        <5> HIDE DEF TypeOK, host, core
        <5> QED
          BY <2>kept, <3>1, Zenon
      <4> QED
        BY <4>1, <4>2, Zenon
    <3>4. \A p \in Callbacks' : p.interface = q.interface /\ p.slot = q.slot => p = q
      BY <3>1 DEF SlotOwnership
    <3> QED
      BY <3>2, <3>3, <3>4
  <2> QED
    BY <2>5, <2>6 DEF SlotOwnership
<1>4. ASSUME NEW r \in rpc, NEW ok \in BOOLEAN, request_complete(r, ok)
      PROVE  SlotOwnership'
  <2> DEFINE i == r.interface
             s == r.slot
  <2>1. /\ i \in Interfaces /\ s \in Slots /\ UNCHANGED op
        /\ r \in Callbacks /\ Callbacks' = Callbacks \ {r}
    <3>1. rpc' = rpc \ {r} /\ lost' = lost /\ r \notin lost
      BY <1>4 DEF request_complete, CoreAnswers, LossInv
    <3> QED
      BY <1>4, <3>1 DEF request_complete, Rpcs, Callbacks
  <2>2. \A j \in Interfaces, t \in Slots :
          completions'[j][t].in_use <=> completions[j][t].in_use /\ ~(j = i /\ t = s)
    BY <1>4, <2>1, FreeSlot DEF request_complete
  <2>kept. \A j \in Interfaces, t \in Slots :
          /\ completions'[j][t].kind = completions[j][t].kind
          /\ completions'[j][t].generation = completions[j][t].generation
    BY <1>4, <2>1, FreeSlot DEF request_complete
  <2>3. \A j \in Interfaces, t \in Slots : OpHolds(j, t)' <=> OpHolds(j, t)
    BY <2>1 DEF OpHolds
  <2>4. \A q \in Callbacks : q.interface \in Interfaces /\ q.slot \in Slots
                         /\ (q.interface = i /\ q.slot = s => q = r)
    BY <1>typed, <2>1 DEF SlotOwnership
  <2>5. ~OpHolds(i, s)
    BY <2>1 DEF SlotOwnership
  <2>6. r.interface = i /\ r.slot = s
    OBVIOUS
  <2> HIDE DEF i, s
  <2>7. ASSUME NEW j \in Interfaces, NEW t \in Slots
        PROVE  completions'[j][t].in_use <=>
                 OpHolds(j, t)' \/ \E q \in Callbacks' : q.interface = j /\ q.slot = t
    BY <2>1, <2>2, <2>3, <2>4, <2>5, <2>6 DEF SlotOwnership
  <2>8. ASSUME NEW q \in Callbacks'
        PROVE  /\ ~OpHolds(q.interface, q.slot)'
               /\ completions'[q.interface][q.slot].kind = q.kind
               /\ completions'[q.interface][q.slot].generation = q.generation
               /\ \A p \in Callbacks' : p.interface = q.interface /\ p.slot = q.slot => p = q
    <3>1. /\ q \in Callbacks /\ q.interface \in Interfaces /\ q.slot \in Slots
          /\ Callbacks' \subseteq Callbacks
      BY <2>1, <2>4
    <3>2. ~OpHolds(q.interface, q.slot)'
      BY <2>3, <3>1 DEF SlotOwnership
    <3>3. /\ completions'[q.interface][q.slot].kind = q.kind
          /\ completions'[q.interface][q.slot].generation = q.generation
      <4>1. /\ completions[q.interface][q.slot].kind = q.kind
            /\ completions[q.interface][q.slot].generation = q.generation
        BY <3>1, Zenon DEF SlotOwnership
      <4>2. /\ completions'[q.interface][q.slot].kind = completions[q.interface][q.slot].kind
            /\ completions'[q.interface][q.slot].generation
                 = completions[q.interface][q.slot].generation
        <5> HIDE DEF TypeOK, host, core
        <5> QED
          BY <2>kept, <3>1, Zenon
      <4> QED
        BY <4>1, <4>2, Zenon
    <3>4. \A p \in Callbacks' : p.interface = q.interface /\ p.slot = q.slot => p = q
      BY <3>1 DEF SlotOwnership
    <3> QED
      BY <3>2, <3>3, <3>4
  <2> QED
    BY <2>7, <2>8 DEF SlotOwnership
<1>5. ASSUME UNCHANGED <<completions, Callbacks>>,
             \A j \in Interfaces, t \in Slots : OpHolds(j, t)' <=> OpHolds(j, t)
      PROVE  SlotOwnership'
  BY <1>5, <1>typed DEF SlotOwnership
<1>6. CASE ScanStop
  <2>1. \A j \in Interfaces, t \in Slots : OpHolds(j, t)' <=> OpHolds(j, t)
    <3>1. /\ "STA" \in Interfaces
          /\ op["STA"].pc \in {"idle", "stop_finish", "stop_report"}
          /\ \E p \in {"idle", "stop_finish", "stop_report"} :
               op' = [op EXCEPT !["STA"].pc = p]
      BY <1>6 DEF ScanStop, scan_stop_check, scan_stop_finish, scan_stop_report
    <3>2. PICK p \in {"idle", "stop_finish", "stop_report"} :
            op' = [op EXCEPT !["STA"].pc = p]
      BY <3>1
    <3>3. \A j \in Interfaces : j # "STA" => op'[j] = op[j]
      BY <3>2
    <3>4. op'["STA"].pc = p
      BY <3>1, <3>2 DEF Operations
    <3> QED
      BY <3>1, <3>3, <3>4 DEF OpHolds
  <2> QED
    BY <1>5, <1>6, <2>1
    DEF ScanStop, scan_stop_check, scan_stop_finish, scan_stop_report, Callbacks
<1>7. ASSUME UNCHANGED <<completions, rpc, lost, op>> PROVE SlotOwnership'
  BY <1>5, <1>7 DEF OpHolds, Callbacks
<1>8. CASE ScanEvent \/ LinkEvent \/ Handler
  BY <1>7, <1>8 DEF ScanEvent, LinkEvent, Handler, report_scan_result,
     report_scan_complete, report_connected, report_disconnected, ex_finish, ex_report
<1>9. CASE recover
  BY <1>7, <1>9 DEF recover, recover_begin, wlan_reset, wlan_reset_read,
     wlan_reset_clear, wlan_reset_report_pending, wlan_reset_report_link, host_stop,
     host_start
<1>10. CASE UNCHANGED vars
  BY <1>7, <1>10 DEF vars
<1>11. ASSUME NEW r \in rpc, NEW ok \in BOOLEAN, completion_lost(r, ok)
       PROVE  SlotOwnership'
  <2>1. rpc' = rpc \ {r} /\ lost' = lost \cup {r} /\ UNCHANGED <<completions, op>>
    BY <1>11 DEF completion_lost, CoreAnswers
  <2>2. Callbacks' = Callbacks
    BY <2>1 DEF Callbacks
  <2> QED
    BY <1>5, <2>1, <2>2 DEF OpHolds
<1>12. CASE (\E id \in scans : scan_event_lost(id)) \/ \E i \in Interfaces : link_event_lost(i)
  BY <1>7, <1>12 DEF scan_event_lost, link_event_lost
<1> QED
  BY <1>1, <1>2, <1>3, <1>4, <1>6, <1>8, <1>9, <1>10, <1>11, <1>12
  DEF Next, Begin, wlan_scan, wlan_join, wlan_disconnect, wlan_softap, wlan_ap_stop, Kinds,
      Operation, Complete, Loss

(* For every number of slots and whatever recovery does to the requests,     *)
(* Core's completion callback finds its slot in use, with the kind and the   *)
(* generation it was submitted with.                                         *)
THEOREM SlotsCorrect == Spec => []SlotOwnership
<1>1. Init => SlotOwnership /\ LossInv
  BY DEF Init, SlotOwnership, OpHolds, Callbacks, LossInv
<1>2. TypeOK /\ SlotOwnership /\ LossInv /\ [Next]_vars => SlotOwnership' /\ LossInv'
  BY SlotStep, LossStep
<1> QED
  BY <1>1, <1>2, TypeCorrect, PTL DEF Spec

-----------------------------------------------------------------------------
(* How many requests were begun since the one of generation g: the distance  *)
(* from g up to next_generation, over the generations without 0.             *)
Age(g) == IF g <= next_generation THEN next_generation - g
                                  ELSE next_generation - g + GenMod - 1

(* The generation of a slot in use is younger than the counter's first       *)
(* value.  With GenerationsDistinct it is inductive: two slots in use cannot *)
(* meet because the counter has not been round.                              *)
AgeInv ==
  /\ begun > 0 => next_generation # 0
  /\ \A i \in Interfaces, s \in Slots : completions[i][s].in_use =>
       /\ completions[i][s].generation # 0
       /\ Age(completions[i][s].generation) < begun

(* A new request makes every older generation one older, and takes none.     *)
LEMMA OneOlder ==
  ASSUME TypeOK, begun > 0 => next_generation # 0, begun < MaxRequests,
         next_generation' = wlh_rtt_next_generation(next_generation),
         NEW g \in Generations, g # 0, Age(g) < begun
  PROVE  Age(g)' = Age(g) + 1 /\ g # next_generation'
<1>1. /\ next_generation \in 0 .. GenMod - 1 /\ g \in 1 .. GenMod - 1
      /\ begun \in Nat /\ GenMod \in Nat /\ begun < GenMod - 2
  BY ControlAssumption DEF TypeOK, Generations
<1>2. Age(g) >= 0 /\ Age(g) \in Int
  BY <1>1 DEF Age
<1>3. begun > 0 /\ next_generation # 0
  BY <1>1, <1>2
<1>4. CASE next_generation = GenMod - 1
  <2>1. next_generation' = 1
    BY <1>1, <1>4, ControlAssumption DEF wlh_rtt_next_generation
  <2> QED
    BY <1>1, <1>4, <2>1 DEF Age
<1>5. CASE next_generation < GenMod - 1
  <2>1. next_generation' = next_generation + 1
    BY <1>1, <1>5, ControlAssumption DEF wlh_rtt_next_generation
  <2> QED
    BY <1>1, <1>3, <1>5, <2>1 DEF Age
<1> QED
  BY <1>1, <1>4, <1>5

(* A step that only frees slots keeps the generations.                       *)
LEMMA OnlyFrees ==
  ASSUME AgeInv, GenerationsDistinct, UNCHANGED <<next_generation, begun>>,
         \A i \in Interfaces, s \in Slots :
           /\ completions'[i][s].in_use => completions[i][s].in_use
           /\ completions'[i][s].generation = completions[i][s].generation
  PROVE  AgeInv' /\ GenerationsDistinct'
<1>1. AgeInv'
  BY DEF AgeInv, Age
<1>2. GenerationsDistinct'
  BY DEF GenerationsDistinct
<1> QED
  BY <1>1, <1>2

LEMMA GenerationStep ==
  ASSUME TypeOK, AgeInv, GenerationsDistinct, [Next]_vars
  PROVE  AgeInv' /\ GenerationsDistinct'
<1>1. ASSUME NEW i \in Interfaces, NEW k \in Kinds, request_begin(i, k)
      PROVE  AgeInv' /\ GenerationsDistinct'
  <2>1. PICK g \in Generations : g = wlh_rtt_next_generation(next_generation) /\ g # 0
    BY NextGenerationType DEF TypeOK
  <2>2. PICK s \in Slots :
          /\ ~completions[i][s].in_use
          /\ completions' = [completions EXCEPT ![i][s] =
                               [in_use |-> TRUE, kind |-> k, generation |-> g]]
    BY <1>1, <2>1 DEF request_begin
  <2>3. next_generation' = g /\ begun < MaxRequests /\ begun' = begun + 1
    BY <1>1, <2>1 DEF request_begin
  <2>4. ASSUME NEW j \in Interfaces, NEW t \in Slots, completions[j][t].in_use,
               NEW f \in Generations, f = completions[j][t].generation
        PROVE  f # 0 /\ f # g /\ Age(f)' < begun'
    <3>1. f # 0 /\ Age(f) < begun
      BY <2>4 DEF AgeInv
    <3>2. Age(f)' = Age(f) + 1 /\ f # g
      BY <2>3, <2>1, <3>1, OneOlder DEF AgeInv
    <3>3. Age(f) \in Int /\ begun \in Nat
      BY ControlAssumption DEF Age, TypeOK, Generations
    <3> QED
      BY <2>3, <3>1, <3>2, <3>3
  <2>5. /\ Age(g)' < begun' /\ begun' > 0 /\ next_generation' # 0
    <3>1. begun \in Nat /\ g \in Nat
      BY <2>1, ControlAssumption DEF TypeOK, Generations
    <3>2. Age(g)' = 0
      BY <2>3, <3>1 DEF Age
    <3> QED
      BY <2>3, <2>1, <3>1, <3>2
  <2>6. \A j \in Interfaces, t \in Slots :
          completions'[j][t] = IF j = i /\ t = s
                               THEN [in_use |-> TRUE, kind |-> k, generation |-> g]
                               ELSE completions[j][t]
    BY <2>2 DEF TypeOK
  <2>7. \A j \in Interfaces, t \in Slots : completions[j][t].generation \in Generations
    BY DEF TypeOK, Completions
  <2>8. ASSUME NEW j \in Interfaces, NEW t \in Slots, completions'[j][t].in_use
        PROVE  /\ completions'[j][t].generation # 0
               /\ Age(completions[j][t].generation)' < begun'
    <3>1. PICK f \in Generations : f = completions'[j][t].generation
      BY <2>1, <2>6, <2>7
    <3>2. Age(f)' < begun' /\ f # 0
      <4>1. CASE j = i /\ t = s
        <5>1. f = g
          BY <2>6, <3>1, <4>1
        <5> QED
          BY <2>1, <2>5, <5>1
      <4>2. CASE ~(j = i /\ t = s)
        <5>1. completions'[j][t] = completions[j][t]
          BY <2>6, <4>2
        <5> QED
          BY <2>4, <2>8, <3>1, <5>1
      <4> QED
        BY <4>1, <4>2
    <3> QED
      BY <3>1, <3>2 DEF Age
  <2>9. AgeInv'
    BY <2>5, <2>8 DEF AgeInv
  <2>10. ASSUME NEW j \in Interfaces, NEW t \in Slots, completions'[j][t].in_use,
                ~(j = i /\ t = s)
         PROVE  /\ completions'[j][t] = completions[j][t]
                /\ completions'[j][t].generation # g
    <3>1. completions'[j][t] = completions[j][t]
      BY <2>6, <2>10
    <3> QED
      BY <2>4, <2>7, <2>10, <3>1
  <2>11. completions'[i][s].generation = g
    BY <2>6
  <2>12. GenerationsDistinct'
    <3> SUFFICES ASSUME NEW j1 \in Interfaces, NEW j2 \in Interfaces,
                        NEW t1 \in Slots, NEW t2 \in Slots,
                        completions'[j1][t1].in_use, completions'[j2][t2].in_use
                 PROVE  /\ completions'[j1][t1].generation # 0
                        /\ completions'[j1][t1].generation = completions'[j2][t2].generation
                             => j1 = j2 /\ t1 = t2
      BY DEF GenerationsDistinct
    <3>1. CASE ~(j1 = i /\ t1 = s) /\ ~(j2 = i /\ t2 = s)
      BY <2>8, <2>10, <3>1 DEF GenerationsDistinct
    <3>2. CASE (j1 = i /\ t1 = s) \/ (j2 = i /\ t2 = s)
      BY <2>8, <2>10, <2>11, <3>2
    <3> QED
      BY <3>1, <3>2
  <2> QED
    BY <2>9, <2>12
<1>2. ASSUME UNCHANGED <<completions, next_generation, begun>>
      PROVE  AgeInv' /\ GenerationsDistinct'
  BY <1>2, OnlyFrees
<1>3. ASSUME NEW i \in Interfaces, request_abort(i)
      PROVE  AgeInv' /\ GenerationsDistinct'
  <2>1. /\ op[i].slot \in Slots /\ UNCHANGED <<next_generation, begun>>
        /\ completions' = [completions EXCEPT ![i][op[i].slot].in_use = FALSE]
    BY <1>3 DEF TypeOK, Operations, request_abort
  <2>2. \A j \in Interfaces, t \in Slots :
          /\ completions'[j][t].in_use => completions[j][t].in_use
          /\ completions'[j][t].generation = completions[j][t].generation
    BY <2>1, FreeSlot DEF TypeOK
  <2> QED
    BY <2>1, <2>2, OnlyFrees
<1>4. ASSUME NEW r \in rpc, NEW ok \in BOOLEAN, request_complete(r, ok)
      PROVE  AgeInv' /\ GenerationsDistinct'
  <2>1. /\ r.interface \in Interfaces /\ r.slot \in Slots /\ UNCHANGED <<next_generation, begun>>
        /\ completions' = [completions EXCEPT ![r.interface][r.slot].in_use = FALSE]
    BY <1>4 DEF TypeOK, Rpcs, request_complete
  <2>2. \A j \in Interfaces, t \in Slots :
          /\ completions'[j][t].in_use => completions[j][t].in_use
          /\ completions'[j][t].generation = completions[j][t].generation
    BY <2>1, FreeSlot DEF TypeOK
  <2> QED
    BY <2>1, <2>2, OnlyFrees
<1>5. ASSUME NEW i \in Interfaces, submit(i)
      PROVE  AgeInv' /\ GenerationsDistinct'
  BY <1>2, <1>5 DEF submit, host
<1>6. CASE ScanStop \/ ScanEvent \/ LinkEvent \/ Handler
  BY <1>2, <1>6 DEF ScanStop, scan_stop_check, scan_stop_finish, scan_stop_report, ScanEvent,
     LinkEvent, Handler, report_scan_result, report_scan_complete, report_connected,
     report_disconnected, ex_finish, ex_report, host
<1>7. CASE recover
  BY <1>2, <1>7 DEF recover, recover_begin, wlan_reset, wlan_reset_read, wlan_reset_clear,
     wlan_reset_report_pending, wlan_reset_report_link, host_stop, host_start, host
<1>8. CASE UNCHANGED vars
  BY <1>2, <1>8 DEF vars, host
<1>9. CASE Loss
  BY <1>2, <1>9 DEF Loss, completion_lost, scan_event_lost, link_event_lost, host
<1> QED
  BY <1>1, <1>3, <1>4, <1>5, <1>6, <1>7, <1>8, <1>9
  DEF Next, Begin, wlan_scan, wlan_join, wlan_disconnect, wlan_softap, wlan_ap_stop, Kinds,
      Operation, Complete

(* No two slots in use carry the same generation, and none carries 0,        *)
(* wherever the counter starts and also when it wraps, as long as it does    *)
(* not go all the way round: request_begin's counter identifies requests.    *)
THEOREM GenerationsCorrect == Spec => []GenerationsDistinct
<1>1. Init => AgeInv /\ GenerationsDistinct
  BY DEF Init, AgeInv, GenerationsDistinct
<1>2. TypeOK /\ AgeInv /\ GenerationsDistinct /\ [Next]_vars => AgeInv' /\ GenerationsDistinct'
  BY GenerationStep
<1> QED
  BY <1>1, <1>2, TypeCorrect, PTL DEF Spec

-----------------------------------------------------------------------------
(* The same comparison, as an action: what ends a request is its own         *)
(* completion or its own abort.                                              *)
OwnGeneration ==
  \A i \in Interfaces :
    request[i].active /\ ~request'[i].active =>
      /\ \A r \in rpc \ rpc' : r.interface = i => r.generation = request[i].generation
      /\ op[i].pc = "abort" /\ op'[i].pc = "idle" =>
           completions[i][op[i].slot].generation = request[i].generation

LEMMA OwnGenerationStep ==
  ASSUME TypeOK, SlotOwnership, [Next]_vars
  PROVE  OwnGeneration
<1>1. ASSUME rpc \subseteq rpc', \A i \in Interfaces : op[i].pc = "abort" => op'[i] = op[i]
      PROVE  OwnGeneration
  BY <1>1 DEF OwnGeneration
<1>2. ASSUME UNCHANGED request
      PROVE  OwnGeneration
  BY <1>2 DEF OwnGeneration
<1>3. ASSUME NEW i \in Interfaces, NEW k \in Kinds, request_begin(i, k)
      PROVE  OwnGeneration
  <2>1. /\ \E g, s : /\ request' = [request EXCEPT ![i] =
                                     [active |-> TRUE, kind |-> k, generation |-> g]]
                     /\ op' = [op EXCEPT ![i] = [pc |-> "submit", slot |-> s]]
        /\ op[i].pc = "idle"
    BY <1>3 DEF request_begin
  <2>2. \A j \in Interfaces : op[j].pc = "abort" => op'[j] = op[j]
    BY <2>1 DEF TypeOK
  <2> QED
    BY <1>1, <1>3, <2>2 DEF request_begin, core
<1>4. ASSUME NEW i \in Interfaces, submit(i)
      PROVE  OwnGeneration
  BY <1>2, <1>4 DEF submit, host
<1>5. ASSUME NEW i \in Interfaces, request_abort(i)
      PROVE  OwnGeneration
  <2> SUFFICES ASSUME NEW j \in Interfaces, request[j].active, ~request'[j].active
               PROVE  completions[j][op[j].slot].generation = request[j].generation
    BY <1>5 DEF OwnGeneration, request_abort, core
  <2>1. Matches(i, completions[i][op[i].slot]) /\ j = i
    BY <1>5 DEF request_abort, TypeOK
  <2> QED
    BY <2>1 DEF Matches
<1>6. ASSUME NEW q \in rpc, NEW ok \in BOOLEAN, request_complete(q, ok)
      PROVE  OwnGeneration
  <2>1. rpc \ rpc' \subseteq {q} /\ UNCHANGED op
    BY <1>6 DEF request_complete, CoreAnswers
  <2>2. completions[q.interface][q.slot].generation = q.generation
    BY DEF SlotOwnership, Callbacks
  <2>3. \A i \in Interfaces : request[i].active /\ ~request'[i].active =>
          i = q.interface /\ Matches(i, completions[q.interface][q.slot])
    BY <1>6 DEF request_complete, TypeOK
  <2>4. \A i \in Interfaces : ~(op[i].pc = "abort" /\ op'[i].pc = "idle")
    BY <2>1
  <2>5. \A i \in Interfaces : request[i].active /\ ~request'[i].active =>
          q.generation = request[i].generation
    BY <2>2, <2>3 DEF Matches
  <2> QED
    BY <2>1, <2>4, <2>5 DEF OwnGeneration
<1>7. CASE ScanStop
  <2>1. /\ "STA" \in Interfaces /\ op["STA"].pc # "abort" /\ UNCHANGED rpc
        /\ \E p : op' = [op EXCEPT !["STA"].pc = p]
    BY <1>7 DEF ScanStop, scan_stop_check, scan_stop_finish, scan_stop_report, core
  <2>2. \A i \in Interfaces : op[i].pc = "abort" => op'[i] = op[i]
    BY <2>1 DEF TypeOK
  <2> QED
    BY <1>1, <2>1, <2>2
<1>8. CASE ScanEvent \/ LinkEvent \/ Handler
  <2>1. UNCHANGED <<rpc, op>>
    BY <1>8 DEF ScanEvent, LinkEvent, Handler, report_scan_result, report_scan_complete,
       report_connected, report_disconnected, ex_finish, ex_report, core
  <2> QED
    BY <1>1, <2>1
<1>9. CASE recover
  <2>1. UNCHANGED <<rpc, op>>
    BY <1>9 DEF recover, recover_begin, wlan_reset, wlan_reset_read, wlan_reset_clear,
       wlan_reset_report_pending, wlan_reset_report_link, host_stop, host_start, core
  <2> QED
    BY <1>1, <2>1
<1>10. CASE UNCHANGED vars
  BY <1>2, <1>10 DEF vars, host
<1>11. CASE Loss
  BY <1>2, <1>11 DEF Loss, completion_lost, scan_event_lost, link_event_lost, host
<1> QED
  BY <1>3, <1>4, <1>5, <1>6, <1>7, <1>8, <1>9, <1>10, <1>11
  DEF Next, Begin, wlan_scan, wlan_join, wlan_disconnect, wlan_softap, wlan_ap_stop, Kinds,
      Operation, Complete

(* A completion, or the abort of a refused request, never ends a request     *)
(* begun after its own, however many slots, requests and recoveries.         *)
THEOREM OwnGenerationCorrect == Spec => OwnGenerationOnly
<1>1. TypeOK /\ SlotOwnership /\ [Next]_vars => [OwnGeneration]_vars
  BY OwnGenerationStep
<1> QED
  BY <1>1, TypeCorrect, SlotsCorrect, PTL DEF Spec, OwnGenerationOnly, OwnGeneration

-----------------------------------------------------------------------------
(* Until the first recovery, a link that is up is active, or the handler     *)
(* that deactivated it is about to take it down; and a handler about to take *)
(* a link up has activated it.                                               *)
LinkInv ==
  resets = 0 =>
    /\ rs.pc = "idle"
    /\ \A i \in Interfaces : link[i] = "up" /\ ~active[i] =>
         ex.pc # "idle" /\ ex.interface = i /\ ex.event \in {"DISCONNECT", "AP_STOP"}
    /\ ex.pc # "idle" /\ ex.event \in {"CONNECT", "AP_START"} => active[ex.interface]

LEMMA LinkStep ==
  ASSUME TypeOK, LinkInv, [Next]_vars
  PROVE  LinkInv'
<1> SUFFICES ASSUME resets' = 0
             PROVE  LinkInv'
  BY DEF LinkInv
<1> USE DEF TypeOK
<1>1. ASSUME UNCHANGED <<active, ex, rs, link, resets>>
      PROVE  LinkInv'
  BY <1>1 DEF LinkInv
<1>2. CASE Begin \/ \E i \in Interfaces : Operation(i)
  BY <1>1, <1>2 DEF Begin, wlan_scan, wlan_join, wlan_disconnect, wlan_softap, wlan_ap_stop,
     request_begin, Operation, submit, request_abort, host
<1>3. CASE ScanStop
  <2>1. UNCHANGED <<active, ex, rs, resets>>
    BY <1>3 DEF ScanStop, scan_stop_check, scan_stop_finish, scan_stop_report, host
  <2>2. UNCHANGED link
    BY <1>3 DEF ScanStop, scan_stop_check, scan_stop_finish, scan_stop_report, report_event
  <2> QED
    BY <1>1, <2>1, <2>2
<1>4. ASSUME NEW r \in rpc, NEW ok \in BOOLEAN, request_complete(r, ok)
      PROVE  LinkInv'
  <2>1. ex.pc = "idle" /\ UNCHANGED <<active, rs, link, resets>>
    BY <1>4 DEF request_complete, ExIdle
  <2>2. UNCHANGED ex \/ ex'.event \notin {"CONNECT", "AP_START"}
    BY <1>4 DEF request_complete, ExTo, FailureReport
  <2> QED
    BY <2>1, <2>2 DEF LinkInv
<1>5. CASE ScanEvent
  <2>1. ex.pc = "idle" /\ UNCHANGED <<active, rs, link, resets>>
    BY <1>5 DEF ScanEvent, report_scan_result, report_scan_complete, ExIdle, host
  <2>2. UNCHANGED ex \/ ex'.event \notin {"CONNECT", "AP_START"}
    BY <1>5 DEF ScanEvent, report_scan_result, report_scan_complete, ExTo
  <2> QED
    BY <2>1, <2>2 DEF LinkInv
<1>6. ASSUME NEW i \in Interfaces, report_connected(i) PROVE LinkInv'
  BY <1>6 DEF report_connected, ExIdle, ExTo, LinkInv
<1>7. ASSUME NEW i \in Interfaces, report_disconnected(i) PROVE LinkInv'
  BY <1>7 DEF report_disconnected, ExIdle, ExTo, LinkInv
<1>8. CASE ex_finish
  BY <1>8 DEF ex_finish, LinkInv
<1>9. CASE ex_report
  BY <1>9 DEF ex_report, ExDone, report_event, LinkInv, host
<1>10. CASE recover
  BY <1>10 DEF recover, recover_begin, wlan_reset, wlan_reset_read, wlan_reset_clear,
     wlan_reset_report_pending, wlan_reset_report_link, host_stop, host_start, LinkInv
<1>11. CASE UNCHANGED vars
  BY <1>1, <1>11 DEF vars, host
<1>12. CASE Loss
  BY <1>1, <1>12 DEF Loss, completion_lost, scan_event_lost, link_event_lost, host
<1> QED
  BY <1>2, <1>3, <1>4, <1>5, <1>6, <1>7, <1>8, <1>9, <1>10, <1>11, <1>12
  DEF Next, Complete, LinkEvent, Handler

(* RT-Thread sees a link up only while interface->active is set, until the   *)
(* first recovery.  The bound is the code's: wlh_rtt_wlan_reset clears       *)
(* active beside a handler that is about to report the link up.              *)
THEOREM LinkUpCorrect == Spec => [](resets = 0 => LinkUpImpliesActive)
<1>1. Init => LinkInv
  BY DEF Init, LinkInv
<1>2. TypeOK /\ LinkInv /\ [Next]_vars => LinkInv'
  BY LinkStep
<1>3. LinkInv => (resets = 0 => LinkUpImpliesActive)
  BY DEF LinkInv, LinkUpImpliesActive
<1> QED
  BY <1>1, <1>2, <1>3, TypeCorrect, PTL DEF Spec

-----------------------------------------------------------------------------
(* With a kernel whose rt_mq_recv returns the length of the message, as the  *)
(* one of this tree does, the executor runs no completion and no event: a    *)
(* slot that Core was given never comes back, no interface becomes active    *)
(* and RT-Thread is told of no link.                                         *)
Unserved ==
  /\ \A i \in Interfaces : ~active[i] /\ link[i] = "down"
  /\ ex.pc = "idle"

THEOREM NeverServed ==
  ReturnsLength /\ Spec => []Unserved /\ [][rpc \ rpc' \subseteq lost']_vars
<1> SUFFICES ASSUME ReturnsLength
             PROVE  Spec => []Unserved /\ [][rpc \ rpc' \subseteq lost']_vars
  BY DEF ReturnsLength
<1> DEFINE Kept == rpc \ rpc' \subseteq lost'
<1>1. Init => Unserved
  BY DEF Init, Unserved
<1>2. TypeOK /\ Unserved /\ [Next]_vars => Unserved' /\ [Kept]_vars
  <2> SUFFICES ASSUME TypeOK, Unserved, [Next]_vars PROVE Unserved' /\ [Kept]_vars
    OBVIOUS
  <2>1. ~ExIdle /\ ex.pc = "idle"
    BY DEF ExIdle, ReturnsLength, Unserved
  <2>2. ASSUME UNCHANGED <<active, ex>>, rpc \subseteq rpc' \/ Kept,
               \A i \in Interfaces : link[i] = "down" => link'[i] = "down"
        PROVE  Unserved' /\ [Kept]_vars
    BY <2>2 DEF Unserved
  <2>3. CASE Begin \/ \E i \in Interfaces : Operation(i)
    BY <2>2, <2>3 DEF Begin, wlan_scan, wlan_join, wlan_disconnect, wlan_softap,
       wlan_ap_stop, request_begin, Operation, submit, request_abort, host, core
  <2>4. CASE ScanStop
    BY <2>2, <2>4 DEF TypeOK, ScanStop, scan_stop_check, scan_stop_finish,
       scan_stop_report, report_event, host, core
  <2>5. CASE Complete \/ ScanEvent \/ LinkEvent \/ Handler
    BY <2>1, <2>5 DEF Complete, request_complete, ScanEvent, report_scan_result,
       report_scan_complete, LinkEvent, report_connected, report_disconnected, Handler,
       ex_finish, ex_report
  <2>6. CASE Loss
    BY <2>2, <2>6 DEF Loss, completion_lost, CoreAnswers, scan_event_lost, link_event_lost,
       host
  <2>7. CASE recover
    <3>1. UNCHANGED <<ex, rpc>>
      BY <2>7 DEF recover, recover_begin, wlan_reset, wlan_reset_read, wlan_reset_clear,
         wlan_reset_report_pending, wlan_reset_report_link, host_stop, host_start, core
    <3>2. \A i \in Interfaces : ~active'[i]
      BY <2>7 DEF TypeOK, Unserved, recover, recover_begin, wlan_reset, wlan_reset_read,
         wlan_reset_clear, wlan_reset_report_pending, wlan_reset_report_link, host_stop,
         host_start, host
    <3>3. \A i \in Interfaces : link'[i] = "down"
      BY <2>7 DEF TypeOK, Unserved, recover, recover_begin, wlan_reset, wlan_reset_read,
         wlan_reset_clear, wlan_reset_report_pending, wlan_reset_report_link, host_stop,
         host_start, report_event, FailureReport
    <3> QED
      BY <2>1, <3>1, <3>2, <3>3 DEF Unserved
  <2>8. CASE UNCHANGED vars
    BY <2>2, <2>8 DEF vars, host, core
  <2> QED
    BY <2>3, <2>4, <2>5, <2>6, <2>7, <2>8 DEF Next
<1> QED
  BY <1>1, <1>2, TypeCorrect, PTL DEF Spec
=============================================================================
