----------------------------- MODULE ApClients -----------------------------
(***************************************************************************)
(* The SoftAP client table: host->ap_client and host->ap_clients, updated  *)
(* by Core's events on the executor thread (report_ap_client and the AP    *)
(* branch of report_disconnected, wlan/wlh_rtt_wlan_event.c, with          *)
(* wlh_rtt_ap_client_update, src/wlh_rtt_logic.c) and cleared by           *)
(* wlh_rtt_wlan_reset on the thread that stops or recovers the host.       *)
(* Neither thread takes host->lock, so the search, the entry's update and  *)
(* the store of the count are separate steps, and so are the two writes of *)
(* wlh_rtt_ap_client_clear.                                                *)
(*                                                                         *)
(* External: the coprocessor reports a client's JOINED and LEFT in order   *)
(* (on_air), may stop the AP with clients associated, and goes on          *)
(* reporting until wlh_host_stop ends the session.                         *)
(***************************************************************************)
EXTENDS Integers, FiniteSets

CONSTANTS Macs,        \* client addresses
          Capacity,    \* WLH_RTT_HOST_AP_MAX_CLIENTS
          MaxResets    \* bound on the recoveries of a behaviour

ASSUME ClientsAssumption ==
  IsFiniteSet(Macs) /\ Macs # {} /\ Capacity \in Nat \ {0} /\ MaxResets \in Nat

Index == 1 .. Capacity
AnyMac == CHOOSE m \in Macs : TRUE
Cleared == [active |-> FALSE, mac |-> AnyMac]

VARIABLES table,        \* [Index -> [active, mac]]: host->ap_client
          ap_clients,   \* host->ap_clients
          ex,           \* the executor inside wlh_rtt_ap_client_update
          rs,           \* "idle", "clear", "zero" or "stop"
          session,      \* "ready" or "stopped"
          on_air,       \* clients whose last event delivered is JOINED
          overflowed,   \* a client found the table full, or the AP stopped with clients
          resets

vars == <<table, ap_clients, ex, rs, session, on_air, overflowed, resets>>

-----------------------------------------------------------------------------
(* The search loop of wlh_rtt_ap_client_update: the active entry of this    *)
(* client, else, for a client that joined, the first free entry; 0 if none. *)
find_client_first_free(mac, joined) ==
  LET hit(n) == (table[n].active /\ table[n].mac = mac) \/ (joined /\ ~table[n].active)
  IN IF \E n \in Index : hit(n)
     THEN CHOOSE n \in Index : hit(n) /\ \A k \in 1 .. n - 1 : ~hit(k) ELSE 0

find_client(mac, joined) ==
  LET match == {n \in Index : table[n].active /\ table[n].mac = mac}
      free  == {n \in Index : joined /\ ~table[n].active}
      from  == IF match # {} THEN match ELSE free
  IN IF from = {} THEN 0 ELSE CHOOSE n \in from : \A k \in from : n <= k

(* report_ap_client: the event is decoded and the entry searched for.       *)
ap_client_find(mac, joined) ==
  /\ ex.pc = "idle" /\ session = "ready"
  /\ joined # (mac \in on_air)
  /\ on_air' = IF joined THEN on_air \cup {mac} ELSE on_air \ {mac}
  /\ LET n == find_client(mac, joined) IN
       /\ ex' = IF n = 0 THEN ex
                ELSE [ex EXCEPT !.pc = "write", !.entry = n, !.mac = mac, !.joined = joined]
       /\ overflowed' = (overflowed \/ (n = 0 /\ joined))
  /\ UNCHANGED <<table, ap_clients, rs, session, resets>>

(* was_active is read, the entry written and the count loaded ...           *)
ap_client_write_no_floor ==
  /\ ex.pc = "write"
  /\ table' = [table EXCEPT ![ex.entry] = [active |-> ex.joined, mac |-> ex.mac]]
  /\ ex' = IF ex.joined = table[ex.entry].active THEN [ex EXCEPT !.pc = "idle"]
           ELSE [ex EXCEPT !.pc = "store",
                           !.count = ap_clients + (IF ex.joined THEN 1 ELSE -1)]
  /\ UNCHANGED <<ap_clients, rs, session, on_air, overflowed, resets>>

ap_client_write_no_decrement ==
  /\ ex.pc = "write"
  /\ table' = [table EXCEPT ![ex.entry] = [active |-> ex.joined, mac |-> ex.mac]]
  /\ ex' = IF ex.joined /\ ~table[ex.entry].active
           THEN [ex EXCEPT !.pc = "store", !.count = ap_clients + 1]
           ELSE [ex EXCEPT !.pc = "idle"]
  /\ UNCHANGED <<ap_clients, rs, session, on_air, overflowed, resets>>

ap_client_write ==
  /\ ex.pc = "write"
  /\ table' = [table EXCEPT ![ex.entry] = [active |-> ex.joined, mac |-> ex.mac]]
  /\ LET was_active == table[ex.entry].active
         count == IF ex.joined /\ ~was_active THEN ap_clients + 1
                  ELSE IF ~ex.joined /\ was_active /\ ap_clients # 0 THEN ap_clients - 1
                  ELSE ap_clients
     IN ex' = IF count = ap_clients THEN [ex EXCEPT !.pc = "idle"]
                                    ELSE [ex EXCEPT !.pc = "store", !.count = count]
  /\ UNCHANGED <<ap_clients, rs, session, on_air, overflowed, resets>>

(* ... and the incremented or decremented count is stored.                  *)
ap_client_store ==
  /\ ex.pc = "store"
  /\ ap_clients' = ex.count
  /\ ex' = [ex EXCEPT !.pc = "idle"]
  /\ UNCHANGED <<table, rs, session, on_air, overflowed, resets>>

(* report_disconnected for the AP zeroes the count and leaves the table.    *)
report_disconnected ==
  /\ ex.pc = "idle" /\ session = "ready"
  /\ ap_clients' = 0
  /\ on_air' = {}
  /\ overflowed' = (overflowed \/ on_air # {})
  /\ UNCHANGED <<table, ex, rs, session, resets>>

(* Recovery: wlh_rtt_ap_client_clear, the end of the session, a new one.    *)
wlan_reset_begin ==
  /\ rs = "idle" /\ session = "ready" /\ resets < MaxResets
  /\ rs' = "clear" /\ resets' = resets + 1
  /\ UNCHANGED <<table, ap_clients, ex, session, on_air, overflowed>>

ap_client_clear_table ==
  /\ rs = "clear"
  /\ table' = [n \in Index |-> Cleared]
  /\ rs' = "zero"
  /\ UNCHANGED <<ap_clients, ex, session, on_air, overflowed, resets>>

ap_client_clear_count ==
  /\ rs = "zero"
  /\ ap_clients' = 0
  /\ rs' = "stop"
  /\ UNCHANGED <<table, ex, session, on_air, overflowed, resets>>

host_stop ==
  /\ rs = "stop" /\ session = "ready"
  /\ session' = "stopped" /\ on_air' = {}
  /\ UNCHANGED <<table, ap_clients, ex, rs, overflowed, resets>>

host_start ==
  /\ rs = "stop" /\ session = "stopped" /\ ex.pc = "idle"
  /\ session' = "ready" /\ rs' = "idle"
  /\ UNCHANGED <<table, ap_clients, ex, on_air, overflowed, resets>>

Init ==
  /\ table = [n \in Index |-> Cleared]
  /\ ap_clients = 0
  /\ ex = [pc |-> "idle", entry |-> 1, mac |-> AnyMac, joined |-> FALSE, count |-> 0]
  /\ rs = "idle"
  /\ session = "ready"
  /\ on_air = {}
  /\ overflowed = FALSE
  /\ resets = 0

report_ap_client ==
  \/ \E m \in Macs, joined \in BOOLEAN : ap_client_find(m, joined)
  \/ ap_client_write \/ ap_client_store
wlan_reset == \/ wlan_reset_begin \/ ap_client_clear_table \/ ap_client_clear_count
              \/ host_stop \/ host_start

Next == report_ap_client \/ report_disconnected \/ wlan_reset

Spec == Init /\ [][Next]_vars

-----------------------------------------------------------------------------
Active == {n \in Index : table[n].active}
Listed == {table[n].mac : n \in Active}
Quiet == ex.pc = "idle" /\ rs = "idle"

(* Every variable has its type: the count never drops below zero, although   *)
(* report_disconnected zeroes it while entries are active.                   *)
TypeOK ==
  /\ table \in [Index -> [active : BOOLEAN, mac : Macs]]
  /\ ap_clients \in Nat
  /\ ex \in [pc : {"idle", "write", "store"}, entry : Index, mac : Macs,
             joined : BOOLEAN, count : Nat]
  /\ rs \in {"idle", "clear", "zero", "stop"}
  /\ session \in {"ready", "stopped"}
  /\ on_air \in SUBSET Macs
  /\ overflowed \in BOOLEAN
  /\ resets \in 0 .. MaxResets

(* No client has two active entries, however joins and leaves have spread    *)
(* free entries over the table, and although a recovery may clear the table  *)
(* between the search for an entry and its update.                           *)
NoDuplicateClient ==
  \A n, k \in Active : table[n].mac = table[k].mac => n = k

(* While the table never overflowed and the AP was not stopped or reset, the *)
(* active entries between two events are exactly the clients on the air, and *)
(* the count is their number.                                                *)
TableFollowsEvents ==
  Quiet /\ ~overflowed /\ resets = 0 => Listed = on_air /\ ap_clients = Cardinality(on_air)
=============================================================================
