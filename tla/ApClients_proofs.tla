-------------------------- MODULE ApClients_proofs --------------------------
(***************************************************************************)
(* Proofs about the SoftAP client table for every capacity and every set   *)
(* of clients.                                                             *)
(***************************************************************************)
EXTENDS ApClients, FiniteSetTheorems, WellFoundedInduction, TLAPS

(* A non-empty set of natural numbers has a least element.                   *)
LEMMA Least ==
  ASSUME NEW S \in SUBSET Nat, S # {}
  PROVE  \E n \in S : \A k \in S : n <= k
<1>1. PICK x \in S : \A y \in S : ~ (<<y, x>> \in OpToRel(<, Nat))
  BY NatLessThanWellFounded, WFMin, Zenon
<1>2. \A y \in S : ~(y < x)
  BY <1>1 DEF OpToRel
<1> QED
  BY <1>2

(* What the search of wlh_rtt_ap_client_update returns: an active entry of   *)
(* this client if there is one, else for a join a free entry if there is     *)
(* one, else 0.                                                              *)
LEMMA FindClient ==
  ASSUME NEW mac \in Macs, NEW joined \in BOOLEAN
  PROVE  LET n == find_client(mac, joined)
             match == {k \in Index : table[k].active /\ table[k].mac = mac}
             free == {k \in Index : joined /\ ~table[k].active}
         IN /\ match # {} => n \in match
            /\ match = {} /\ free # {} => n \in free
            /\ match = {} /\ free = {} => n = 0
<1> DEFINE match == {k \in Index : table[k].active /\ table[k].mac = mac}
           free == {k \in Index : joined /\ ~table[k].active}
           from == IF match # {} THEN match ELSE free
<1>1. find_client(mac, joined) =
        IF from = {} THEN 0 ELSE CHOOSE n \in from : \A k \in from : n <= k
  BY Zenon DEF find_client
<1>2. from \in SUBSET Nat
  BY ClientsAssumption DEF Index
<1>3. from # {} => find_client(mac, joined) \in from
  <2> HIDE DEF from
  <2> QED
    BY <1>1, <1>2, Least
<1> QED
  BY <1>1, <1>3

Entries == [active : BOOLEAN, mac : Macs]
Executor == [pc : {"idle", "write", "store"}, entry : Index, mac : Macs,
             joined : BOOLEAN, count : Nat]

LEMMA ClearedType == Cleared \in Entries
<1>1. AnyMac \in Macs
  BY ClientsAssumption DEF AnyMac
<1> QED
  BY <1>1 DEF Cleared, Entries

(* Types are preserved; the count does not go below zero.                    *)
THEOREM TypeCorrect == Spec => []TypeOK
<1>1. Init => TypeOK
  <2> SUFFICES ASSUME Init PROVE TypeOK
    OBVIOUS
  <2>1. table \in [Index -> Entries] /\ AnyMac \in Macs /\ 1 \in Index
    BY ClearedType, ClientsAssumption DEF Init, AnyMac, Index
  <2>2. ex \in Executor
    BY <2>1 DEF Init, Executor
  <2>3. 0 \in 0 .. MaxResets
    BY ClientsAssumption
  <2> QED
    BY <2>1, <2>2, <2>3 DEF Init, TypeOK, Entries, Executor
<1>2. TypeOK /\ [Next]_vars => TypeOK'
  <2> SUFFICES ASSUME TypeOK, [Next]_vars PROVE TypeOK'
    OBVIOUS
  <2> USE DEF TypeOK
  <2>1. ASSUME NEW mac \in Macs, NEW joined \in BOOLEAN, ap_client_find(mac, joined)
        PROVE  TypeOK'
    <3> DEFINE n == find_client(mac, joined)
    <3>1. n = 0 \/ n \in Index
      BY FindClient
    <3>2. ex' \in Executor
      <4>1. CASE n = 0
        BY <2>1, <4>1 DEF ap_client_find, Executor
      <4>2. CASE n # 0
        BY <2>1, <3>1, <4>2 DEF ap_client_find, Executor
      <4> QED
        BY <4>1, <4>2
    <3>3. on_air' \in SUBSET Macs /\ overflowed' \in BOOLEAN
      BY <2>1, Zenon DEF ap_client_find
    <3> QED
      BY <2>1, <3>2, <3>3 DEF ap_client_find, Executor
  <2>2. CASE ap_client_write
    <3> DEFINE was == table[ex.entry].active
               count == IF ex.joined /\ ~was THEN ap_clients + 1
                        ELSE IF ~ex.joined /\ was /\ ap_clients # 0 THEN ap_clients - 1
                        ELSE ap_clients
    <3>1. count \in Nat
      OBVIOUS
    <3>2. ex' = IF count = ap_clients THEN [ex EXCEPT !.pc = "idle"]
                ELSE [ex EXCEPT !.pc = "store", !.count = count]
      BY <2>2 DEF ap_client_write
    <3> HIDE DEF count
    <3>3. ex' \in Executor
      BY <3>1, <3>2 DEF Executor
    <3>4. table' \in [Index -> Entries]
      <4>1. [active |-> ex.joined, mac |-> ex.mac] \in Entries
        BY DEF Entries
      <4> QED
        BY <2>2, <4>1 DEF ap_client_write, Entries
    <3> QED
      BY <2>2, <3>3, <3>4 DEF ap_client_write, Executor, Entries
  <2>3. CASE ap_client_store
    BY <2>3 DEF ap_client_store
  <2>4. CASE report_disconnected
    BY <2>4, Zenon DEF report_disconnected
  <2>5. CASE wlan_reset_begin
    BY <2>5, ClientsAssumption DEF wlan_reset_begin
  <2>6. CASE ap_client_clear_table
    BY <2>6, ClearedType DEF ap_client_clear_table, Entries
  <2>7. CASE ap_client_clear_count
    BY <2>7 DEF ap_client_clear_count
  <2>8. CASE host_stop \/ host_start
    BY <2>8 DEF host_stop, host_start
  <2>9. CASE UNCHANGED vars
    BY <2>9 DEF vars
  <2> QED
    BY <2>1, <2>2, <2>3, <2>4, <2>5, <2>6, <2>7, <2>8, <2>9
    DEF Next, report_ap_client, wlan_reset
<1> QED
  BY <1>1, <1>2, PTL DEF Spec

-----------------------------------------------------------------------------
(* Between the search and the update of a join, no entry other than the one  *)
(* found can be an active entry of the client: a recovery in between only    *)
(* clears entries.                                                           *)
Reserved ==
  ex.pc = "write" /\ ex.joined => \A n \in Active : table[n].mac = ex.mac => n = ex.entry

(* No client is listed twice, for any capacity and any interleaving of the   *)
(* executor with a recovery that clears the table.                           *)
THEOREM NoDuplicateCorrect == Spec => []NoDuplicateClient
<1> DEFINE Inv == NoDuplicateClient /\ Reserved
<1>1. Init => Inv
  BY DEF Init, NoDuplicateClient, Reserved, Active, Cleared
<1>2. TypeOK /\ Inv /\ [Next]_vars => Inv'
  <2> SUFFICES ASSUME TypeOK, Inv, [Next]_vars PROVE Inv'
    OBVIOUS
  <2>1. ASSUME NEW mac \in Macs, NEW joined \in BOOLEAN, ap_client_find(mac, joined)
        PROVE  Inv'
    <3> DEFINE n == find_client(mac, joined)
    <3>1. NoDuplicateClient' /\ table' = table
      BY <2>1 DEF ap_client_find, NoDuplicateClient, Active
    <3>2. Reserved'
      <4>1. CASE n = 0
        BY <2>1, <4>1 DEF ap_client_find, Reserved, Active
      <4>2. CASE n # 0
        <5>1. /\ ex'.entry = n /\ ex'.mac = mac
          BY <2>1, <4>2 DEF ap_client_find, TypeOK
        <5>2. \A k \in Active : table[k].mac = mac => k = n
          BY <4>2, FindClient DEF Active, NoDuplicateClient
        <5> QED
          BY <3>1, <5>1, <5>2 DEF Reserved, Active
      <4> QED
        BY <4>1, <4>2
    <3> QED
      BY <3>1, <3>2
  <2>2. CASE ap_client_write
    <3>1. /\ ex.entry \in Index /\ ex'.pc # "write"
          /\ table' = [table EXCEPT ![ex.entry] = [active |-> ex.joined, mac |-> ex.mac]]
      BY <2>2 DEF ap_client_write, TypeOK
    <3>2. \A k \in Index \ {ex.entry} : table'[k] = table[k]
      BY <3>1 DEF TypeOK
    <3>3. table'[ex.entry].active = ex.joined /\ table'[ex.entry].mac = ex.mac
      BY <3>1 DEF TypeOK
    <3>4. ex.pc = "write"
      BY <2>2 DEF ap_client_write
    <3>5. NoDuplicateClient'
      <4> SUFFICES ASSUME NEW n \in Index, NEW k \in Index, table'[n].active, table'[k].active,
                          table'[n].mac = table'[k].mac
                   PROVE  n = k
        BY DEF NoDuplicateClient, Active
      <4>1. CASE n # ex.entry /\ k # ex.entry
        BY <3>2, <4>1 DEF NoDuplicateClient, Active
      <4>2. CASE n = ex.entry \/ k = ex.entry
        BY <3>2, <3>3, <3>4, <4>2 DEF Reserved, Active
      <4> QED
        BY <4>1, <4>2
    <3> QED
      BY <3>1, <3>5 DEF Reserved
  <2>3. CASE ap_client_store
    BY <2>3 DEF ap_client_store, NoDuplicateClient, Reserved, Active, TypeOK
  <2>4. CASE ap_client_clear_table
    BY <2>4 DEF ap_client_clear_table, NoDuplicateClient, Reserved, Active, Cleared
  <2>5. CASE \/ report_disconnected \/ wlan_reset_begin \/ ap_client_clear_count
             \/ host_stop \/ host_start \/ UNCHANGED vars
    BY <2>5 DEF report_disconnected, wlan_reset_begin, ap_client_clear_count, host_stop,
       host_start, vars, NoDuplicateClient, Reserved, Active
  <2> QED
    BY <2>1, <2>2, <2>3, <2>4, <2>5 DEF Next, report_ap_client, wlan_reset
<1> QED
  BY <1>1, <1>2, TypeCorrect, PTL DEF Spec

-----------------------------------------------------------------------------
(* Where the table and the count stand, step by step, while nothing has      *)
(* disturbed them: complete between two events, one client behind while the  *)
(* entry is being written, and only the count behind before its store.       *)
InStep ==
  CASE ex.pc = "idle"  -> Listed = on_air /\ ap_clients = Cardinality(on_air)
    [] ex.pc = "write" -> IF ex.joined
                          THEN /\ ~table[ex.entry].active
                               /\ ex.mac \in on_air /\ Listed = on_air \ {ex.mac}
                               /\ ap_clients + 1 = Cardinality(on_air)
                          ELSE /\ table[ex.entry].active /\ table[ex.entry].mac = ex.mac
                               /\ ex.mac \notin on_air /\ Listed = on_air \cup {ex.mac}
                               /\ ap_clients = Cardinality(on_air) + 1
    [] ex.pc = "store" -> Listed = on_air /\ ex.count = Cardinality(on_air)

FollowInv == ~overflowed /\ resets = 0 => rs = "idle" /\ InStep

(* The clients on the air are finitely many; one more or one less counts so. *)
LEMMA OnAirCount ==
  ASSUME TypeOK, NEW m \in Macs
  PROVE  /\ Cardinality(on_air) \in Nat
         /\ m \notin on_air => Cardinality(on_air \cup {m}) = Cardinality(on_air) + 1
         /\ m \in on_air => Cardinality(on_air \ {m}) = Cardinality(on_air) - 1
<1>1. IsFiniteSet(on_air)
  BY ClientsAssumption, FS_Subset DEF TypeOK
<1> QED
  BY <1>1, FS_CardinalityType, FS_AddElement, FS_RemoveElement

(* A client that is listed when it leaves, or finds an entry when it joins.  *)
LEMMA FollowFind ==
  ASSUME TypeOK, FollowInv, NEW mac \in Macs, NEW joined \in BOOLEAN,
         ap_client_find(mac, joined)
  PROVE  FollowInv'
<1> DEFINE n == find_client(mac, joined)
<1> SUFFICES ASSUME ~overflowed', resets' = 0 PROVE rs' = "idle" /\ InStep'
  BY DEF FollowInv
<1>1. /\ ~overflowed /\ resets = 0 /\ ~(n = 0 /\ joined) /\ ex.pc = "idle"
      /\ UNCHANGED <<table, ap_clients, rs>>
  BY DEF ap_client_find, TypeOK
<1>2. rs = "idle" /\ Listed = on_air /\ ap_clients = Cardinality(on_air)
  BY <1>1 DEF FollowInv, InStep
<1>3. Listed' = Listed
  BY <1>1 DEF Listed, Active
<1>4. CASE joined
  <2>1. mac \notin on_air /\ on_air' = on_air \cup {mac} /\ n # 0
    BY <1>1, <1>4 DEF ap_client_find
  <2>2. n \in Index /\ ~table[n].active
    BY <1>2, <2>1, FindClient DEF Listed, Active
  <2>3. ex'.pc = "write" /\ ex'.entry = n /\ ex'.mac = mac /\ ex'.joined
    BY <1>4, <2>1 DEF ap_client_find, TypeOK
  <2>4. Cardinality(on_air') = Cardinality(on_air) + 1
    BY <2>1, OnAirCount
  <2> QED
    BY <1>1, <1>2, <1>3, <2>1, <2>2, <2>3, <2>4 DEF InStep
<1>5. CASE ~joined
  <2>1. mac \in on_air /\ on_air' = on_air \ {mac}
    BY <1>1, <1>5 DEF ap_client_find
  <2>2. n \in Index /\ table[n].active /\ table[n].mac = mac
    BY <1>2, <2>1, FindClient DEF Listed, Active
  <2>3. ex'.pc = "write" /\ ex'.entry = n /\ ex'.mac = mac /\ ~ex'.joined
    BY <1>5, <2>2, ClientsAssumption DEF ap_client_find, TypeOK, Index
  <2>4. /\ Cardinality(on_air') = Cardinality(on_air) - 1 /\ Cardinality(on_air) \in Nat
        /\ Cardinality(on_air') \in Int
    BY <2>1, OnAirCount
  <2> QED
    BY <1>1, <1>2, <1>3, <2>1, <2>2, <2>3, <2>4 DEF InStep
<1> QED
  BY <1>4, <1>5

(* The entry's update brings the table back in step with the air.            *)
LEMMA FollowWrite ==
  ASSUME TypeOK, NoDuplicateClient, FollowInv, ap_client_write
  PROVE  FollowInv'
<1> SUFFICES ASSUME ~overflowed, resets = 0 PROVE rs' = "idle" /\ InStep'
  BY DEF FollowInv, ap_client_write
<1> DEFINE e == ex.entry
<1>1. /\ ex.pc = "write" /\ rs' = "idle" /\ e \in Index /\ ex.mac \in Macs
      /\ ap_clients \in Nat /\ UNCHANGED <<ap_clients, on_air>>
  BY DEF ap_client_write, TypeOK, FollowInv
<1>2. /\ table'[e].active = ex.joined /\ table'[e].mac = ex.mac
      /\ \A k \in Index \ {e} : table'[k] = table[k]
  BY <1>1 DEF ap_client_write, TypeOK
<1>3. Cardinality(on_air) \in Nat
  BY <1>1, OnAirCount
<1>4. CASE ex.joined
  <2>1. /\ ~table[e].active /\ ex.mac \in on_air /\ Listed = on_air \ {ex.mac}
        /\ ap_clients + 1 = Cardinality(on_air)
    BY <1>1, <1>4 DEF FollowInv, InStep
  <2>2. Active' = Active \cup {e} /\ e \notin Active
    BY <1>1, <1>2, <1>4, <2>1 DEF Active
  <2>3. Listed' = Listed \cup {ex.mac}
    BY <1>1, <1>2, <2>2 DEF Listed, Active
  <2>4. ex'.pc = "store" /\ ex'.count = ap_clients + 1
    BY <1>1, <1>4, <2>1 DEF ap_client_write, TypeOK
  <2> QED
    BY <1>1, <2>1, <2>3, <2>4 DEF InStep
<1>5. CASE ~ex.joined
  <2>1. /\ table[e].active /\ table[e].mac = ex.mac /\ ex.mac \notin on_air
        /\ Listed = on_air \cup {ex.mac} /\ ap_clients = Cardinality(on_air) + 1
    BY <1>1, <1>5 DEF FollowInv, InStep
  <2>2. Active' = Active \ {e} /\ e \in Active
    BY <1>1, <1>2, <1>5, <2>1 DEF Active
  <2>3. \A k \in Active' : table'[k] = table[k] /\ table[k].mac # ex.mac
    BY <1>2, <2>1, <2>2 DEF NoDuplicateClient, Active
  <2>4. Listed' = Listed \ {ex.mac}
    BY <2>1, <2>2, <2>3 DEF Listed
  <2>5. ex'.pc = "store" /\ ex'.count = ap_clients - 1
    BY <1>1, <1>3, <1>5, <2>1 DEF ap_client_write, TypeOK
  <2> QED
    BY <1>1, <1>3, <2>1, <2>4, <2>5 DEF InStep
<1> QED
  BY <1>4, <1>5

(* For every capacity: as long as no client found the table full and the AP  *)
(* was neither stopped with clients nor reset, the table lists between two   *)
(* events exactly the clients on the air and the count is their number.      *)
THEOREM FollowsCorrect == Spec => []TableFollowsEvents
<1>1. Init => FollowInv
  <2> SUFFICES ASSUME Init PROVE FollowInv
    OBVIOUS
  <2>1. Listed = {}
    BY DEF Init, Listed, Active, Cleared
  <2>2. Cardinality({}) = 0
    BY FS_EmptySet
  <2> QED
    BY <2>1, <2>2 DEF Init, FollowInv, InStep
<1>2. TypeOK /\ NoDuplicateClient /\ FollowInv /\ [Next]_vars => FollowInv'
  <2> SUFFICES ASSUME TypeOK, NoDuplicateClient, FollowInv, [Next]_vars PROVE FollowInv'
    OBVIOUS
  <2>1. CASE ap_client_store
    BY <2>1 DEF ap_client_store, FollowInv, InStep, Listed, Active, TypeOK
  <2>2. CASE report_disconnected
    <3> SUFFICES ASSUME ~overflowed', resets' = 0 PROVE rs' = "idle" /\ InStep'
      BY DEF FollowInv
    <3>1. ~overflowed /\ resets = 0 /\ on_air = {} /\ ex.pc = "idle"
      BY <2>2 DEF report_disconnected, TypeOK
    <3>2. /\ rs' = "idle" /\ ex'.pc = "idle" /\ ap_clients' = 0 /\ on_air' = {}
          /\ Listed' = Listed /\ Listed = {}
      BY <2>2, <3>1 DEF report_disconnected, FollowInv, InStep, Listed, Active
    <3>3. Cardinality(on_air') = 0
      BY <3>2, FS_EmptySet
    <3> QED
      BY <3>2, <3>3 DEF InStep
  <2>3. CASE wlan_reset_begin
    BY <2>3 DEF wlan_reset_begin, FollowInv, TypeOK
  <2>4. CASE ap_client_clear_table \/ ap_client_clear_count \/ host_stop \/ host_start
    BY <2>4 DEF ap_client_clear_table, ap_client_clear_count, host_stop, host_start,
       FollowInv
  <2>5. CASE UNCHANGED vars
    BY <2>5 DEF vars, FollowInv, InStep, Listed, Active
  <2> QED
    BY <2>1, <2>2, <2>3, <2>4, <2>5, FollowFind, FollowWrite
    DEF Next, report_ap_client, wlan_reset
<1>3. FollowInv => TableFollowsEvents
  BY DEF FollowInv, InStep, TableFollowsEvents, Quiet
<1> QED
  BY <1>1, <1>2, <1>3, TypeCorrect, NoDuplicateCorrect, PTL DEF Spec
=============================================================================
