-------------------------- MODULE BootState_proofs --------------------------
(***************************************************************************)
(* The boot decision for every FailLimit, every CountMax and any number of *)
(* resets and FlashDB errors, reported or not.                             *)
(*                                                                         *)
(* One inductive invariant serves the three properties.  Before the count  *)
(* is stored, the causes of the last reset are still pending: in the PPOR  *)
(* flags until main has read them, then in reset_flags.  CountsCrashes     *)
(* says that the stored count is behind the crashes of the application by  *)
(* at most one, for which a pending watchdog cause makes up, and by        *)
(* FailLimit for each write that was lost (Slack);                         *)
(* CountsOnlyHits that it is never ahead of the watchdog resets;           *)
(* ForceServed that a served flag stays cleared.                           *)
(***************************************************************************)
EXTENDS BootState, TLAPS

Early == {"reset", "clear", "init", "count"}
Pending == IF pc = "reset" THEN flags ELSE reset_flags

FlagsRead ==
  /\ pc = "clear" => reset_flags = flags
  /\ pc \notin {"reset", "clear"} => flags = {}

Slack == FailLimit * lost

CountsCrashes ==
  /\ crashes <= FailLimit + Slack
  /\ pc \in Early \cup {"uf2"} => crashes <= fail_count + 1 + Slack
  /\ pc \in Early /\ "wdog" \notin Pending => crashes = 0
  /\ pc \notin Early \cup {"uf2"} => crashes <= fail_count + Slack
  /\ pc = "stay" => force # 0 \/ crashes < FailLimit + Slack
  /\ pc \in {"valid", "app"} => crashes < FailLimit + Slack

CountsOnlyHits ==
  /\ fail_count <= hits
  /\ pc \in Early /\ "wdog" \in Pending => fail_count + 1 <= hits
  /\ pc = "force" => hits >= FailLimit

ForceServed ==
  served /\ kv_errors = 0 =>
    /\ force = 0
    /\ pc \notin {"force", "clear_force"}
    /\ pc \in Early => "wdog" \notin Pending

BlInv == FlagsRead /\ CountsCrashes /\ CountsOnlyHits /\ ForceServed

-----------------------------------------------------------------------------
(* The counters of resets and errors and the stored keys keep their types;   *)
(* crashes and hits never outnumber the resets.                              *)
BlTypeInv == BlTypeOK /\ crashes <= resets /\ hits <= resets

LEMMA BlInitType == BlInit => BlTypeInv
<1> SUFFICES ASSUME BlInit PROVE BlTypeInv
  OBVIOUS
<1>1. flags \in SUBSET Causes /\ reset_flags \in SUBSET Causes /\ served \in BOOLEAN
  BY Zenon DEF BlInit, Causes
<1>2. /\ fail_count \in 0 .. CountMax /\ force \in 0 .. 1
      /\ resets \in 0 .. MaxResets /\ kv_errors \in 0 .. MaxKvErrors /\ lost \in 0 .. kv_errors
      /\ crashes \in 0 .. MaxResets /\ hits \in 0 .. MaxResets
      /\ crashes <= resets /\ hits <= resets
  BY BootAssumption DEF BlInit
<1>3. pc \in Steps
  BY DEF BlInit, Steps
<1> QED BY <1>1, <1>2, <1>3 DEF BlTypeInv, BlTypeOK

(* What an attempt to write may leave, by its outcome.                       *)
LEMMA StoredValues ==
  ASSUME NEW old, NEW new, NEW out \in Outcomes, NEW v \in Stored(old, new, out)
  PROVE  /\ v \in {old, new, 0}
         /\ out = "stored" => v = new
         /\ out = "error" => v \in {old, new}
         /\ out = "lost" => v \in {old, 0}
  BY DEF Outcomes, Stored

LEMMA TryKeeps ==
  ASSUME NEW out \in Outcomes, Try(out),
         kv_errors \in 0 .. MaxKvErrors, lost \in 0 .. kv_errors, MaxKvErrors \in Nat
  PROVE  /\ kv_errors' \in 0 .. MaxKvErrors /\ lost' \in 0 .. kv_errors'
         /\ out = "stored" <=> kv_errors' = kv_errors
         /\ out # "stored" => kv_errors' > 0
         /\ lost' = IF out = "lost" THEN lost + 1 ELSE lost
  BY DEF Outcomes, Try

LEMMA BlNextType == BlTypeInv /\ [BlNext]_bl_vars => BlTypeInv'
<1> SUFFICES ASSUME BlTypeInv, [BlNext]_bl_vars PROVE BlTypeInv'
  OBVIOUS
<1> USE BootAssumption DEF BlTypeInv, BlTypeOK, Causes, Steps
<1>1. CASE read_reset_flags
  BY <1>1 DEF read_reset_flags, keys, errors, ghosts
<1>2. CASE clear_reset_flags
  BY <1>2 DEF clear_reset_flags, keys, errors, ghosts
<1>3. CASE should_stay_read
  BY <1>3 DEF should_stay_read, keys, errors, ghosts
<1>4. ASSUME NEW out \in Outcomes, bl_state_init(out) PROVE BlTypeInv'
  BY <1>4, TryKeeps DEF bl_state_init, keys, ghosts
<1>5. ASSUME NEW out \in Outcomes, update_fail_count(out) PROVE BlTypeInv'
  <2>1. next_fail_count \in 0 .. CountMax
    BY DEF next_fail_count
  <2>2. fail_count' \in {fail_count, next_fail_count, 0}
    BY <1>5, StoredValues DEF update_fail_count
  <2> QED BY <1>5, <2>1, <2>2, TryKeeps DEF update_fail_count
<1>6. ASSUME NEW out \in Outcomes, update_force(out) PROVE BlTypeInv'
  <2>1. force' \in {force, 1, 0}
    BY <1>6, StoredValues DEF update_force
  <2> QED BY <1>6, <2>1, TryKeeps DEF update_force, ghosts
<1>7. ASSUME NEW out \in Outcomes, should_stay_clear(out) PROVE BlTypeInv'
  <2>1. force' \in {force, 0}
    BY <1>7, StoredValues DEF should_stay_clear
  <2> QED BY <1>7, <2>1, TryKeeps DEF should_stay_clear
<1>8. ASSUME NEW valid \in BOOLEAN, choose_mode(valid) PROVE BlTypeInv'
  BY <1>8 DEF choose_mode, keys, errors, ghosts
<1>9. ASSUME NEW cause \in Causes, chip_reset(cause) PROVE BlTypeInv'
  <2>1. resets' \in 0 .. MaxResets /\ resets <= resets' /\ (cause = "wdog" => resets' = resets + 1)
    BY <1>9 DEF chip_reset
  <2>2. flags' \in SUBSET Causes /\ reset_flags' \in SUBSET Causes
    BY <1>9 DEF chip_reset
  <2>3. /\ crashes' \in 0 .. MaxResets /\ crashes' <= resets'
        /\ hits' \in 0 .. MaxResets /\ hits' <= resets'
    BY <1>9, <2>1 DEF chip_reset
  <2>4. /\ served' \in BOOLEAN /\ pc' = "reset" /\ UNCHANGED <<fail_count, force, kv_errors>>
        /\ lost' \in {lost, 0}
    BY <1>9 DEF chip_reset, keys
  <2> QED BY <2>1, <2>2, <2>3, <2>4
<1>10. CASE UNCHANGED bl_vars
  BY <1>10 DEF bl_vars
<1> QED BY <1>1, <1>2, <1>3, <1>4, <1>5, <1>6, <1>7, <1>8, <1>9, <1>10
        DEF BlNext, bl_steps

-----------------------------------------------------------------------------
(* The invariant holds at power-on and every step keeps it.                  *)
LEMMA BlInitInv == BlInit => BlInv
<1>1. BlInit => Slack = 0
  BY BootAssumption DEF BlInit, Slack
<1> QED
  BY <1>1, BootAssumption DEF BlInit, BlInv, FlagsRead, CountsCrashes, CountsOnlyHits,
     ForceServed, Early, Pending

LEMMA BlNextInv == BlTypeInv /\ BlInv /\ [BlNext]_bl_vars => BlInv'
<1> SUFFICES ASSUME BlTypeInv, BlInv, [BlNext]_bl_vars PROVE BlInv'
  OBVIOUS
<1>0. /\ Slack \in Nat
      /\ lost' = lost => Slack' = Slack
      /\ lost' = lost + 1 => Slack' = Slack + FailLimit
      /\ lost' = 0 => Slack' = 0
  BY BootAssumption DEF BlTypeInv, BlTypeOK, Slack
<1> USE <1>0, BootAssumption DEF BlTypeInv, BlTypeOK, Causes, Steps, BlInv, Early, Pending,
        FlagsRead, CountsCrashes, CountsOnlyHits, ForceServed
<1>1. CASE read_reset_flags
  BY <1>1 DEF read_reset_flags, keys, errors, ghosts
<1>2. CASE clear_reset_flags
  BY <1>2 DEF clear_reset_flags, keys, errors, ghosts
<1>3. CASE should_stay_read
  BY <1>3 DEF should_stay_read, keys, errors, ghosts
<1>4. ASSUME NEW out \in Outcomes, bl_state_init(out) PROVE BlInv'
  <2>1. lost' = lost /\ (out = "error" => kv_errors' > 0) /\ out \in {"stored", "error"}
        /\ (out = "stored" => kv_errors' = kv_errors)
    BY <1>4, TryKeeps DEF bl_state_init, Outcomes
  <2> QED BY <1>4, <2>1 DEF bl_state_init, Ok, keys, ghosts
<1>5. ASSUME NEW out \in Outcomes, update_fail_count(out) PROVE BlInv'
  <2>1. /\ lost' = IF out = "lost" THEN lost + 1 ELSE lost
        /\ out # "stored" => kv_errors' > 0
        /\ out = "stored" => kv_errors' = kv_errors
    BY <1>5, TryKeeps DEF update_fail_count
  <2>2. /\ out = "stored" => fail_count' = next_fail_count
        /\ out = "error" => fail_count' \in {fail_count, next_fail_count}
        /\ out = "lost" => fail_count' \in {fail_count, 0}
        /\ out \in Outcomes
    BY <1>5, StoredValues DEF update_fail_count
  <2>3. CASE out = "stored" /\ "wdog" \in reset_flags
    BY <1>5, <2>1, <2>2, <2>3 DEF update_fail_count, next_fail_count, Ok
  <2>4. CASE out = "stored" /\ "wdog" \notin reset_flags
    BY <1>5, <2>1, <2>2, <2>4 DEF update_fail_count, next_fail_count, Ok
  <2>5. CASE out = "error"
    BY <1>5, <2>1, <2>2, <2>5 DEF update_fail_count, next_fail_count, Ok
  <2>6. CASE out = "lost"
    BY <1>5, <2>1, <2>2, <2>6 DEF update_fail_count, next_fail_count, Ok
  <2> QED BY <2>2, <2>3, <2>4, <2>5, <2>6 DEF Outcomes
<1>6. ASSUME NEW out \in Outcomes, update_force(out) PROVE BlInv'
  <2>1. /\ lost' = IF out = "lost" THEN lost + 1 ELSE lost
        /\ out # "stored" => kv_errors' > 0
        /\ out = "stored" => kv_errors' = kv_errors /\ force' = 1
    BY <1>6, TryKeeps, StoredValues DEF update_force
  <2>2. /\ pc = "force" /\ pc' = (IF out # "error" THEN "stay" ELSE "uf2")
        /\ UNCHANGED <<flags, fail_count, reset_flags, resets, crashes, hits, served>>
    BY <1>6 DEF update_force, Ok, ghosts
  <2>3. CASE out = "stored"
    BY <2>1, <2>2, <2>3
  <2>4. CASE out = "error"
    BY <2>1, <2>2, <2>4
  <2>5. CASE out = "lost"
    BY <2>1, <2>2, <2>5
  <2> QED BY <2>3, <2>4, <2>5 DEF Outcomes
<1>7. ASSUME NEW out \in Outcomes, should_stay_clear(out) PROVE BlInv'
  <2>1. /\ lost' = IF out = "lost" THEN lost + 1 ELSE lost
        /\ out # "stored" => kv_errors' > 0
        /\ out = "stored" => kv_errors' = kv_errors /\ force' = 0
    BY <1>7, TryKeeps, StoredValues DEF should_stay_clear
  <2> QED BY <1>7, <2>1 DEF should_stay_clear
<1>8. ASSUME NEW valid \in BOOLEAN, choose_mode(valid) PROVE BlInv'
  BY <1>8 DEF choose_mode, keys, errors, ghosts
<1>9. ASSUME NEW cause \in Causes, chip_reset(cause) PROVE BlInv'
  <2>1. CASE cause = "wdog"
    <3>1. /\ pc' = "reset" /\ "wdog" \in flags' /\ ~served'
          /\ fail_count' = fail_count /\ hits' = hits + 1 /\ lost' = lost
          /\ crashes' = IF pc = "app" THEN crashes + 1 ELSE crashes
      BY <1>9, <2>1 DEF chip_reset, keys
    <3>2. CountsCrashes'
      BY <3>1
    <3>3. FlagsRead' /\ CountsOnlyHits' /\ ForceServed'
      BY <3>1
    <3> QED BY <3>2, <3>3
  <2>2. CASE cause # "wdog"
    BY <1>9, <2>2 DEF chip_reset, keys
  <2> QED BY <2>1, <2>2
<1>10. CASE UNCHANGED bl_vars
  BY <1>10 DEF bl_vars
<1> QED BY <1>1, <1>2, <1>3, <1>4, <1>5, <1>6, <1>7, <1>8, <1>9, <1>10
        DEF BlNext, bl_steps

LEMMA BlInvariance == BlSpec => [](BlTypeInv /\ BlInv)
<1>1. BlInit => BlTypeInv /\ BlInv
  BY BlInitType, BlInitInv
<1>2. (BlTypeInv /\ BlInv) /\ [BlNext]_bl_vars => (BlTypeInv /\ BlInv)'
  BY BlNextType, BlNextInv
<1> QED BY <1>1, <1>2, PTL DEF BlSpec

-----------------------------------------------------------------------------
(* The keys, the flags and the counters keep their types; bl.fail_count      *)
(* saturates.                                                                *)
THEOREM BlTypeCorrect == BlSpec => []BlTypeOK
<1>1. BlTypeInv /\ BlInv => BlTypeOK
  BY DEF BlTypeInv
<1> QED BY <1>1, BlInvariance, PTL

(* main() does not start an application that hung FailLimit times in a row,  *)
(* whichever write of FlashDB reports an error; each write that fails        *)
(* without a word puts this off by at most FailLimit crashes.                *)
THEOREM CrashLoopsStop == BlSpec => []CrashLoopStops
<1>1. BlTypeInv /\ BlInv => CrashLoopStops
  <2> SUFFICES ASSUME BlTypeInv, BlInv, pc = "app"
               PROVE  crashes < FailLimit * (lost + 1)
    BY DEF CrashLoopStops
  <2>1. FailLimit * (lost + 1) = FailLimit + Slack
    BY BootAssumption DEF BlTypeInv, BlTypeOK, Slack
  <2> QED BY <2>1 DEF BlInv, CountsCrashes
<1> QED BY <1>1, BlInvariance, PTL

(* bl_state_update_for_reset sets the flag only after FailLimit watchdog     *)
(* resets that it has not counted before.                                    *)
THEOREM ForceIsEarned == BlSpec => NoFalseForce
<1>1. BlTypeInv /\ BlInv /\ [BlNext]_bl_vars
        => [force = 0 /\ force' = 1 => hits >= FailLimit]_bl_vars
  <2> SUFFICES ASSUME BlTypeInv, BlInv, BlNext, force = 0, force' = 1
               PROVE hits >= FailLimit
    OBVIOUS
  <2>1. pc = "force"
    <3>1. ASSUME NEW out \in Outcomes, should_stay_clear(out) PROVE force' = 0
      BY <3>1, StoredValues DEF should_stay_clear
    <3> QED
      BY <3>1 DEF BlNext, bl_steps, read_reset_flags, clear_reset_flags, bl_state_init,
         update_fail_count, update_force, should_stay_read, choose_mode, chip_reset, keys
  <2> QED BY <2>1 DEF BlInv, CountsOnlyHits
<1> QED BY <1>1, BlInvariance, PTL DEF BlSpec, NoFalseForce

(* bl_state_should_stay keeps the board in UF2 mode once for each time the   *)
(* flag was set, as long as FlashDB lets it clear the flag.                  *)
THEOREM ForceServedOnce == BlSpec => ForceIsOneShot
<1>1. BlTypeInv /\ BlInv /\ [BlNext]_bl_vars
        => [pc = "clear_force" /\ pc' = "uf2" => ~served \/ kv_errors > 0]_bl_vars
  BY DEF BlInv, ForceServed, BlTypeInv, BlTypeOK
<1> QED BY <1>1, BlInvariance, PTL DEF BlSpec, ForceIsOneShot
=============================================================================
