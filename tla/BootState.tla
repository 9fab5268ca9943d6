----------------------------- MODULE BootState -----------------------------
(***************************************************************************)
(* The bootloader's decision between the application and UF2 mode: main()  *)
(* of bootloader/src/main.c up to the jump or the UF2 loop, with the       *)
(* FlashDB keys of bootloader/src/bl_state.c.  A reset may come between    *)
(* any two statements: the RAM is lost, the keys and the PPOR flags stay.  *)
(*                                                                         *)
(* External.  FlashDB reads back what it stored, and a reset during a      *)
(* write leaves the old value or the new one.  Its initialisation and its  *)
(* writes may fail.  A write that fails may do so without a word: FlashDB  *)
(* programs a few bytes inside a page at a time, and the FAL port returns  *)
(* success for a failed program of that kind (write_result of FalPort).    *)
(* The new value is then not stored, and the old one may be gone as well.  *)
(* The reset flags accumulate until they are cleared, except over a power  *)
(* cycle.                                                                  *)
(* The application may hang (the watchdog resets the chip) or be reset.    *)
(* Whether the application's signature is valid is an input here; module   *)
(* Boot supplies it.                                                       *)
(***************************************************************************)
EXTENDS Integers, FiniteSets

CONSTANTS FailLimit,      \* BL_FAIL_LIMIT
          CountMax,       \* UINT32_MAX
          MaxResets,      \* bound on the resets that software does not cause
          MaxKvErrors     \* bound on the FlashDB operations that fail

ASSUME BootAssumption ==
  /\ FailLimit \in Nat \ {0} /\ CountMax \in Nat /\ FailLimit <= CountMax
  /\ MaxResets \in Nat /\ MaxKvErrors \in Nat

Causes == {"wdog", "soft", "pin", "power"}
Steps == {"reset", "clear", "init", "count", "force", "stay", "clear_force", "valid"}

VARIABLES
  flags,             \* PPOR reset flags: a set of causes
  fail_count,        \* bl.fail_count, 0 when absent
  force,             \* bl.force_bootloader, 0 when absent
  pc,                \* a step of main, "app" or "uf2"
  reset_flags,       \* main's local, until its last use
  resets, kv_errors, \* how many there have been; software resets not counted
  lost,              \* writes that failed without a word, of those, since crashes was 0
  crashes,           \* watchdog resets out of the application in a row
  hits,              \* watchdog resets since a boot after another reset
  served             \* a forced session began and no watchdog reset followed

bl_vars == <<flags, fail_count, force, pc, reset_flags, resets, kv_errors, lost,
             crashes, hits, served>>
errors == <<kv_errors, lost>>
ghosts == <<crashes, hits, served>>
keys == <<fail_count, force>>

-----------------------------------------------------------------------------
(* set_u32: the value is stored; or FlashDB reports an error, before or     *)
(* after it stored the value; or it reports none and has not stored it.     *)
Outcomes == {"stored", "error", "lost"}
Ok(out) == out # "error"

Stored(old, new, out) == CASE out = "stored" -> {new}
                           [] out = "error" -> {old, new}
                           [] out = "lost" -> {old, 0}

Try(out) == /\ out # "stored" => kv_errors < MaxKvErrors
            /\ kv_errors' = IF out = "stored" THEN kv_errors ELSE kv_errors + 1
            /\ lost' = IF out = "lost" THEN lost + 1 ELSE lost

read_reset_flags ==
  /\ pc = "reset"
  /\ reset_flags' = flags
  /\ pc' = "clear"
  /\ UNCHANGED <<flags, keys, resets, errors, ghosts>>

clear_reset_flags ==
  /\ pc = "clear"
  /\ flags' = flags \ reset_flags
  /\ pc' = "init"
  /\ UNCHANGED <<keys, reset_flags, resets, errors, ghosts>>

bl_state_init(out) ==
  /\ pc = "init" /\ Try(out) /\ out # "lost"
  /\ pc' = IF Ok(out) THEN "count" ELSE "uf2"
  /\ reset_flags' = IF Ok(out) THEN reset_flags ELSE {}
  /\ UNCHANGED <<flags, keys, resets, ghosts>>

(* The new value of bl.fail_count: consecutive watchdog resets, saturating. *)
next_fail_count_no_zero ==
  IF "wdog" \in reset_flags /\ fail_count < CountMax THEN fail_count + 1 ELSE fail_count

next_fail_count_wraps == IF "wdog" \in reset_flags THEN fail_count + 1 ELSE 0

next_fail_count ==
  IF "wdog" \in reset_flags
  THEN IF fail_count < CountMax THEN fail_count + 1 ELSE fail_count
  ELSE 0

(* bl_state_update_for_reset: the count, then the flag if the count, which  *)
(* main still has, is at the limit.  An error leaves state_ok false and     *)
(* main stays in UF2 mode.                                                  *)
update_fail_count_above(out) ==
  /\ pc = "count" /\ Try(out)
  /\ fail_count' \in Stored(fail_count, next_fail_count, out)
  /\ hits' = IF out = "stored" /\ "wdog" \notin reset_flags THEN 0 ELSE hits
  /\ pc' = IF ~Ok(out) THEN "uf2" ELSE IF next_fail_count > FailLimit THEN "force" ELSE "stay"
  /\ reset_flags' = {}
  /\ UNCHANGED <<flags, force, resets, crashes, served>>

update_fail_count(out) ==
  /\ pc = "count" /\ Try(out)
  /\ fail_count' \in Stored(fail_count, next_fail_count, out)
  /\ hits' = IF out = "stored" /\ "wdog" \notin reset_flags THEN 0 ELSE hits
  /\ pc' = IF ~Ok(out) THEN "uf2" ELSE IF next_fail_count >= FailLimit THEN "force" ELSE "stay"
  /\ reset_flags' = {}
  /\ UNCHANGED <<flags, force, resets, crashes, served>>

update_force(out) ==
  /\ pc = "force" /\ Try(out)
  /\ force' \in Stored(force, 1, out)
  /\ pc' = IF Ok(out) THEN "stay" ELSE "uf2"
  /\ UNCHANGED <<flags, fail_count, reset_flags, resets, ghosts>>

(* bl_state_should_stay: the flag is read, and cleared if it was set; the   *)
(* error of clearing it is ignored.                                         *)
should_stay_read ==
  /\ pc = "stay"
  /\ pc' = IF force # 0 THEN "clear_force" ELSE "valid"
  /\ UNCHANGED <<flags, keys, reset_flags, resets, errors, ghosts>>

should_stay_keep(out) ==
  /\ pc = "clear_force" /\ Try(out)
  /\ pc' = "uf2"
  /\ served' = TRUE
  /\ UNCHANGED <<flags, keys, reset_flags, resets, crashes, hits>>

should_stay_clear(out) ==
  /\ pc = "clear_force" /\ Try(out)
  /\ force' \in Stored(force, 0, out)
  /\ pc' = "uf2"
  /\ served' = TRUE
  /\ UNCHANGED <<flags, fail_count, reset_flags, resets, crashes, hits>>

(* app_valid, and the jump of jump_to_app.                                  *)
choose_mode(valid) ==
  /\ pc = "valid"
  /\ pc' = IF valid THEN "app" ELSE "uf2"
  /\ UNCHANGED <<flags, keys, reset_flags, resets, errors, ghosts>>

bl_steps ==
  \/ read_reset_flags \/ clear_reset_flags
  \/ (\E out \in Outcomes : \/ bl_state_init(out) \/ update_fail_count(out)
                            \/ update_force(out) \/ should_stay_clear(out))
  \/ should_stay_read

(* A reset: the watchdog's (enabled before the flags are read), a power     *)
(* cycle, the reset pin, or the software's own out of the application or at *)
(* the end of an upgrade.                                                   *)
chip_reset(cause) ==
  /\ cause = "soft" \/ resets < MaxResets
  /\ cause = "wdog" => pc # "reset"
  /\ cause = "soft" => pc \in {"app", "uf2"}
  /\ flags' = IF cause = "power" THEN {cause} ELSE flags \cup {cause}
  /\ pc' = "reset" /\ reset_flags' = {}
  /\ resets' = IF cause = "soft" THEN resets ELSE resets + 1
  /\ crashes' = IF cause # "wdog" THEN 0 ELSE IF pc = "app" THEN crashes + 1 ELSE crashes
  /\ hits' = IF cause = "wdog" THEN hits + 1 ELSE hits
  /\ served' = (served /\ cause # "wdog")
  /\ lost' = IF cause = "wdog" THEN lost ELSE 0
  /\ UNCHANGED <<keys, kv_errors>>

BlInit ==
  /\ flags = {"power"} /\ fail_count = 0 /\ force = 0
  /\ pc = "reset" /\ reset_flags = {}
  /\ resets = 0 /\ kv_errors = 0 /\ lost = 0
  /\ crashes = 0 /\ hits = 0 /\ served = FALSE

BlNext ==
  \/ bl_steps
  \/ \E valid \in BOOLEAN : choose_mode(valid)
  \/ \E cause \in Causes : chip_reset(cause)

BlSpec == BlInit /\ [][BlNext]_bl_vars

-----------------------------------------------------------------------------
(* Every variable has its type; the stored count saturates at CountMax.      *)
BlTypeOK ==
  /\ flags \in SUBSET Causes /\ reset_flags \in SUBSET Causes
  /\ fail_count \in 0 .. CountMax /\ force \in 0 .. 1
  /\ pc \in Steps \cup {"app", "uf2"}
  /\ resets \in 0 .. MaxResets /\ kv_errors \in 0 .. MaxKvErrors /\ lost \in 0 .. kv_errors
  /\ crashes \in 0 .. MaxResets /\ hits \in 0 .. MaxResets
  /\ served \in BOOLEAN

(* An application that hung FailLimit times in a row is not started again,   *)
(* wherever in the boot further watchdog resets strike and whichever write   *)
(* of FlashDB reports an error; a write that fails without a word puts this  *)
(* off by no more than FailLimit crashes.                                    *)
CrashLoopStops == pc = "app" => crashes < FailLimit * (lost + 1)

(* "five consecutive WDG resets force UF2 mode", as bootloader/README.md     *)
(* says: without the allowance for the errors that the FAL port keeps to     *)
(* itself, although it promises an "error code".                             *)
FiveResetsForceUf2 == pc = "app" => crashes < FailLimit

(* The flag is set only after FailLimit watchdog resets since the last boot  *)
(* that recorded another cause: no reset is counted twice, although its flag *)
(* is read and cleared before the count is stored, and no failed write makes *)
(* the count larger.                                                         *)
NoFalseForce == [][force = 0 /\ force' = 1 => hits >= FailLimit]_bl_vars

(* bl.force_bootloader is one-shot: after a session it forced, another is    *)
(* forced only if a watchdog reset came in between, or a write of FlashDB    *)
(* failed: the one that clears the flag is not checked.                      *)
ForceIsOneShot ==
  [][pc = "clear_force" /\ pc' = "uf2" => ~served \/ kv_errors > 0]_bl_vars
=============================================================================
