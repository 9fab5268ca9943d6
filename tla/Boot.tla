-------------------------------- MODULE Boot --------------------------------
(***************************************************************************)
(* The bootloader as a whole: the boot decision (BootState) and the UF2    *)
(* mode it may end in, i.e. the block bookkeeping and sector cache of      *)
(* bootloader/bootuf2/bootuf2.c, the flash access of msc_bootuf2.c through *)
(* the FAL port (FalPort), and the polling loop of main.c.                 *)
(*                                                                         *)
(* The mass-storage callbacks run in the USB interrupt, so a sector write  *)
(* or an enumeration is one step; main's flush in bootuf2_is_write_done    *)
(* is interrupted between any two of its steps.  A reset loses the RAM and *)
(* keeps the flash.                                                        *)
(*                                                                         *)
(* Addresses count UF2 payloads of 256 bytes from the start of the app     *)
(* partition; block b of a file is packed for address b (uf2_pack.py).  A  *)
(* page holds a file's data, is blank, or is bad: programmed over other    *)
(* data.  Sectors that are not UF2 blocks of this family change nothing    *)
(* and are not steps.  A file may be of any length: blocks past the        *)
(* partition are refused by FAL, and bits past the end of STATE->Mask,     *)
(* which the test against block_max admits, are members of mask too.  What *)
(* lies behind the mask depends on the link: here the sector cache, or     *)
(* memory that nothing else uses.                                          *)
(*                                                                         *)
(* External: the computer copies a file in order and may repeat blocks.    *)
(* What upsets a download is recorded in disturbed: a flash error, blocks  *)
(* out of order, an enumeration with blocks in the cache, another file,    *)
(* and the bounds of the partition or of the mask exceeded.                *)
(***************************************************************************)
EXTENDS BootState, FalPort

CONSTANTS Images,         \* the files: application images
          Length,         \* [Images -> their NumberOfBlock]
          Pages,          \* payloads the app partition holds
          BlocksMax,      \* BOOTUF2_BLOCKSMAX
          MaskBits,       \* bits in bootuf2_mask
          BlockMax,       \* CONFIG_BOOTUF2_FLASHMAX, in bytes, passed as block_max
          CacheBlocks,    \* CONFIG_BOOTUF2_CACHE_SIZE / 256
          SectorBlocks, EraseBlocks,   \* flash sector and block / 256
          MaxSkip,        \* bound on the blocks the computer skips at once
          MaxDisturbances \* bound on the disturbances of a session; "bounds" may exceed it

ASSUME Uf2Assumption ==
  /\ Images # {} /\ Pages \in Nat \ {0}
  /\ Length \in [Images -> Nat \ {0}]
  /\ {BlocksMax, MaskBits, BlockMax} \subseteq Nat
  /\ 0 < BlocksMax /\ BlocksMax < MaskBits /\ MaskBits <= BlockMax
  /\ {CacheBlocks, SectorBlocks, EraseBlocks} \subseteq Nat \ {0}
  /\ CacheBlocks % SectorBlocks = 0 /\ EraseBlocks % SectorBlocks = 0
  /\ MaxSkip \in Nat /\ MaxDisturbances \in Nat

Page == 0 .. Pages - 1
Blank == "blank"
Bad == "bad"
Never == -1                 \* 0xffffffff in STATE->NumberOfBlock
FirstFile == CHOOSE f \in Images : TRUE     \* until copy_file names one
Kinds == {"order", "flash", "enumerated", "other file", "bounds"}

VARIABLES
  flash,              \* [Page -> Images or Blank or Bad]
  number_of_block, number_of_written, mask,   \* STATE
  counted,            \* the NumberOfBlock of the blocks it counts
  cache, cached_bytes, cached_address,        \* the sector cache, in payloads
  main_pc, flushing,  \* main inside bootuf2_is_write_done; its flush's range
  configured,         \* the computer has enumerated the disk
  file, next,         \* what the computer copies, and its next block
  disturbed,          \* what upset this session
  touched, torn       \* this session flashed; an upset session flashed last

state_vars == <<number_of_block, number_of_written, mask, counted>>
cache_vars == <<cache, cached_bytes, cached_address>>
main_vars == <<main_pc, flushing>>
host_vars == <<configured, file, next, disturbed>>
ghost_vars == <<touched, torn>>
uf2_vars == <<flash, state_vars, cache_vars, main_vars, host_vars, ghost_vars>>
vars == <<bl_vars, uf2_vars>>

-----------------------------------------------------------------------------
(* bootuf2_flash_write: erase, then program; done counts the pages          *)
(* programmed before an error, -1 if the erase itself failed, as it does    *)
(* for a range that leaves the partition.                                   *)
Fits(at, n) == at + n <= Pages

Erased(f, at, n) ==
  LET gone == erase(at, n, SectorBlocks, EraseBlocks)
  IN [p \in Page |-> IF p \in gone THEN Blank ELSE f[p]]

Programmed(f, at, data, done) ==
  [p \in Page |->
     IF p \notin at .. at + done - 1 THEN f[p]
     ELSE IF f[p] \in {Blank, data[p - at + 1]} THEN data[p - at + 1] ELSE Bad]

bootuf2_flash_write(at, n, done) ==
  /\ Fits(at, n) \/ done = -1
  /\ flash' = IF done = -1 THEN flash ELSE Programmed(Erased(flash, at, n), at, cache, done)

-----------------------------------------------------------------------------
(* bootuf2block_check_writable and _state_check.  The first indexes the     *)
(* mask under a test against block_max, which is not its size.              *)
check_writable(b) == Length[file] # 0 /\ b < BlockMax /\ b \notin mask

state_check_more == number_of_written > number_of_block /\ number_of_block \notin {0, Never}

state_check == number_of_written >= number_of_block /\ number_of_block \notin {0, Never}

(* bootuf2block_state_update.                                               *)
Count(b) ==
  /\ IF b < BlockMax /\ b \notin mask
     THEN mask' = mask \cup {b} /\ number_of_written' = number_of_written + 1
     ELSE UNCHANGED <<mask, number_of_written>>
  /\ counted' = counted \cup {Length[file]}

state_update_mixes(b) ==
  /\ number_of_block' = IF Length[file] >= BlocksMax THEN Never ELSE Length[file]
  /\ Count(b)

state_update(b) ==
  /\ number_of_block' =
       IF number_of_block = Length[file] THEN number_of_block
       ELSE IF Length[file] >= BlocksMax \/ number_of_block # 0 THEN Never
       ELSE Length[file]
  /\ Count(b)

(* What the cache may hold once the bit of b is set: a bit behind the mask  *)
(* may be one of the cache's.                                               *)
Spoilt(b, c) == IF b < MaskBits THEN {c} ELSE {c, [c EXCEPT ![1] = Bad]}

(* bootuf2_flash_write_internal: a full cache, or one that b does not       *)
(* continue, is flushed first; if that fails, b is not cached.              *)
needs_flush(b) ==
  \/ cached_bytes # 0 /\ cached_address + cached_bytes # b
  \/ cached_bytes = CacheBlocks

Put_at_block(b, n) == /\ cache' \in Spoilt(b, [cache EXCEPT ![n + 1] = file])
                      /\ cached_address' = b
                      /\ cached_bytes' = n + 1

Put(b, n) == /\ cache' \in Spoilt(b, [cache EXCEPT ![n + 1] = file])
             /\ cached_address' = b - n
             /\ cached_bytes' = n + 1

flash_write_internal(b, done) ==
  IF needs_flush(b)
  THEN /\ bootuf2_flash_write(cached_address, cached_bytes, done)
       /\ touched' = TRUE
       /\ IF done = cached_bytes THEN Put(b, 0)
          ELSE cache' \in Spoilt(b, cache) /\ UNCHANGED <<cached_bytes, cached_address>>
  ELSE done = cached_bytes /\ Put(b, cached_bytes) /\ UNCHANGED <<flash, touched>>

Disturb(what) ==
  /\ what \subseteq {"bounds"} \/ Cardinality(disturbed) < MaxDisturbances
  /\ disturbed' = disturbed \cup what

(* bootuf2_write_sector for block b of the file: the outcome of the flash   *)
(* write is ignored and the block counted as written.  A bit behind the     *)
(* mask may be set before it is first looked at.                            *)
Refused(b) == needs_flush(b) /\ ~Fits(cached_address, cached_bytes)

write_block(b, done) ==
  /\ check_writable(b)
  /\ flash_write_internal(b, done) /\ state_update(b)
  /\ Disturb((IF b > next THEN {"order"} ELSE {})
             \cup (IF done # cached_bytes /\ ~Refused(b) THEN {"flash"} ELSE {})
             \cup (IF Refused(b) \/ b >= MaskBits THEN {"bounds"} ELSE {}))

ignore_block(b, done) ==
  /\ ~check_writable(b) \/ b >= MaskBits
  /\ done = cached_bytes
  /\ Disturb((IF b > next THEN {"order"} ELSE {})
             \cup (IF b >= MaskBits THEN {"bounds"} ELSE {}))
  /\ UNCHANGED <<flash, state_vars, cache_vars, touched>>

write_sector(b, done) ==
  /\ pc = "uf2" /\ configured
  /\ b \in 0 .. Length[file] - 1 /\ b <= next + MaxSkip /\ done <= cached_bytes
  /\ write_block(b, done) \/ ignore_block(b, done)
  /\ next' = IF b = next THEN next + 1 ELSE next
  /\ UNCHANGED <<bl_vars, main_vars, configured, file, torn>>

(* USBD_EVENT_CONFIGURED: bootuf2_init empties the cache, whatever is in it. *)
bootuf2_init ==
  /\ pc = "uf2"
  /\ configured' = TRUE
  /\ cached_bytes' = 0 /\ cached_address' = 0
  /\ Disturb(IF cached_bytes # 0 THEN {"enumerated"} ELSE {})
  /\ UNCHANGED <<bl_vars, flash, state_vars, cache, main_vars, file, next, ghost_vars>>

(* The computer begins to copy a file, the same again or another one.       *)
copy_file(f) ==
  /\ pc = "uf2" /\ configured
  /\ file' = f /\ next' = 0
  /\ Disturb(IF f # file /\ mask # {} THEN {"other file"} ELSE {})
  /\ UNCHANGED <<bl_vars, flash, state_vars, cache_vars, main_vars, configured, ghost_vars>>

-----------------------------------------------------------------------------
(* bootuf2_is_write_done in main's loop, once a second.                     *)
InUf2(step) == pc = "uf2" /\ main_pc = step

is_write_done_check_no_flush ==
  /\ InUf2("poll") /\ state_check
  /\ main_pc' = "reset"
  /\ UNCHANGED <<bl_vars, flash, state_vars, cache_vars, flushing, host_vars, ghost_vars>>

is_write_done_check ==
  /\ InUf2("poll") /\ state_check
  /\ main_pc' = IF cached_bytes = 0 THEN "reset" ELSE "erase"
  /\ flushing' = [at |-> cached_address, n |-> cached_bytes]
  /\ UNCHANGED <<bl_vars, flash, state_vars, cache_vars, host_vars, ghost_vars>>

flash_flush_erase(ok) ==
  /\ InUf2("erase") /\ (ok => Fits(flushing.at, flushing.n))
  /\ flash' = IF ok THEN Erased(flash, flushing.at, flushing.n) ELSE flash
  /\ main_pc' = IF ok THEN "program" ELSE "reset"
  /\ touched' = TRUE
  /\ Disturb(IF ok THEN {} ELSE IF Fits(flushing.at, flushing.n) THEN {"flash"}
             ELSE {"bounds"})
  /\ UNCHANGED <<bl_vars, state_vars, cache_vars, flushing, configured, file, next, torn>>

flash_flush_program(done) ==
  /\ InUf2("program") /\ done \in 0 .. flushing.n
  /\ flash' = Programmed(flash, flushing.at, cache, done)
  /\ main_pc' = IF done = flushing.n THEN "empty" ELSE "reset"
  /\ Disturb(IF done = flushing.n THEN {} ELSE {"flash"})
  /\ UNCHANGED <<bl_vars, state_vars, cache_vars, flushing, configured, file, next, ghost_vars>>

flash_flush_empty ==
  /\ InUf2("empty")
  /\ cached_bytes' = 0
  /\ main_pc' = "reset"
  /\ UNCHANGED <<bl_vars, flash, state_vars, cache, cached_address, flushing, host_vars,
                 ghost_vars>>

-----------------------------------------------------------------------------
(* The RAM after a reset.                                                   *)
Ram ==
  /\ number_of_block' = 0 /\ number_of_written' = 0 /\ mask' = {} /\ counted' = {}
  /\ cache' = [n \in 1 .. CacheBlocks |-> Blank]
  /\ cached_bytes' = 0 /\ cached_address' = 0
  /\ main_pc' = "poll" /\ flushing' = [at |-> 0, n |-> 0]
  /\ configured' = FALSE /\ file' = FirstFile /\ next' = 0 /\ disturbed' = {}
  /\ touched' = FALSE
  /\ UNCHANGED flash

(* The software reset of main.c, and every other one.                       *)
upgrade_reset ==
  /\ InUf2("reset") /\ chip_reset("soft") /\ Ram
  /\ torn' = (disturbed # {})

other_reset(cause) ==
  /\ pc = "uf2" => cause # "soft"
  /\ chip_reset(cause) /\ Ram
  /\ torn' = (torn \/ touched)

(* app_valid compares one word, which every image has at this place.        *)
app_valid == flash[0] # Blank

boot == /\ bl_steps \/ choose_mode(app_valid)
        /\ UNCHANGED uf2_vars

usb == \/ (\E b \in 0 .. Length[file] - 1, done \in -1 .. CacheBlocks : write_sector(b, done))
       \/ bootuf2_init
       \/ (\E f \in Images : copy_file(f))

main == \/ is_write_done_check
        \/ (\E ok \in BOOLEAN : flash_flush_erase(ok))
        \/ (\E done \in 0 .. CacheBlocks : flash_flush_program(done))
        \/ flash_flush_empty
        \/ upgrade_reset

Init ==
  /\ BlInit
  /\ \/ flash = [p \in Page |-> Blank]
     \/ \E f \in Images :
          Length[f] <= Pages /\ flash = [p \in Page |-> IF p < Length[f] THEN f ELSE Blank]
  /\ number_of_block = 0 /\ number_of_written = 0 /\ mask = {} /\ counted = {}
  /\ cache = [n \in 1 .. CacheBlocks |-> Blank]
  /\ cached_bytes = 0 /\ cached_address = 0
  /\ main_pc = "poll" /\ flushing = [at |-> 0, n |-> 0]
  /\ configured = FALSE /\ file = FirstFile /\ next = 0 /\ disturbed = {}
  /\ touched = FALSE /\ torn = FALSE

Next == boot \/ usb \/ main \/ (\E cause \in Causes : other_reset(cause))

Spec == Init /\ [][Next]_vars

(* main runs whenever no interrupt does.                                    *)
FairSpec == Spec /\ WF_vars(boot) /\ WF_vars(main)

-----------------------------------------------------------------------------
(* Every variable has its type: the cache holds at most CacheBlocks, and no  *)
(* block from block_max on is counted.                                       *)
TypeOK ==
  /\ BlTypeOK
  /\ flash \in [Page -> Images \cup {Blank, Bad}]
  /\ number_of_block \in (0 .. BlocksMax - 1) \cup {Never}
  /\ mask \in SUBSET (0 .. BlockMax - 1) /\ number_of_written \in 0 .. BlockMax
  /\ counted \in SUBSET (Nat \ {0})
  /\ cache \in [1 .. CacheBlocks -> Images \cup {Blank, Bad}]
  /\ cached_bytes \in 0 .. CacheBlocks /\ cached_address \in 0 .. BlockMax - 1
  /\ main_pc \in {"poll", "erase", "program", "empty", "reset"}
  /\ flushing \in [at : 0 .. BlockMax - 1, n : 0 .. CacheBlocks]
  /\ {configured, touched, torn} \subseteq BOOLEAN
  /\ file \in Images /\ next \in Nat /\ disturbed \subseteq Kinds

Cached(b) == b \in cached_address .. cached_address + cached_bytes - 1
Whole(f) == Length[f] <= Pages /\ \A p \in 0 .. Length[f] - 1 : flash[p] = f

(* A block that the bitmap counts as written is in flash, or in the cache    *)
(* that a later flush writes, in every session that nothing upset, although  *)
(* each flush erases whole sectors and blocks are repeated.                  *)
StoredOrCached ==
  pc = "uf2" /\ disturbed = {} /\ main_pc = "poll" =>
    \A b \in mask : \/ ~Cached(b) /\ b \in Page /\ flash[b] = file
                    \/ Cached(b) /\ cache[b - cached_address + 1] = file

(* The application that is started is one whole image, unless a session was  *)
(* interrupted or upset after it began to flash: the software reset comes    *)
(* only after the last, partial, flush.                                      *)
AppIsWhole == pc = "app" /\ ~torn => \E f \in Images : Whole(f)

(* The board resets itself only when every block of the files it counted has *)
(* been accepted once, and these agree on a number of blocks below           *)
(* BOOTUF2_BLOCKSMAX: a second number, or a larger one, "will cause never    *)
(* auto reboot", so that neither two files in one session nor a file that    *)
(* runs past the mask ends in a reset.                                       *)
ResetsOnlyWhenComplete ==
  [][main_pc = "poll" /\ main_pc' # "poll" =>
       \E n \in counted : counted = {n} /\ n < BlocksMax /\ mask = 0 .. n - 1]_vars

(* When every block of a file of fewer than BOOTUF2_BLOCKSMAX blocks has     *)
(* been written, nothing upset the session and no fault follows, the board   *)
(* resets itself and runs the application.  (bootloader/README.md and        *)
(* jump_to_app's comment call the jump disabled by default; main.c has no    *)
(* such switch.)                                                             *)
UpgradeBoots ==
  (/\ pc = "uf2" /\ disturbed = {} /\ mask = 0 .. Length[file] - 1
   /\ Length[file] < BlocksMax
   /\ resets = MaxResets /\ kv_errors = MaxKvErrors /\ force = 0)
    ~> (pc = "app" \/ disturbed # {})

(* The FAL port over bounded inputs, aligned or not.  erase clears whole     *)
(* sectors, as many as the size needs, from the one that holds the offset,   *)
(* block erases included: all that the range touches, unless it ends in a    *)
(* sector more than that.  write programs every byte of the range once, in   *)
(* order, and no ROM call crosses a page; it reports success although a call *)
(* failed exactly if that was the first and the range starts inside a page.  *)
PortAgrees ==
  \A o \in 0 .. 9, n \in 1 .. 9 :
    LET calls == program_calls(o, n, 4, 4)
        cleared == erase(o, n, 2, 4)
    IN /\ cleared = {a \in 0 .. 20 : a \div 2 \in o \div 2 .. o \div 2 + (n + 1) \div 2 - 1}
       /\ o .. o + n - 1 \subseteq cleared <=> o % 2 = 0 \/ n % 2 = 1
       /\ calls[1].at = o
       /\ calls[Len(calls)].at + calls[Len(calls)].size = o + n
       /\ \A k \in 1 .. Len(calls) :
            /\ calls[k].at \div 4 = (calls[k].at + calls[k].size - 1) \div 4
            /\ k > 1 => calls[k].at = calls[k - 1].at + calls[k - 1].size
       /\ \A failed \in (SUBSET (1 .. Len(calls))) \ {{}} :
            write_result(o, n, 4, failed) = n <=> failed = {1} /\ o % 4 # 0

(* The flash that the port leaves is the one a caller expects: when main     *)
(* flushes the cache of a session that nothing upset, the erase, which does  *)
(* not align its offset, blanks every page that is then programmed and no    *)
(* sector beside them.  Over other ranges the port does what PortAgrees      *)
(* says, which is not always what "actual size of written data or error      *)
(* code" promises.                                                           *)
FlashPortMatchesReference ==
  /\ InUf2("erase") /\ disturbed = {} =>
       Erased(flash, flushing.at, flushing.n) =
         [p \in Page |->
            IF \E x \in flushing.at .. flushing.at + flushing.n - 1 :
                 x \div SectorBlocks = p \div SectorBlocks
            THEN Blank ELSE flash[p]]
  /\ PortAgrees
=============================================================================
