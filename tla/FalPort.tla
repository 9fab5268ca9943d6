------------------------------ MODULE FalPort ------------------------------
(***************************************************************************)
(* The FAL flash port (bootloader/port/fal/fal_flash_port.c; the           *)
(* application's board/fal_flash_port.c is the same algorithm): how erase  *)
(* and write cut a request into calls of the ROM API, as functions of the  *)
(* offset, the size and the geometry of the chip.  Offsets and sizes count *)
(* bytes, or any unit of which the geometry's numbers are multiples.       *)
(*                                                                         *)
(* External: the ROM erases the whole sector or block that holds the       *)
(* address it is given, and programs within one page only.                 *)
(***************************************************************************)
EXTENDS Integers, Sequences

(* erase: the size, and only the size, is rounded up to whole sectors.      *)
aligned_size(size, sector) == ((size + sector - 1) \div sector) * sector

(* The loop of erase: a block where one fits, else a sector; the set of     *)
(* addresses that the ROM calls leave erased.  What is left is a whole      *)
(* number of sectors, as a block is, and is counted in them.                *)
erase(offset, size, sector, block) ==
  LET sectors == aligned_size(size, sector) \div sector
      loop[left \in Nat] ==
        IF left = 0 THEN {}
        ELSE LET at == offset + (sectors - left) * sector
                 unit == IF at % block = 0 /\ left * sector >= block THEN block ELSE sector
                 first == (at \div unit) * unit
             IN (first .. first + unit - 1) \cup loop[left - unit \div sector]
  IN loop[sectors]

(* write: the ROM program calls, in order, as [at, size] records: the rest  *)
(* of the first page if the offset is inside one, then chunks of buf_32.    *)
head_size_none(offset, size, page) == 0

head_size(offset, size, page) ==
  IF offset % page = 0 THEN 0
  ELSE IF page - (offset % page) < size THEN page - (offset % page) ELSE size

program_calls(offset, size, page, chunk) ==
  LET end == offset + size
      loop[left \in Nat] ==
        IF left = 0 THEN <<>>
        ELSE LET n == IF left < chunk THEN left ELSE chunk
             IN <<[at |-> end - left, size |-> n]>> \o loop[left - n]
      head == head_size(offset, size, page)
  IN (IF head = 0 THEN <<>> ELSE <<[at |-> offset, size |-> head]>>) \o loop[size - head]

(* What write returns when the calls at these positions of program_calls    *)
(* fail.  write_size is unsigned, so that the head's -1 is not seen.        *)
write_result(offset, size, page, failed) ==
  LET seen == IF head_size(offset, size, page) = 0 THEN failed ELSE failed \ {1}
  IN IF seen = {} THEN size ELSE -1
=============================================================================
