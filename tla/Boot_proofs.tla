----------------------------- MODULE Boot_proofs -----------------------------
(***************************************************************************)
(* Proofs about the bootloader, for every image, partition, cache and      *)
(* flash geometry.                                                         *)
(*                                                                         *)
(* First what BootState_proofs shows is carried over.  Then the FAL port:  *)
(* what the loops of erase and write do to a range.  Then the download, in *)
(* four layers: the types; Complete, what the block count means whatever   *)
(* is downloaded; Undisturbed, where every block of a session that nothing *)
(* upset is; and Flashed, what the flash holds between sessions.           *)
(***************************************************************************)
EXTENDS Boot, BootState_proofs, FiniteSetTheorems, SequenceTheorems,
        WellFoundedInduction

LEMMA UsbLeavesState == usb => UNCHANGED bl_vars
<1>1. ASSUME NEW b, NEW done, write_sector(b, done) PROVE UNCHANGED bl_vars
  BY <1>1 DEF write_sector
<1>2. ASSUME bootuf2_init PROVE UNCHANGED bl_vars
  BY <1>2 DEF bootuf2_init
<1>3. ASSUME NEW f \in Images, copy_file(f) PROVE UNCHANGED bl_vars
  BY <1>3 DEF copy_file
<1> QED BY <1>1, <1>2, <1>3 DEF usb

LEMMA MainIsBootStep == main => [BlNext]_bl_vars
<1>1. ASSUME is_write_done_check PROVE UNCHANGED bl_vars
  BY <1>1 DEF is_write_done_check
<1>2. ASSUME NEW ok \in BOOLEAN, flash_flush_erase(ok) PROVE UNCHANGED bl_vars
  BY <1>2 DEF flash_flush_erase
<1>3. ASSUME NEW done \in 0 .. CacheBlocks, flash_flush_program(done) PROVE UNCHANGED bl_vars
  BY <1>3 DEF flash_flush_program
<1>4. ASSUME flash_flush_empty PROVE UNCHANGED bl_vars
  BY <1>4 DEF flash_flush_empty
<1>5. ASSUME upgrade_reset PROVE BlNext
  BY <1>5 DEF upgrade_reset, BlNext, Causes
<1> QED BY <1>1, <1>2, <1>3, <1>4, <1>5 DEF main

LEMMA StepIsBootStep == [Next]_vars => [BlNext]_bl_vars
<1>1. ASSUME boot PROVE BlNext
  <2>1. app_valid \in BOOLEAN
    BY DEF app_valid
  <2> QED BY <1>1, <2>1 DEF boot, BlNext
<1>2. ASSUME NEW cause \in Causes, other_reset(cause) PROVE BlNext
  BY <1>2 DEF other_reset, BlNext
<1>3. ASSUME UNCHANGED vars PROVE UNCHANGED bl_vars
  BY <1>3 DEF vars
<1> QED BY <1>1, <1>2, <1>3, UsbLeavesState, MainIsBootStep DEF Next

LEMMA BootRefines == Spec => BlSpec
<1>1. Init => BlInit
  BY DEF Init
<1> QED BY <1>1, StepIsBootStep, PTL DEF Spec, BlSpec

(* An application that hung FailLimit times in a row is not started again by *)
(* the whole bootloader, whatever is flashed in between and whichever write  *)
(* of the keys reports an error; each write whose failure the FAL port keeps *)
(* to itself puts this off by at most FailLimit crashes.                     *)
THEOREM BootStopsCrashLoops == Spec => []CrashLoopStops
  BY BootRefines, CrashLoopsStop, PTL

-----------------------------------------------------------------------------
(* The FAL port.                                                            *)

(* A recursion that adds C[n] and goes on at a smaller number has a solution. *)
LEMMA UnionRecursion ==
  ASSUME NEW C \in [Nat -> SUBSET Int], NEW J \in [Nat -> Nat],
         \A n \in Nat \ {0} : J[n] \in 1 .. n
  PROVE  \E f : f = [n \in Nat |-> IF n = 0 THEN {} ELSE C[n] \cup f[n - J[n]]]
<1> DEFINE Closed(h) == \A n \in Nat \ {0} : C[n] \cup h[n - J[n]] \subseteq h[n]
           H == {h \in [Nat -> SUBSET Int] : Closed(h)}
           f == [n \in Nat |-> {x \in Int : \A h \in H : x \in h[n]}]
           g == [n \in Nat |-> IF n = 0 THEN {} ELSE C[n] \cup f[n - J[n]]]
<1>1. \A n \in Nat \ {0} : n - J[n] \in Nat /\ C[n] \in SUBSET Int
  OBVIOUS
<1>2. f \in [Nat -> SUBSET Int]
  OBVIOUS
<1>3. g \in [Nat -> SUBSET Int]
  BY <1>1, <1>2
<1>4. \A n \in Nat : g[n] \subseteq f[n]
  <2> SUFFICES ASSUME NEW n \in Nat \ {0}, NEW x \in C[n] \cup f[n - J[n]]
               PROVE  x \in f[n]
    OBVIOUS
  <2>1. x \in Int
    BY <1>1, <1>2
  <2>2. ASSUME NEW h \in H PROVE x \in h[n]
    <3>1. C[n] \cup h[n - J[n]] \subseteq h[n]
      OBVIOUS
    <3>2. x \in C[n] \/ x \in h[n - J[n]]
      BY <1>1
    <3> QED
      BY <3>1, <3>2
  <2> QED
    BY <2>1, <2>2
<1>5. g \in H
  <2> SUFFICES ASSUME NEW n \in Nat \ {0}
               PROVE  C[n] \cup g[n - J[n]] \subseteq g[n]
    BY <1>3
  <2>1. g[n] = C[n] \cup f[n - J[n]]
    OBVIOUS
  <2>2. g[n - J[n]] \subseteq f[n - J[n]]
    BY <1>1, <1>4
  <2> HIDE DEF f, g
  <2> QED
    BY <2>1, <2>2
<1>6. \A n \in Nat : f[n] \subseteq g[n]
  BY <1>5
<1>7. f = g
  <2>1. \A n \in Nat : f[n] = g[n]
    BY <1>4, <1>6
  <2> HIDE DEF f, g
  <2> QED
    BY <1>2, <1>3, <2>1
<1> QED
  BY <1>7

(* Multiples.                                                                *)
LEMMA Quotient ==
  ASSUME NEW d \in Nat \ {0}, NEW x \in Int, x % d = 0
  PROVE  x \div d \in Int /\ x = (x \div d) * d
<1>1. x \div d \in Int
  OBVIOUS
<1>2. ASSUME NEW q \in Int, q = x \div d PROVE x = d * q + (x % d)
  BY <1>2
<1>3. x = d * (x \div d) + 0
  BY <1>1, <1>2
<1> QED
  BY <1>1, <1>3

LEMMA OfMultiple ==
  ASSUME NEW d \in Nat \ {0}, NEW q \in Int
  PROVE  (q * d) % d = 0 /\ (q * d) \div d = q
<1>1. q * d \in Int
  OBVIOUS
<1>2. (q * d) % d = 0
  OBVIOUS
<1>3. (q * d) \div d \in Int /\ q * d = ((q * d) \div d) * d
  BY <1>1, <1>2, Quotient
<1>4. ASSUME NEW p \in Int, q * d = p * d PROVE p = q
  BY <1>4
<1> QED
  BY <1>2, <1>3, <1>4

(* Which quotient it is.                                                     *)
LEMMA QuotientIs ==
  ASSUME NEW d \in Nat \ {0}, NEW x \in Int, NEW q \in Int, q * d <= x, x < q * d + d
  PROVE  x \div d = q
<1>1. PICK p \in Int : p = x \div d
  OBVIOUS
<1>2. p * d <= x /\ x < p * d + d
  BY <1>1
<1>3. p * d < (q + 1) * d /\ q * d < (p + 1) * d
  BY <1>2
<1>4. p < q + 1 /\ q < p + 1
  BY <1>3
<1> QED
  BY <1>1, <1>4

Multiple(x, d) == x % d = 0

LEMMA Divides ==
  ASSUME NEW chunk \in Nat \ {0}, NEW page \in Nat \ {0}, Multiple(page, chunk),
         NEW x \in Int, Multiple(x, page)
  PROVE  Multiple(x, chunk)
<1>1. PICK m \in Int : page = m * chunk
  <2>1. page \div chunk \in Int /\ page = (page \div chunk) * chunk
    BY Quotient DEF Multiple
  <2> QED
    BY <2>1
<1>2. PICK q \in Int : x = q * page
  <2>1. x \div page \in Int /\ x = (x \div page) * page
    BY Quotient DEF Multiple
  <2> QED
    BY <2>1
<1>3. PICK t \in Int : t = q * m /\ x = t * chunk
  BY <1>1, <1>2
<1> QED
  BY <1>3, OfMultiple DEF Multiple

(* The size is rounded up to whole sectors.                                  *)
LEMMA AlignedSize ==
  ASSUME NEW size \in Nat, NEW sector \in Nat \ {0}
  PROVE  LET n == aligned_size(size, sector)
         IN n \in Nat /\ size <= n /\ n % sector = 0
                /\ n \div sector \in Nat /\ n = (n \div sector) * sector
<1> DEFINE x == size + sector - 1
<1>1. x \in Nat
  OBVIOUS
<1>2. PICK q \in Nat : q = x \div sector
  OBVIOUS
<1>3. x < q * sector + sector
  BY <1>1, <1>2
<1>4. (q * sector) % sector = 0 /\ (q * sector) \div sector = q /\ q * sector \in Nat
  BY OfMultiple
<1>5. aligned_size(size, sector) = q * sector
  BY <1>2 DEF aligned_size
<1> QED
  BY <1>3, <1>4, <1>5

(* Where the loop of erase is when n of the sectors are left, and what it    *)
(* erases there.                                                             *)
EraseAt(offset, sectors, sector, n) == offset + (sectors - n) * sector

EraseUnit(at, left, sector, block) ==
  IF at % block = 0 /\ left >= block THEN block ELSE sector

(* What the loop has erased when it has gone through n sectors from the end. *)
ErasesBy(loop, offset, sectors, sector, block) ==
  /\ loop[0] = {}
  /\ \A n \in Nat \ {0} :
       LET at == EraseAt(offset, sectors, sector, n)
           unit == EraseUnit(at, n * sector, sector, block)
           first == (at \div unit) * unit
       IN loop[n] = (first .. first + unit - 1) \cup loop[n - unit \div sector]

(* The loop of erase, unfolded once.                                         *)
LEMMA EraseLoop ==
  ASSUME NEW offset \in Nat, NEW size \in Nat,
         NEW sector \in Nat \ {0}, NEW block \in Nat \ {0}, block % sector = 0
  PROVE  LET sectors == aligned_size(size, sector) \div sector
         IN \E loop : /\ erase(offset, size, sector, block) = loop[sectors]
                      /\ ErasesBy(loop, offset, sectors, sector, block)
<1> DEFINE sectors == aligned_size(size, sector) \div sector
           at(n) == offset + (sectors - n) * sector
           unit(n) == IF at(n) % block = 0 /\ n * sector >= block THEN block ELSE sector
           first(n) == (at(n) \div unit(n)) * unit(n)
           C == [n \in Nat |-> first(n) .. first(n) + unit(n) - 1]
           J == [n \in Nat |-> unit(n) \div sector]
           Solves(f) == f = [left \in Nat |->
                       IF left = 0 THEN {}
                       ELSE (first(left) .. first(left) + unit(left) - 1)
                              \cup f[left - unit(left) \div sector]]
           loop == CHOOSE g : Solves(g)
<1>1. block \div sector \in Nat \ {0} /\ sector \div sector = 1
  <2>1. block = (block \div sector) * sector /\ block \div sector \in Int
    BY Quotient
  <2>2. ASSUME NEW q \in Int, block = q * sector PROVE q \in Nat \ {0}
    BY <2>2
  <2>3. (1 * sector) \div sector = 1
    BY OfMultiple
  <2> QED
    BY <2>1, <2>2, <2>3
<1>2. erase(offset, size, sector, block) = loop[sectors]
  BY DEF erase
<1> HIDE DEF loop
<1>3. sectors \in Nat
  BY AlignedSize
<1> HIDE DEF sectors
<1>4. \A n \in Nat : at(n) \in Int /\ unit(n) \in {block, sector}
  <2>1. \A n \in Nat : at(n) \in Int
    BY <1>3
  <2> HIDE DEF at
  <2> QED
    BY <2>1
<1>5. \A n \in Nat \ {0} : unit(n) \div sector \in 1 .. n
  <2> SUFFICES ASSUME NEW n \in Nat \ {0}, n * sector >= block
               PROVE  block \div sector <= n
    BY <1>1
  <2>1. block = (block \div sector) * sector
    BY Quotient
  <2>2. ASSUME NEW q \in Nat, n * sector >= q * sector PROVE q <= n
    BY <2>2
  <2> QED
    BY <1>1, <2>1, <2>2
<1>6. \A n \in Nat : first(n) \in Int
  <2> SUFFICES ASSUME NEW n \in Nat PROVE first(n) \in Int
    OBVIOUS
  <2>1. ASSUME NEW x \in Int, NEW u \in Nat \ {0} PROVE (x \div u) * u \in Int
    OBVIOUS
  <2> HIDE DEF at, unit
  <2>2. at(n) \in Int /\ unit(n) \in Nat \ {0}
    BY <1>4
  <2> QED
    BY <2>1, <2>2
<1> HIDE DEF at, unit, first
<1>7. C \in [Nat -> SUBSET Int]
  BY <1>4, <1>6
<1>8. J \in [Nat -> Nat] /\ \A n \in Nat \ {0} : J[n] \in 1 .. n
  BY <1>1, <1>4, <1>5
<1>9. PICK f : f = [n \in Nat |-> IF n = 0 THEN {} ELSE C[n] \cup f[n - J[n]]]
  <2> HIDE DEF C, J
  <2> QED
    BY <1>7, <1>8, UnionRecursion
<1>10. Solves(f)
  BY <1>9
<1>11. Solves(loop)
  BY <1>10 DEF loop
<1>12. loop[0] = {} /\ \A n \in Nat \ {0} :
         loop[n] = (first(n) .. first(n) + unit(n) - 1) \cup loop[n - unit(n) \div sector]
  BY <1>11
<1>13. ErasesBy(loop, offset, sectors, sector, block)
  BY <1>12 DEF at, unit, first, EraseAt, EraseUnit, ErasesBy
<1> QED
  BY <1>2, <1>13 DEF sectors

(* Two intervals that meet.                                                  *)
LEMMA Joined ==
  ASSUME NEW a \in Int, NEW x \in Nat, NEW y \in Nat, x <= y
  PROVE  (a .. a + x - 1) \cup ((a + x) .. (a + x) + (y - x) - 1) = a .. a + y - 1
  OBVIOUS

LEMMA Least ==
  ASSUME NEW S \in SUBSET Nat, S # {}
  PROVE  \E n \in S : \A k \in S : n <= k
<1>1. PICK x \in S : \A y \in S : ~ (<<y, x>> \in OpToRel(<, Nat))
  BY NatLessThanWellFounded, WFMin, Zenon
<1>2. \A y \in S : ~(y < x)
  BY <1>1 DEF OpToRel
<1> QED
  BY <1>2

SectorStart(x, sector) == (x \div sector) * sector

(* erase clears whole sectors, as many as its size needs, from the one that  *)
(* holds its offset, and nothing else, block erases included, for every      *)
(* range and every geometry in which a block is a number of sectors.         *)
THEOREM EraseExact ==
  ASSUME NEW offset \in Nat, NEW size \in Nat,
         NEW sector \in Nat \ {0}, NEW block \in Nat \ {0},
         block % sector = 0
  PROVE  erase(offset, size, sector, block) =
           SectorStart(offset, sector)
             .. SectorStart(offset, sector) + aligned_size(size, sector) - 1
<1>1. PICK sectors \in Nat : /\ sectors = aligned_size(size, sector) \div sector
                              /\ aligned_size(size, sector) = sectors * sector
  BY AlignedSize
<1> DEFINE at(n) == EraseAt(offset, sectors, sector, n)
           unit(n) == EraseUnit(at(n), n * sector, sector, block)
           first(n) == (at(n) \div unit(n)) * unit(n)
           from == SectorStart(offset, sector)
           low(n) == EraseAt(from, sectors, sector, n)
<1>2. PICK loop : /\ erase(offset, size, sector, block) = loop[sectors]
                  /\ ErasesBy(loop, offset, sectors, sector, block)
  BY <1>1, EraseLoop
<1>3. /\ loop[0] = {}
      /\ \A n \in Nat \ {0} :
           loop[n] = (first(n) .. first(n) + unit(n) - 1) \cup loop[n - unit(n) \div sector]
  BY <1>2 DEF ErasesBy
<1> DEFINE Right(n) == loop[n] = low(n) .. low(n) + n * sector - 1
           S == {n \in 0 .. sectors : ~Right(n)}
<1>4. PICK o \in Int : /\ from = o * sector /\ from \in Int
                       /\ from <= offset /\ offset < from + sector
  <2>1. PICK o \in Int : o = offset \div sector
    OBVIOUS
  <2>2. o * sector <= offset /\ offset < o * sector + sector /\ o * sector \in Int
    BY <2>1
  <2> QED
    BY <2>1, <2>2 DEF SectorStart
<1> HIDE DEF from
<1>5. PICK m \in Int : block = m * sector /\ block \div sector = m
  BY Quotient
<1>6. m \in Nat \ {0}
  BY <1>5
<1>7. sector = 1 * sector /\ sector \div sector = 1
  BY OfMultiple
<1>8. ASSUME NEW n \in Nat \ {0}, n <= sectors, \A k \in 0 .. n - 1 : Right(k)
      PROVE  Right(n)
  <2>1. PICK q \in Int : low(n) = q * sector /\ low(n) \in Int /\ at(n) \in Int
                         /\ low(n) <= at(n) /\ at(n) < low(n) + sector
    <3>1. PICK d \in Int : d = (sectors - n) * sector
      OBVIOUS
    <3>2. PICK q \in Int : q = o + (sectors - n)
      OBVIOUS
    <3>3. q * sector = o * sector + d
      BY <3>1, <3>2
    <3>4. low(n) = from + d /\ at(n) = offset + d
      BY <3>1 DEF EraseAt
    <3> HIDE DEF low, at
    <3> QED
      BY <3>3, <3>4, <1>4
  <2>2. PICK j \in Nat \ {0} : j <= n /\ unit(n) = j * sector /\ unit(n) \div sector = j
    <3>1. CASE at(n) % block = 0 /\ n * sector >= block
      <4>1. m * sector <= n * sector
        BY <3>1, <1>5
      <4>2. m <= n
        BY <4>1, <1>6
      <4> QED
        BY <3>1, <4>2, <1>5, <1>6 DEF EraseUnit
    <3>2. CASE ~(at(n) % block = 0 /\ n * sector >= block)
      BY <3>2, <1>7 DEF EraseUnit
    <3> QED
      BY <3>1, <3>2
  <2>3. first(n) = low(n)
    <3>1. CASE at(n) % block = 0 /\ n * sector >= block
      <4>1. Multiple(at(n), sector)
        BY <3>1, <2>1, Divides DEF Multiple
      <4>2. PICK p \in Int : at(n) = p * sector
        <5>1. at(n) \div sector \in Int /\ at(n) = (at(n) \div sector) * sector
          BY <2>1, <4>1, Quotient DEF Multiple
        <5> QED
          BY <5>1
      <4>3. q * sector <= p * sector /\ p * sector < (q + 1) * sector
        BY <2>1, <4>2
      <4>4. p = q
        BY <4>3
      <4>5. unit(n) = block /\ (at(n) \div block) * block = at(n)
        BY <3>1, <2>1, Quotient DEF EraseUnit
      <4> QED
        BY <2>1, <4>2, <4>4, <4>5
    <3>2. CASE ~(at(n) % block = 0 /\ n * sector >= block)
      <4>1. at(n) \div sector = q
        BY <2>1, QuotientIs
      <4>2. unit(n) = sector
        BY <3>2 DEF EraseUnit
      <4> QED
        BY <2>1, <4>1, <4>2
    <3> QED
      BY <3>1, <3>2
  <2>4. loop[n] = (low(n) .. low(n) + j * sector - 1) \cup loop[n - j]
    <3> HIDE DEF at, unit, low
    <3> QED
      BY <1>3, <2>2, <2>3
  <2>5. loop[n - j] = low(n - j) .. low(n - j) + (n - j) * sector - 1
    <3>1. n - j \in 0 .. n - 1
      BY <2>2
    <3>2. Right(n - j)
      BY <3>1, <1>8
    <3> QED
      BY <3>2
  <2>6. low(n - j) = low(n) + j * sector /\ (n - j) * sector = n * sector - j * sector
    BY <1>1, <1>4, <2>2 DEF EraseAt
  <2>7. j * sector \in Nat /\ n * sector \in Nat /\ j * sector <= n * sector
    BY <2>2
  <2>8. PICK a \in Int, x \in Nat, y \in Nat :
          a = low(n) /\ x = j * sector /\ y = n * sector
    BY <2>1, <2>7
  <2>9. loop[n] = (a .. a + x - 1) \cup ((a + x) .. (a + x) + (y - x) - 1)
    BY <2>4, <2>5, <2>6, <2>8
  <2>10. loop[n] = a .. a + y - 1
    BY <2>7, <2>8, <2>9, Joined
  <2> QED
    BY <2>8, <2>10
<1>9. Right(0)
  <2>1. low(0) \in Int
    BY <1>1, <1>4 DEF EraseAt
  <2>2. 0 * sector = 0
    OBVIOUS
  <2>3. ASSUME NEW a \in Int PROVE a .. a + 0 - 1 = {}
    OBVIOUS
  <2> QED
    BY <1>3, <2>1, <2>2, <2>3
<1>10. S = {}
  <2> SUFFICES ASSUME S # {} PROVE FALSE
    OBVIOUS
  <2> HIDE DEF Right
  <2>1. S \in SUBSET Nat
    BY <1>1
  <2> HIDE DEF S
  <2>2. PICK n \in S : \A k \in S : n <= k
    BY <2>1, Least
  <2>3. n \in 0 .. sectors /\ ~Right(n)
    BY DEF S
  <2>4. \A k \in 0 .. n - 1 : Right(k)
    BY <1>1, <2>2, <2>3 DEF S
  <2> QED
    BY <1>1, <1>8, <1>9, <2>3, <2>4
<1>11. Right(sectors)
  <2>1. sectors \in 0 .. sectors
    OBVIOUS
  <2> HIDE DEF Right
  <2> QED
    BY <2>1, <1>10
<1>12. low(sectors) = from
  BY <1>1, <1>4 DEF EraseAt
<1> QED
  BY <1>1, <1>2, <1>11, <1>12 DEF from

LEMMA EraseOnSector ==
  ASSUME NEW offset \in Nat, NEW size \in Nat,
         NEW sector \in Nat \ {0}, NEW block \in Nat \ {0},
         block % sector = 0, offset % sector = 0
  PROVE  erase(offset, size, sector, block) = offset .. offset + aligned_size(size, sector) - 1
<1>1. SectorStart(offset, sector) = offset
  BY Quotient DEF SectorStart
<1> QED
  BY <1>1, EraseExact

(* A recursion over the natural numbers, with values in T, has a solution.   *)
Falls(J) == J \in [Nat -> Nat] /\ \A n \in Nat \ {0} : J[n] \in 1 .. n

Follows(f, z, G, J) == f[0] = z /\ \A n \in Nat \ {0} : f[n] = G[n][f[n - J[n]]]

LEMMA Recursion ==
  ASSUME NEW T, NEW z, NEW G, NEW J, z \in T, G \in [Nat -> [T -> T]], Falls(J)
  PROVE  \E f \in [Nat -> T] : Follows(f, z, G, J)
<1> USE DEF Falls, Follows
<1> DEFINE Good(g, m) == /\ g \in [0 .. m -> T] /\ g[0] = z
                         /\ \A n \in 1 .. m : g[n] = G[n][g[n - J[n]]]
           None == {m \in Nat : ~\E g : Good(g, m)}
<1>1. \A n \in Nat \ {0} : n - J[n] \in 0 .. n - 1
  OBVIOUS
<1>2. None = {}
  <2> SUFFICES ASSUME None # {} PROVE FALSE
    OBVIOUS
  <2>1. PICK m \in None : \A k \in None : m <= k
    <3>1. None \in SUBSET Nat
      OBVIOUS
    <3> HIDE DEF None
    <3> QED
      BY <3>1, Least
  <2>2. m \in Nat /\ ~\E g : Good(g, m)
    OBVIOUS
  <2>3. m # 0
    <3>1. Good([n \in 0 .. 0 |-> z], 0)
      OBVIOUS
    <3> QED
      BY <2>2, <3>1
  <2>4. PICK g : Good(g, m - 1)
    <3>1. m - 1 \in Nat /\ ~(m <= m - 1)
      BY <2>2, <2>3
    <3>2. m - 1 \notin None
      <4> HIDE DEF None
      <4> QED
        BY <2>1, <3>1
    <3> QED
      BY <3>1, <3>2
  <2> DEFINE h == [n \in 0 .. m |-> IF n < m THEN g[n] ELSE G[m][g[m - J[m]]]]
  <2>5. \A n \in 0 .. m - 1 : h[n] = g[n] /\ g[n] \in T
    BY <2>2, <2>4
  <2>6. h[m] = G[m][g[m - J[m]]] /\ h[m] \in T
    <3>1. m - J[m] \in 0 .. m - 1
      BY <1>1, <2>2, <2>3
    <3>2. g[m - J[m]] \in T
      BY <2>4, <3>1
    <3> QED
      BY <2>2, <3>2
  <2>7. h \in [0 .. m -> T]
    <3>1. \A n \in 0 .. m : h[n] \in T
      <4>1. \A n \in 0 .. m : n \in 0 .. m - 1 \/ n = m
        BY <2>2
      <4> HIDE DEF h
      <4> QED
        BY <2>5, <2>6, <4>1
    <3>2. h = [n \in 0 .. m |-> h[n]]
      OBVIOUS
    <3> HIDE DEF h
    <3> QED
      BY <3>1, <3>2
  <2> HIDE DEF h
  <2>8. h[0] = z
    BY <2>2, <2>3, <2>4, <2>5
  <2>9. ASSUME NEW n \in 1 .. m PROVE h[n] = G[n][h[n - J[n]]]
    <3>1. n \in Nat \ {0} /\ n - J[n] \in 0 .. n - 1 /\ n - J[n] \in 0 .. m - 1
      BY <1>1, <2>2
    <3>2. h[n - J[n]] = g[n - J[n]]
      BY <2>5, <3>1
    <3>3. CASE n = m
      BY <2>6, <3>2, <3>3
    <3>4. CASE n # m
      <4>1. n \in 1 .. m - 1 /\ n \in 0 .. m - 1
        BY <2>2, <3>4
      <4> QED
        BY <2>4, <2>5, <3>2, <4>1
    <3> QED
      BY <3>3, <3>4
  <2>10. Good(h, m)
    BY <2>7, <2>8, <2>9
  <2> QED
    BY <2>2, <2>10
<1>3. ASSUME NEW l \in Nat, NEW m \in Nat, NEW g, NEW h, Good(g, l), Good(h, m),
             NEW n \in 0 .. l, n <= m
      PROVE  g[n] = h[n]
  <2> DEFINE Differ == {k \in 0 .. n : g[k] # h[k]}
  <2> SUFFICES ASSUME Differ # {} PROVE FALSE
    OBVIOUS
  <2>1. PICK k \in Differ : \A i \in Differ : k <= i
    <3>1. Differ \in SUBSET Nat
      OBVIOUS
    <3> HIDE DEF Differ
    <3> QED
      BY <3>1, Least
  <2>2. k \in 0 .. n /\ g[k] # h[k]
    OBVIOUS
  <2>3. k # 0
    BY <1>3, <2>2
  <2>4. k \in 1 .. l /\ k \in 1 .. m /\ k \in Nat \ {0}
    BY <1>3, <2>2, <2>3
  <2>5. k - J[k] \in 0 .. k - 1
    BY <1>1, <2>4
  <2>6. g[k - J[k]] = h[k - J[k]]
    <3>1. k - J[k] \in 0 .. n /\ ~(k <= k - J[k])
      BY <2>2, <2>4, <2>5
    <3> QED
      BY <2>1, <3>1
  <2>7. g[k] = G[k][g[k - J[k]]] /\ h[k] = G[k][h[k - J[k]]]
    BY <1>3, <2>4
  <2> QED
    BY <2>2, <2>6, <2>7
<1> DEFINE pick(n) == CHOOSE g : Good(g, n)
           f == [n \in Nat |-> pick(n)[n]]
<1>4. \A n \in Nat : Good(pick(n), n)
  <2> SUFFICES ASSUME NEW n \in Nat PROVE Good(pick(n), n)
    OBVIOUS
  <2>1. \E g : Good(g, n)
    BY <1>2
  <2> HIDE DEF Good
  <2> QED
    BY <2>1
<1> HIDE DEF pick
<1>5. f \in [Nat -> T] /\ f[0] = z
  <2>1. \A n \in Nat : pick(n)[n] \in T
    <3> SUFFICES ASSUME NEW n \in Nat PROVE pick(n)[n] \in T
      OBVIOUS
    <3>1. pick(n) \in [0 .. n -> T] /\ n \in 0 .. n
      BY <1>4
    <3> QED
      BY <3>1
  <2>2. pick(0)[0] = z
    BY <1>4
  <2> QED
    BY <2>1, <2>2
<1>6. ASSUME NEW n \in Nat \ {0} PROVE f[n] = G[n][f[n - J[n]]]
  <2>1. PICK k \in Nat : k = n - J[n] /\ k < n
    BY <1>1
  <2>2. Good(pick(n), n) /\ Good(pick(k), k)
    BY <1>4
  <2>3. f[n] = pick(n)[n] /\ f[k] = pick(k)[k]
    OBVIOUS
  <2>4. pick(n)[n] = G[n][pick(n)[k]]
    BY <2>1, <2>2
  <2>5. pick(k)[k] = pick(n)[k]
    <3>1. k \in 0 .. k /\ k <= n
      BY <2>1
    <3> HIDE DEF Good
    <3> QED
      BY <1>3, <2>2, <3>1
  <2> QED
    BY <2>1, <2>3, <2>4, <2>5
<1> QED
  BY <1>5, <1>6

(* The ROM calls of write: in order, without a gap and within a page.        *)
Calls == [at : Int, size : Nat]

InOrder(s, from, to) ==
  /\ s[1].at = from /\ s[Len(s)].at + s[Len(s)].size = to
  /\ \A k \in 1 .. Len(s) : k > 1 => s[k].at = s[k - 1].at + s[k - 1].size

WithinPages(s, page) ==
  \A k \in 1 .. Len(s) : s[k].at \div page = (s[k].at + s[k].size - 1) \div page

LEMMA PrependCall ==
  ASSUME NEW c \in Calls, NEW s \in Seq(Calls), NEW to \in Int, NEW page \in Nat \ {0},
         s # <<>> => InOrder(s, c.at + c.size, to) /\ WithinPages(s, page),
         s = <<>> => c.at + c.size = to,
         c.at \div page = (c.at + c.size - 1) \div page
  PROVE  /\ <<c>> \o s \in Seq(Calls) /\ <<c>> \o s # <<>>
         /\ InOrder(<<c>> \o s, c.at, to) /\ WithinPages(<<c>> \o s, page)
<1> DEFINE r == <<c>> \o s
<1>1. /\ r \in Seq(Calls) /\ Len(r) = Len(s) + 1 /\ Len(s) \in Nat
      /\ r[1] = c /\ \A k \in 1 .. Len(s) : r[k + 1] = s[k]
  OBVIOUS
<1> HIDE DEF r
<1>2. r # <<>>
  BY <1>1
<1>3. CASE s = <<>>
  <2>1. Len(r) = 1
    BY <1>1, <1>3
  <2>2. InOrder(r, c.at, to)
    BY <1>1, <1>3, <2>1 DEF InOrder
  <2>3. WithinPages(r, page)
    BY <1>1, <2>1 DEF WithinPages
  <2> QED
    BY <1>1, <1>2, <2>2, <2>3 DEF r
<1>4. CASE s # <<>>
  <2>1. Len(s) \in Nat \ {0} /\ Len(r) \in Nat /\ Len(r) = Len(s) + 1
    BY <1>1, <1>4
  <2>2. \A k \in 2 .. Len(r) : k - 1 \in 1 .. Len(s) /\ r[k] = s[k - 1]
    <3> SUFFICES ASSUME NEW k \in 2 .. Len(r)
                 PROVE  k - 1 \in 1 .. Len(s) /\ r[k] = s[k - 1]
      OBVIOUS
    <3>1. k - 1 \in 1 .. Len(s) /\ (k - 1) + 1 = k
      BY <2>1
    <3> QED
      BY <1>1, <3>1
  <2>3. InOrder(r, c.at, to)
    <3>1. r[Len(r)] = s[Len(s)]
      BY <2>1, <2>2
    <3>2. ASSUME NEW k \in 1 .. Len(r), k > 1
          PROVE  r[k].at = r[k - 1].at + r[k - 1].size
      <4>1. k \in 2 .. Len(r) /\ k - 1 \in 1 .. Len(s) /\ r[k] = s[k - 1]
        BY <2>1, <2>2, <3>2
      <4>2. CASE k = 2
        <5>1. r[k] = s[1] /\ r[k - 1] = c
          BY <1>1, <4>1, <4>2
        <5> QED
          BY <1>4, <5>1 DEF InOrder
      <4>3. CASE k # 2
        <5>1. /\ k - 1 \in 2 .. Len(r) /\ r[k - 1] = s[(k - 1) - 1]
              /\ k - 1 > 1
          BY <2>1, <2>2, <4>1, <4>3
        <5> QED
          BY <1>4, <4>1, <5>1 DEF InOrder
      <4> QED
        BY <4>2, <4>3
    <3> QED
      BY <1>1, <1>4, <3>1, <3>2 DEF InOrder
  <2>4. WithinPages(r, page)
    <3> SUFFICES ASSUME NEW k \in 1 .. Len(r)
                 PROVE  r[k].at \div page = (r[k].at + r[k].size - 1) \div page
      BY DEF WithinPages
    <3>1. CASE k = 1
      BY <1>1, <3>1
    <3>2. CASE k # 1
      <4>1. k - 1 \in 1 .. Len(s) /\ r[k] = s[k - 1]
        BY <2>1, <2>2, <3>2
      <4>2. WithinPages(s, page)
        BY <1>4
      <4> QED
        BY <4>1, <4>2 DEF WithinPages
    <3> QED
      BY <3>1, <3>2
  <2> QED
    BY <1>1, <1>2, <2>3, <2>4 DEF r
<1> QED
  BY <1>3, <1>4

(* The calls that program a range of at least a byte.                        *)
Programs(s, from, to, page) ==
  s \in Seq(Calls) /\ s # <<>> /\ InOrder(s, from, to) /\ WithinPages(s, page)

InPage(c, page) == c.at \div page = (c.at + c.size - 1) \div page

LEMMA Prepend ==
  ASSUME NEW c \in Calls, NEW s, NEW to \in Int, NEW page \in Nat \ {0}, InPage(c, page),
         \/ s = <<>> /\ c.at + c.size = to
         \/ Programs(s, c.at + c.size, to, page)
  PROVE  Programs(<<c>> \o s, c.at, to, page)
<1>1. CASE s = <<>> /\ c.at + c.size = to
  <2>1. PICK t \in Seq(Calls) : t = <<>> /\ t = s
    <3>1. <<>> \in Seq(Calls)
      OBVIOUS
    <3> QED
      BY <1>1, <3>1, Zenon
  <2>2. /\ <<c>> \o t \in Seq(Calls) /\ <<c>> \o t # <<>>
        /\ InOrder(<<c>> \o t, c.at, to) /\ WithinPages(<<c>> \o t, page)
    <3>1. t # <<>> => InOrder(t, c.at + c.size, to) /\ WithinPages(t, page)
      BY <2>1, Zenon
    <3>2. t = <<>> => c.at + c.size = to
      BY <1>1, Zenon
    <3> QED
      BY <3>1, <3>2, PrependCall, Zenon DEF InPage
  <2> QED
    BY <2>1, <2>2, Zenon DEF Programs
<1>2. CASE Programs(s, c.at + c.size, to, page)
  BY <1>2, PrependCall, Zenon DEF Programs, InPage
<1> QED
  BY <1>1, <1>2

(* A call that starts on a chunk and is no longer stays in its page.         *)
LEMMA ChunkInPage ==
  ASSUME NEW chunk \in Nat \ {0}, NEW page \in Nat \ {0}, Multiple(page, chunk),
         NEW at \in Nat, Multiple(at, chunk), NEW n \in 1 .. chunk
  PROVE  at \div page = (at + n - 1) \div page
<1>1. PICK m \in Int : page = m * chunk
  <2>1. page \div chunk \in Int /\ page = (page \div chunk) * chunk
    BY Quotient DEF Multiple
  <2> QED
    BY <2>1
<1>2. PICK a \in Int : at = a * chunk
  <2>1. at \div chunk \in Int /\ at = (at \div chunk) * chunk
    BY Quotient DEF Multiple
  <2> QED
    BY <2>1
<1>3. PICK q \in Int : q = at \div page /\ q * page <= at /\ at < q * page + page
  OBVIOUS
<1>4. PICK t \in Int : t = (q + 1) * m /\ q * page + page = t * chunk
  BY <1>1
<1>5. a * chunk < t * chunk
  BY <1>2, <1>3, <1>4
<1>6. a + 1 <= t
  BY <1>5
<1>7. (a + 1) * chunk <= t * chunk
  BY <1>6
<1>8. at + chunk <= q * page + page
  BY <1>2, <1>4, <1>7
<1>9. q * page <= at + n - 1 /\ at + n - 1 < q * page + page /\ at + n - 1 \in Int
  BY <1>3, <1>8
<1> QED
  BY <1>3, <1>9, QuotientIs

(* The call that the loop of write makes when so much is left, and the calls *)
(* from there on.                                                            *)
CallAt(end, chunk, left) ==
  [at |-> end - left, size |-> IF left < chunk THEN left ELSE chunk]

ProgramsBy(loop, end, chunk) ==
  /\ loop[0] = <<>>
  /\ \A n \in Nat \ {0} :
       loop[n] = <<CallAt(end, chunk, n)>> \o loop[n - (IF n < chunk THEN n ELSE chunk)]

HeadCall(offset, head) == IF head = 0 THEN <<>> ELSE <<[at |-> offset, size |-> head]>>

(* The loop of write, unfolded once.                                         *)
LEMMA ProgramLoop ==
  ASSUME NEW offset \in Nat, NEW size \in Nat, NEW page \in Nat \ {0}, NEW chunk \in Nat \ {0}
  PROVE  \E loop :
           /\ program_calls(offset, size, page, chunk) =
                HeadCall(offset, head_size(offset, size, page))
                  \o loop[size - head_size(offset, size, page)]
           /\ ProgramsBy(loop, offset + size, chunk)
<1> DEFINE end == offset + size
           jump(n) == IF n < chunk THEN n ELSE chunk
           Solves(f) == f = [left \in Nat |->
                       IF left = 0 THEN <<>>
                       ELSE <<[at |-> end - left, size |-> jump(left)]>> \o f[left - jump(left)]]
           loop == CHOOSE g : Solves(g)
           G == [n \in Nat |-> [t \in Seq(Calls) |-> <<CallAt(end, chunk, n)>> \o t]]
           J == [n \in Nat |-> jump(n)]
<1>1. program_calls(offset, size, page, chunk) =
        HeadCall(offset, head_size(offset, size, page))
          \o loop[size - head_size(offset, size, page)]
  BY DEF program_calls, HeadCall
<1> HIDE DEF loop
<1>2. \A n \in Nat : CallAt(end, chunk, n) = [at |-> end - n, size |-> jump(n)]
  BY DEF CallAt
<1>3. \A n \in Nat : CallAt(end, chunk, n) \in Calls
  BY DEF CallAt, Calls
<1>4. G \in [Nat -> [Seq(Calls) -> Seq(Calls)]]
  <2>1. \A n \in Nat : \A t \in Seq(Calls) : <<CallAt(end, chunk, n)>> \o t \in Seq(Calls)
    BY <1>3
  <2> QED
    BY <2>1
<1>5. Falls(J)
  BY DEF Falls
<1>6. <<>> \in Seq(Calls)
  OBVIOUS
<1>7. PICK f \in [Nat -> Seq(Calls)] : Follows(f, <<>>, G, J)
  <2> HIDE DEF G, J
  <2> QED
    BY <1>4, <1>5, <1>6, Recursion, Zenon
<1>8. \A n \in Nat \ {0} : f[n] = <<[at |-> end - n, size |-> jump(n)]>> \o f[n - jump(n)]
  <2> SUFFICES ASSUME NEW n \in Nat \ {0}
               PROVE  f[n] = <<[at |-> end - n, size |-> jump(n)]>> \o f[n - jump(n)]
    OBVIOUS
  <2>1. n - jump(n) \in Nat
    OBVIOUS
  <2> HIDE DEF jump, end
  <2>2. f[n - jump(n)] \in Seq(Calls)
    BY <2>1
  <2>3. f[n] = <<CallAt(end, chunk, n)>> \o f[n - jump(n)]
    BY <1>7, <2>2 DEF Follows
  <2> QED
    BY <1>2, <2>3
<1>9. Solves(f)
  <2> HIDE DEF jump, end
  <2> QED
    BY <1>7, <1>8 DEF Follows
<1>10. Solves(loop)
  <2> HIDE DEF Solves
  <2> QED
    BY <1>9 DEF loop
<1>11. /\ loop[0] = <<>>
       /\ \A n \in Nat \ {0} :
            loop[n] = <<[at |-> end - n, size |-> jump(n)]>> \o loop[n - jump(n)]
  <2> HIDE DEF jump, end
  <2> QED
    BY <1>10
<1>12. ProgramsBy(loop, end, chunk)
  BY <1>11 DEF ProgramsBy, CallAt
<1> QED
  BY <1>1, <1>12

LEMMA NextMultiple ==
  ASSUME NEW chunk \in Nat \ {0}, NEW x \in Int, Multiple(x, chunk)
  PROVE  Multiple(x + chunk, chunk)
<1>1. PICK a \in Int : x = a * chunk
  <2>1. x \div chunk \in Int /\ x = (x \div chunk) * chunk
    BY Quotient DEF Multiple
  <2> QED
    BY <2>1
<1>2. x + chunk = (a + 1) * chunk /\ a + 1 \in Int
  BY <1>1
<1> QED
  BY <1>2, OfMultiple DEF Multiple

(* The calls of the loop from a chunk boundary to the end.                   *)
LEMMA LoopPrograms ==
  ASSUME NEW end \in Nat, NEW page \in Nat \ {0}, NEW chunk \in Nat \ {0}, Multiple(page, chunk),
         NEW loop, ProgramsBy(loop, end, chunk)
  PROVE  \A n \in 1 .. end : Multiple(end - n, chunk) => Programs(loop[n], end - n, end, page)
<1> DEFINE Right(n) == Multiple(end - n, chunk) => Programs(loop[n], end - n, end, page)
           S == {n \in 1 .. end : ~Right(n)}
<1>1. ASSUME NEW n \in 1 .. end, \A k \in 1 .. n - 1 : Right(k), Multiple(end - n, chunk)
      PROVE  Programs(loop[n], end - n, end, page)
  <2>1. PICK at \in Nat : at = end - n
    OBVIOUS
  <2>2. PICK size \in 1 .. chunk : size = (IF n < chunk THEN n ELSE chunk) /\ size <= n
    OBVIOUS
  <2> DEFINE c == CallAt(end, chunk, n)
  <2>3. c \in Calls /\ c.at = at /\ c.size = size
    BY <2>1, <2>2 DEF CallAt, Calls
  <2> HIDE DEF c
  <2>4. PICK s : s = loop[n - size]
    OBVIOUS
  <2>5. loop[n] = <<c>> \o s
    <3>1. n \in Nat \ {0}
      OBVIOUS
    <3>2. loop[n] = <<c>> \o loop[n - (IF n < chunk THEN n ELSE chunk)]
      BY <3>1, Zenon DEF ProgramsBy, c
    <3> QED
      BY <2>2, <2>4, <3>2, Zenon
  <2>6. InPage(c, page)
    BY <1>1, <2>1, <2>2, <2>3, ChunkInPage DEF InPage
  <2>7. CASE n = size
    <3>1. s = <<>>
      <4>1. n - size = 0
        BY <2>7
      <4> QED
        BY <2>4, <4>1, Zenon DEF ProgramsBy
    <3>2. c.at + c.size = end /\ end \in Int
      BY <2>1, <2>2, <2>3, <2>7
    <3>3. Programs(<<c>> \o s, c.at, end, page)
      BY <2>3, <2>6, <3>1, <3>2, Prepend, Zenon
    <3> QED
      BY <2>1, <2>3, <2>5, <3>3, Zenon
  <2>8. CASE n # size
    <3>1. size = chunk /\ n - size \in 1 .. n - 1
      BY <2>2, <2>8
    <3>2. end - (n - size) = at + chunk /\ Multiple(at + chunk, chunk)
      BY <1>1, <2>1, <3>1, NextMultiple
    <3>3. Programs(s, at + chunk, end, page)
      <4>1. Right(n - size)
        BY <1>1, <3>1
      <4> QED
        BY <2>4, <3>2, <4>1
    <3>4. c.at + c.size = at + chunk
      BY <2>3, <3>1
    <3> QED
      BY <2>1, <2>3, <2>5, <2>6, <3>3, <3>4, Prepend
  <2> QED
    BY <2>7, <2>8
<1>2. S = {}
  <2> SUFFICES ASSUME S # {} PROVE FALSE
    OBVIOUS
  <2>1. S \in SUBSET Nat
    OBVIOUS
  <2> HIDE DEF S
  <2>2. PICK n \in S : \A k \in S : n <= k
    BY <2>1, Least
  <2>3. n \in 1 .. end /\ ~Right(n)
    BY DEF S
  <2>4. \A k \in 1 .. n - 1 : Right(k)
    <3> HIDE DEF Right
    <3> QED
      BY <2>2, <2>3 DEF S
  <2> QED
    BY <1>1, <2>3, <2>4
<1> QED
  BY <1>2

(* write programs every byte of its range once and in order, and no ROM call *)
(* of it crosses a page, for every range and every geometry in which a page  *)
(* is a number of the chunks that write copies through buf_32.               *)
THEOREM WriteExact ==
  ASSUME NEW offset \in Nat, NEW size \in Nat \ {0},
         NEW page \in Nat \ {0}, NEW chunk \in Nat \ {0}, page % chunk = 0
  PROVE  LET calls == program_calls(offset, size, page, chunk)
         IN calls # <<>> /\ InOrder(calls, offset, offset + size) /\ WithinPages(calls, page)
<1> DEFINE end == offset + size
           head == head_size(offset, size, page)
           calls == program_calls(offset, size, page, chunk)
<1> SUFFICES Programs(calls, offset, end, page)
  BY DEF Programs
<1>0. Multiple(page, chunk)
  BY DEF Multiple
<1>1. PICK loop : calls = HeadCall(offset, head) \o loop[size - head]
                  /\ ProgramsBy(loop, end, chunk)
  BY ProgramLoop
<1>2. \A n \in 1 .. end : Multiple(end - n, chunk) => Programs(loop[n], end - n, end, page)
  <2>1. end \in Nat
    OBVIOUS
  <2> HIDE DEF end
  <2> QED
    BY <1>1, <2>1, <1>0, LoopPrograms
<1>3. CASE Multiple(offset, page)
  <2>1. head = 0 /\ size - head = size
    BY <1>3 DEF head_size, Multiple
  <2>2. Multiple(offset, chunk)
    BY <1>3, <1>0, Divides
  <2>3. end - size = offset /\ size \in 1 .. end
    OBVIOUS
  <2>4. Programs(loop[size], offset, end, page)
    BY <1>2, <2>2, <2>3
  <2>5. calls = <<>> \o loop[size]
    BY <1>1, <2>1 DEF HeadCall
  <2>6. calls = loop[size]
    BY <2>4, <2>5 DEF Programs
  <2> QED
    BY <2>4, <2>6
<1>4. CASE ~Multiple(offset, page)
  <2>1. PICK q \in Int, r \in 1 .. page - 1 :
          r = offset % page /\ q = offset \div page /\ offset = q * page + r
    BY <1>4 DEF Multiple
  <2> DEFINE h == IF page - r < size THEN page - r ELSE size
  <2>2. h \in Nat \ {0} /\ h <= size /\ h <= page - r /\ (h = size \/ h = page - r)
    OBVIOUS
  <2>8. head = h
    BY <1>4, <2>1 DEF head_size, Multiple
  <2> HIDE DEF h, head
  <2> DEFINE c == [at |-> offset, size |-> h]
  <2>3. c \in Calls /\ c.at = offset /\ c.size = h
    BY <2>2 DEF Calls
  <2>4. calls = <<c>> \o loop[size - h]
    BY <1>1, <2>2, <2>8 DEF HeadCall
  <2>5. InPage(c, page)
    <3>1. q * page <= offset + h - 1 /\ offset + h - 1 < q * page + page /\ offset + h - 1 \in Int
      BY <2>1, <2>2
    <3> QED
      BY <2>1, <2>3, <3>1, QuotientIs DEF InPage
  <2>6. CASE h = size
    <3>1. loop[size - h] = <<>>
      BY <1>1, <2>6 DEF ProgramsBy
    <3>2. <<>> \in Seq(Calls) /\ c.at + c.size = end /\ end \in Int
      BY <2>3, <2>6
    <3> QED
      BY <2>3, <2>4, <2>5, <3>1, <3>2, Prepend
  <2>7. CASE h # size
    <3>1. h = page - r /\ size - h \in 1 .. end /\ end - (size - h) = offset + h
      BY <2>1, <2>2, <2>7
    <3>2. PICK p \in Int : p = q + 1 /\ offset + h = p * page
      BY <2>1, <3>1
    <3>3. Multiple(offset + h, page)
      BY <3>2, OfMultiple DEF Multiple
    <3>4. Multiple(offset + h, chunk)
      BY <2>2, <3>3, <1>0, Divides
    <3>5. Programs(loop[size - h], offset + h, end, page)
      BY <1>2, <3>1, <3>4
    <3>6. c.at + c.size = offset + h /\ end \in Int
      BY <2>3
    <3> HIDE DEF end
    <3> QED
      BY <2>3, <2>4, <2>5, <3>5, <3>6, Prepend
  <2> QED
    BY <2>6, <2>7
<1> QED
  BY <1>3, <1>4

(* write reports success although ROM calls failed exactly if only the first *)
(* did and the range starts inside a page: its result is in an unsigned      *)
(* variable when it is tested.                                               *)
THEOREM WriteResultExact ==
  ASSUME NEW offset \in Nat, NEW size \in Nat \ {0}, NEW page \in Nat \ {0},
         NEW failed, failed # {}
  PROVE  write_result(offset, size, page, failed) = size
           <=> failed = {1} /\ offset % page # 0
<1>1. size # -1
  OBVIOUS
<1>2. CASE offset % page = 0
  BY <1>1, <1>2 DEF write_result, head_size
<1>3. CASE offset % page # 0
  <2>1. head_size(offset, size, page) # 0
    BY <1>3 DEF head_size
  <2>2. write_result(offset, size, page, failed) = IF failed \ {1} = {} THEN size ELSE -1
    BY <2>1 DEF write_result
  <2>3. failed \ {1} = {} <=> failed = {1}
    OBVIOUS
  <2> QED
    BY <1>1, <1>3, <2>2, <2>3
<1> QED
  BY <1>2, <1>3

(* The sectors that a range touches, and what erase clears of it.            *)
Touches(offset, size, sector, a) ==
  \E x \in offset .. offset + size - 1 : x \div sector = a \div sector

LEMMA EraseTouches ==
  ASSUME NEW offset \in Nat, NEW size \in Nat,
         NEW sector \in Nat \ {0}, NEW block \in Nat \ {0},
         block % sector = 0, offset % sector = 0
  PROVE  \A a \in Nat : a \in erase(offset, size, sector, block)
                          <=> Touches(offset, size, sector, a)
<1>1. PICK o \in Int : offset = o * sector
  <2>1. offset \div sector \in Int /\ offset = (offset \div sector) * sector
    BY Quotient
  <2> QED
    BY <2>1
<1>2. PICK p \in Nat : /\ aligned_size(size, sector) = p * sector
                       /\ p * sector <= size + sector - 1 /\ size <= p * sector
  <2>1. PICK p \in Nat : p = (size + sector - 1) \div sector
    OBVIOUS
  <2>2. p * sector <= size + sector - 1 /\ size + sector - 1 < p * sector + sector
    BY <2>1
  <2>3. aligned_size(size, sector) = p * sector
    BY <2>1 DEF aligned_size
  <2>4. size <= p * sector
    BY <2>2
  <2> QED
    BY <2>2, <2>3, <2>4
<1>3. erase(offset, size, sector, block) = offset .. offset + p * sector - 1
  BY <1>2, EraseOnSector
<1> SUFFICES ASSUME NEW a \in Nat
             PROVE  a \in offset .. offset + p * sector - 1
                      <=> Touches(offset, size, sector, a)
  BY <1>3
<1>4. PICK q \in Int : q = a \div sector /\ q * sector <= a /\ a < q * sector + sector
  OBVIOUS
<1>5. PICK e \in Int : e = o + p /\ offset + p * sector = e * sector
  BY <1>1
<1>6. ASSUME a \in offset .. offset + p * sector - 1
      PROVE  Touches(offset, size, sector, a)
  <2>1. o * sector < (q + 1) * sector /\ q * sector < e * sector
    BY <1>1, <1>4, <1>5, <1>6
  <2>2. o <= q /\ q + 1 <= e
    BY <2>1
  <2>3. o * sector <= q * sector /\ (q + 1) * sector <= e * sector
    BY <2>2
  <2>4. PICK x \in Int : x = q * sector
    OBVIOUS
  <2>5. x + sector <= offset + p * sector /\ offset <= x
    BY <1>1, <1>5, <2>3, <2>4
  <2>6. x \in offset .. offset + size - 1
    BY <1>2, <2>5
  <2>7. x \div sector = q
    BY <2>4, OfMultiple
  <2> QED
    BY <1>4, <2>6, <2>7 DEF Touches
<1>7. ASSUME Touches(offset, size, sector, a)
      PROVE  a \in offset .. offset + p * sector - 1
  <2>1. PICK x \in offset .. offset + size - 1 : x \div sector = q
    BY <1>4, <1>7 DEF Touches
  <2>2. q * sector <= x /\ x < q * sector + sector
    BY <2>1
  <2>3. o * sector < (q + 1) * sector /\ q * sector < e * sector
    BY <1>1, <1>2, <1>5, <2>1, <2>2
  <2>4. o <= q /\ q + 1 <= e
    BY <2>3
  <2>5. o * sector <= q * sector /\ (q + 1) * sector <= e * sector
    BY <2>4
  <2> QED
    BY <1>1, <1>4, <1>5, <2>5
<1> QED
  BY <1>6, <1>7

-----------------------------------------------------------------------------
(* Types.  The counters of BootState are BootState_proofs' business.        *)
Address == 0 .. BlockMax - 1

FlashType(f) == f \in [Page -> Images \cup {Blank, Bad}]

StateType ==
  /\ number_of_block \in (0 .. BlocksMax - 1) \cup {Never}
  /\ mask \in SUBSET Address /\ number_of_written = Cardinality(mask)
  /\ counted \in SUBSET (Nat \ {0})

CacheType ==
  /\ cache \in [1 .. CacheBlocks -> Images \cup {Blank, Bad}]
  /\ cached_bytes \in 0 .. CacheBlocks /\ cached_address \in Address

MainType ==
  /\ main_pc \in {"poll", "erase", "program", "empty", "reset"}
  /\ flushing \in [at : Address, n : 0 .. CacheBlocks]

HostType ==
  /\ configured \in BOOLEAN /\ file \in Images /\ next \in Nat
  /\ disturbed \subseteq Kinds

GhostType == touched \in BOOLEAN /\ torn \in BOOLEAN

Uf2Type == FlashType(flash) /\ StateType /\ CacheType /\ MainType /\ HostType /\ GhostType

(* The assumptions on the constants, one by one.                             *)
LEMMA LengthOf ==
  ASSUME NEW f \in Images
  PROVE  Length[f] \in Nat \ {0}
  BY Uf2Assumption

LEMMA Sizes ==
  /\ Pages \in Nat \ {0} /\ BlocksMax \in Nat \ {0} /\ CacheBlocks \in Nat \ {0}
  /\ SectorBlocks \in Nat \ {0} /\ EraseBlocks \in Nat \ {0}
  /\ MaskBits \in Nat /\ BlockMax \in Nat \ {0}
  /\ BlocksMax < MaskBits /\ MaskBits <= BlockMax
<1>1. /\ Pages \in Nat \ {0} /\ BlocksMax \in Nat /\ CacheBlocks \in Nat \ {0}
      /\ SectorBlocks \in Nat \ {0} /\ EraseBlocks \in Nat \ {0}
      /\ MaskBits \in Nat /\ BlockMax \in Nat
      /\ 0 < BlocksMax /\ BlocksMax < MaskBits /\ MaskBits <= BlockMax
  BY Zenon, Uf2Assumption
<1> QED
  BY <1>1

LEMMA FirstIsFile == FirstFile \in Images
  BY Uf2Assumption DEF FirstFile

LEMMA MaskBound ==
  ASSUME StateType
  PROVE  IsFiniteSet(mask) /\ number_of_written \in 0 .. BlockMax
<1>1. BlockMax - 1 \in Int /\ 0 \in Int
  BY Sizes
<1>2. IsFiniteSet(0 .. BlockMax - 1) /\ Cardinality(0 .. BlockMax - 1) = BlockMax
  BY <1>1, FS_Interval, Sizes
<1>3. IsFiniteSet(mask) /\ Cardinality(mask) <= BlockMax
  <2>1. mask \in SUBSET (0 .. BlockMax - 1)
    BY DEF StateType, Address
  <2>2. IsFiniteSet(mask) /\ Cardinality(mask) <= Cardinality(0 .. BlockMax - 1)
    BY <1>2, <2>1, FS_Subset
  <2> QED
    BY <1>2, <2>2
<1>4. Cardinality(mask) \in Nat
  BY <1>3, FS_CardinalityType
<1> QED
  BY <1>3, <1>4, Sizes DEF StateType

LEMMA ErasedType ==
  ASSUME NEW f, FlashType(f), NEW at, NEW n
  PROVE  FlashType(Erased(f, at, n))
<1> DEFINE gone == erase(at, n, SectorBlocks, EraseBlocks)
<1> HIDE DEF gone
<1>1. Erased(f, at, n) = [p \in Page |-> IF p \in gone THEN Blank ELSE f[p]]
  BY DEF Erased, gone
<1> QED
  BY <1>1 DEF FlashType

LEMMA ProgrammedType ==
  ASSUME NEW f, FlashType(f), CacheType, NEW at \in Nat, NEW done \in Int, done <= CacheBlocks
  PROVE  FlashType(Programmed(f, at, cache, done))
<1>1. ASSUME NEW p \in Page, p \in at .. at + done - 1
      PROVE  cache[p - at + 1] \in Images \cup {Blank, Bad}
  <2>1. p - at + 1 \in 1 .. CacheBlocks
    BY <1>1, Sizes DEF Page
  <2> QED
    BY <2>1 DEF CacheType
<1> QED
  BY <1>1 DEF Programmed, FlashType

(* The RAM after a reset is well formed.                                     *)
LEMMA RamType ==
  ASSUME Ram, FlashType(flash), torn' \in BOOLEAN
  PROVE  Uf2Type'
<1>1. 0 \in Address /\ 0 \in 0 .. CacheBlocks
  BY Sizes DEF Address
<1>2. FlashType(flash)'
  BY DEF Ram, FlashType
<1>3. StateType'
  BY FS_EmptySet, Sizes DEF Ram, StateType
<1>4. CacheType'
  BY <1>1 DEF Ram, CacheType
<1>5. MainType'
  BY <1>1 DEF Ram, MainType
<1>6. HostType'
  BY FirstIsFile DEF Ram, HostType
<1>7. GhostType'
  BY DEF Ram, GhostType
<1> QED
  BY <1>2, <1>3, <1>4, <1>5, <1>6, <1>7 DEF Uf2Type

LEMMA DisturbType ==
  ASSUME disturbed \subseteq Kinds, NEW what \in SUBSET Kinds, Disturb(what)
  PROVE  (disturbed \subseteq Kinds)'
  BY DEF Disturb

(* A block that is not counted yet is counted once.                          *)
LEMMA CountType ==
  ASSUME StateType, HostType, NEW b \in Nat, check_writable(b), state_update(b)
  PROVE  /\ StateType'
         /\ mask' = mask \cup {b} /\ number_of_written' = number_of_written + 1
<1>1. Length[file] \in Nat \ {0}
  BY LengthOf DEF HostType
<1>2. number_of_block' \in (0 .. BlocksMax - 1) \cup {Never}
  BY <1>1, Sizes DEF state_update, StateType
<1>3. /\ mask' = mask \cup {b} /\ number_of_written' = number_of_written + 1
      /\ counted' = counted \cup {Length[file]} /\ b < BlockMax /\ b \notin mask
  BY DEF check_writable, state_update, Count
<1>4. b \in Address
  BY <1>3, Sizes DEF Address
<1>5. Cardinality(mask \cup {b}) = Cardinality(mask) + 1
  BY <1>3, MaskBound, FS_AddElement
<1>6. mask' \in SUBSET Address /\ counted' \in SUBSET (Nat \ {0})
  BY <1>1, <1>3, <1>4 DEF StateType
<1> QED
  BY <1>2, <1>3, <1>5, <1>6 DEF StateType

LEMMA SpoiltType ==
  ASSUME NEW c \in [1 .. CacheBlocks -> Images \cup {Blank, Bad}], NEW b,
         NEW d \in Spoilt(b, c)
  PROVE  d \in [1 .. CacheBlocks -> Images \cup {Blank, Bad}]
<1>1. d \in {c, [c EXCEPT ![1] = Bad]}
  BY DEF Spoilt
<1> QED
  BY <1>1, Sizes

LEMMA PutType ==
  ASSUME CacheType, HostType, NEW b \in Nat, NEW n \in Nat, n < CacheBlocks, n <= b,
         b < BlockMax, Put(b, n)
  PROVE  CacheType'
<1>1. n + 1 \in 1 .. CacheBlocks /\ n + 1 \in 0 .. CacheBlocks /\ b - n \in Address
  BY Sizes DEF Address
<1>2. [cache EXCEPT ![n + 1] = file] \in [1 .. CacheBlocks -> Images \cup {Blank, Bad}]
  BY <1>1 DEF CacheType, HostType
<1>3. cache' \in [1 .. CacheBlocks -> Images \cup {Blank, Bad}]
  BY <1>2, SpoiltType DEF Put
<1> QED
  BY <1>1, <1>3 DEF Put, CacheType

(* bootuf2_write_sector keeps the types: a block that is not counted yet     *)
(* goes where the cache has room.                                            *)
LEMMA BlockType ==
  ASSUME Uf2Type, NEW b \in Nat, NEW done \in -1 .. CacheBlocks,
         check_writable(b), flash_write_internal(b, done)
  PROVE  FlashType(flash)' /\ CacheType' /\ touched' \in BOOLEAN
<1>1. /\ FlashType(flash) /\ StateType /\ CacheType /\ HostType /\ GhostType
      /\ done \in Int /\ done <= CacheBlocks
  BY Sizes DEF Uf2Type
<1>2. b < BlockMax
  BY DEF check_writable
<1>3. CASE needs_flush(b)
  <2>1. FlashType(flash)'
    <3>1. flash' = IF done = -1 THEN flash
                   ELSE Programmed(Erased(flash, cached_address, cached_bytes),
                                   cached_address, cache, done)
      BY <1>3 DEF flash_write_internal, bootuf2_flash_write
    <3>2. FlashType(Erased(flash, cached_address, cached_bytes))
      BY <1>1, ErasedType
    <3>3. FlashType(Programmed(Erased(flash, cached_address, cached_bytes),
                               cached_address, cache, done))
      <4>1. cached_address \in Nat
        BY <1>1 DEF CacheType, Address
      <4> QED
        BY <1>1, <3>2, <4>1, ProgrammedType
    <3> QED
      BY <1>1, <3>1, <3>3 DEF FlashType
  <2>2. CacheType'
    <3>1. CASE done = cached_bytes
      <4>1. Put(b, 0)
        BY <1>3, <3>1 DEF flash_write_internal
      <4> QED
        BY <1>1, <1>2, <4>1, PutType, Sizes
    <3>2. CASE done # cached_bytes
      <4>1. cache' \in Spoilt(b, cache) /\ UNCHANGED <<cached_bytes, cached_address>>
        BY <1>3, <3>2 DEF flash_write_internal
      <4>2. cache' \in [1 .. CacheBlocks -> Images \cup {Blank, Bad}]
        BY <1>1, <4>1, SpoiltType DEF CacheType
      <4> QED
        BY <1>1, <4>1, <4>2 DEF CacheType
    <3> QED
      BY <3>1, <3>2
  <2>3. touched' \in BOOLEAN
    BY <1>3 DEF flash_write_internal
  <2> QED
    BY <2>1, <2>2, <2>3
<1>4. CASE ~needs_flush(b)
  <2>1. Put(b, cached_bytes) /\ UNCHANGED <<flash, touched>>
    BY <1>4 DEF flash_write_internal
  <2>2. cached_bytes \in Nat /\ cached_bytes < CacheBlocks /\ cached_bytes <= b
    <3>1. /\ cached_bytes # CacheBlocks
          /\ cached_bytes = 0 \/ cached_address + cached_bytes = b
      BY <1>4 DEF needs_flush
    <3> QED
      BY <1>1, <3>1, Sizes DEF CacheType, Address
  <2>3. CacheType'
    BY <1>1, <1>2, <2>1, <2>2, PutType
  <2> QED
    BY <1>1, <2>1, <2>3 DEF FlashType, GhostType
<1> QED
  BY <1>3, <1>4

LEMMA WriteType ==
  ASSUME Uf2Type, NEW b \in Nat, NEW done \in -1 .. CacheBlocks, write_sector(b, done)
  PROVE  Uf2Type'
<1>1. /\ FlashType(flash) /\ StateType /\ CacheType /\ MainType /\ HostType /\ GhostType
  BY DEF Uf2Type
<1>2. UNCHANGED <<main_pc, flushing, configured, file, torn>>
  BY DEF write_sector, main_vars
<1>3. MainType'
  BY <1>1, <1>2 DEF MainType
<1>4. HostType'
  <2>1. (disturbed \subseteq Kinds)'
    <3>1. PICK what \in SUBSET Kinds : Disturb(what)
      <4>1. CASE write_block(b, done)
        <5> DEFINE what == (IF b > next THEN {"order"} ELSE {})
                 \cup (IF done # cached_bytes /\ ~Refused(b) THEN {"flash"} ELSE {})
                 \cup (IF Refused(b) \/ b >= MaskBits THEN {"bounds"} ELSE {})
        <5>1. what \in SUBSET Kinds
          BY DEF Kinds
        <5>2. Disturb(what)
          BY <4>1 DEF write_block
        <5> QED
          BY <5>1, <5>2
      <4>2. CASE ignore_block(b, done)
        <5> DEFINE what == (IF b > next THEN {"order"} ELSE {})
                             \cup (IF b >= MaskBits THEN {"bounds"} ELSE {})
        <5>1. what \in SUBSET Kinds
          BY DEF Kinds
        <5>2. Disturb(what)
          BY <4>2 DEF ignore_block
        <5> QED
          BY <5>1, <5>2
      <4> QED
        BY <4>1, <4>2 DEF write_sector
    <3> QED
      BY <1>1, <3>1, DisturbType DEF HostType
  <2>2. next' \in Nat
    BY <1>1 DEF write_sector, HostType
  <2> QED
    BY <1>1, <1>2, <2>1, <2>2 DEF HostType
<1>5. CASE ignore_block(b, done)
  <2>1. UNCHANGED <<flash, state_vars, cache_vars, touched>>
    BY <1>5 DEF ignore_block
  <2> QED
    BY <1>1, <1>2, <1>3, <1>4, <2>1
    DEF Uf2Type, FlashType, StateType, CacheType, GhostType, state_vars, cache_vars
<1>6. CASE write_block(b, done)
  <2>1. check_writable(b) /\ flash_write_internal(b, done) /\ state_update(b)
    BY <1>6 DEF write_block
  <2>2. StateType'
    BY <1>1, <2>1, CountType
  <2>3. FlashType(flash)' /\ CacheType' /\ touched' \in BOOLEAN
    BY <2>1, BlockType
  <2>4. GhostType'
    BY <1>1, <1>2, <2>3 DEF GhostType
  <2> QED
    BY <1>3, <1>4, <2>2, <2>3, <2>4 DEF Uf2Type
<1> QED
  BY <1>5, <1>6 DEF write_sector

(* The other callbacks of the mass-storage class keep the types.             *)
LEMMA UsbType == Uf2Type /\ usb => Uf2Type'
<1> SUFFICES ASSUME Uf2Type, usb PROVE Uf2Type'
  OBVIOUS
<1>1. FlashType(flash) /\ StateType /\ CacheType /\ MainType /\ HostType /\ GhostType
  BY DEF Uf2Type
<1>2. ASSUME bootuf2_init PROVE Uf2Type'
  <2>1. UNCHANGED <<flash, state_vars, cache, main_vars, file, next, ghost_vars>>
    BY <1>2 DEF bootuf2_init
  <2>2. CacheType'
    <3>1. 0 \in Address /\ 0 \in 0 .. CacheBlocks
      BY Sizes DEF Address
    <3> QED
      BY <1>1, <1>2, <2>1, <3>1 DEF bootuf2_init, CacheType
  <2>3. HostType'
    <3>1. (disturbed \subseteq Kinds)'
      BY <1>1, <1>2, DisturbType DEF bootuf2_init, HostType, Kinds
    <3> QED
      BY <1>1, <1>2, <2>1, <3>1 DEF bootuf2_init, HostType
  <2> QED
    BY <1>1, <2>1, <2>2, <2>3
    DEF Uf2Type, FlashType, StateType, MainType, GhostType, state_vars, main_vars, ghost_vars
<1>3. ASSUME NEW f \in Images, copy_file(f) PROVE Uf2Type'
  <2>1. UNCHANGED <<flash, state_vars, cache_vars, main_vars, configured, ghost_vars>>
    BY <1>3 DEF copy_file
  <2>2. HostType'
    <3>1. (disturbed \subseteq Kinds)'
      BY <1>1, <1>3, DisturbType DEF copy_file, HostType, Kinds
    <3>2. next' \in Nat
      BY <1>3 DEF copy_file
    <3> QED
      BY <1>1, <1>3, <2>1, <3>1, <3>2 DEF copy_file, HostType
  <2> QED
    BY <1>1, <2>1, <2>2
    DEF Uf2Type, FlashType, StateType, CacheType, MainType, GhostType, state_vars,
        cache_vars, main_vars, ghost_vars
<1>4. ASSUME NEW b \in 0 .. Length[file] - 1, NEW done \in -1 .. CacheBlocks,
             write_sector(b, done)
      PROVE  Uf2Type'
  <2>1. b \in Nat
    BY <1>1, LengthOf DEF HostType
  <2> QED
    BY <1>4, <2>1, WriteType
<1> QED
  BY <1>2, <1>3, <1>4 DEF usb

(* main's flush keeps the types.                                             *)
LEMMA MainType1 == Uf2Type /\ main => Uf2Type'
<1> SUFFICES ASSUME Uf2Type, main PROVE Uf2Type'
  OBVIOUS
<1>1. FlashType(flash) /\ StateType /\ CacheType /\ MainType /\ HostType /\ GhostType
  BY DEF Uf2Type
<1>2. ASSUME is_write_done_check PROVE Uf2Type'
  <2>1. UNCHANGED <<flash, state_vars, cache_vars, host_vars, ghost_vars>>
    BY <1>2 DEF is_write_done_check
  <2>2. MainType'
    BY <1>1, <1>2 DEF is_write_done_check, MainType, CacheType
  <2> QED
    BY <1>1, <2>1, <2>2
    DEF Uf2Type, FlashType, StateType, CacheType, HostType, GhostType, state_vars,
        cache_vars, host_vars, ghost_vars
<1>3. ASSUME NEW ok \in BOOLEAN, flash_flush_erase(ok) PROVE Uf2Type'
  <2>1. UNCHANGED <<state_vars, cache_vars, flushing, configured, file, next, torn>>
    BY <1>3 DEF flash_flush_erase
  <2>2. FlashType(flash)'
    <3>1. FlashType(Erased(flash, flushing.at, flushing.n))
      BY <1>1, ErasedType
    <3>2. flash' = IF ok THEN Erased(flash, flushing.at, flushing.n) ELSE flash
      BY <1>3 DEF flash_flush_erase
    <3> QED
      BY <1>1, <3>1, <3>2 DEF FlashType
  <2>3. MainType' /\ GhostType'
    BY <1>1, <1>3, <2>1 DEF flash_flush_erase, MainType, GhostType
  <2>4. HostType'
    <3>1. (disturbed \subseteq Kinds)'
      BY <1>1, <1>3, DisturbType DEF flash_flush_erase, HostType, Kinds
    <3> QED
      BY <1>1, <2>1, <3>1 DEF HostType
  <2> QED
    BY <1>1, <2>1, <2>2, <2>3, <2>4 DEF Uf2Type, StateType, CacheType, state_vars, cache_vars
<1>4. ASSUME NEW done \in 0 .. CacheBlocks, flash_flush_program(done) PROVE Uf2Type'
  <2>1. UNCHANGED <<state_vars, cache_vars, flushing, configured, file, next, ghost_vars>>
    BY <1>4 DEF flash_flush_program
  <2>2. FlashType(flash)'
    <3>1. FlashType(Programmed(flash, flushing.at, cache, done))
      <4>1. flushing.at \in Nat /\ done \in Int /\ done <= CacheBlocks
        BY <1>1, Sizes DEF MainType, Address
      <4> QED
        BY <1>1, <4>1, ProgrammedType
    <3> QED
      BY <1>4, <3>1 DEF flash_flush_program, FlashType
  <2>3. MainType' /\ GhostType'
    BY <1>1, <1>4, <2>1 DEF flash_flush_program, MainType, GhostType, ghost_vars
  <2>4. HostType'
    <3>1. (disturbed \subseteq Kinds)'
      BY <1>1, <1>4, DisturbType DEF flash_flush_program, HostType, Kinds
    <3> QED
      BY <1>1, <2>1, <3>1 DEF HostType
  <2> QED
    BY <1>1, <2>1, <2>2, <2>3, <2>4 DEF Uf2Type, StateType, CacheType, state_vars, cache_vars
<1>5. ASSUME flash_flush_empty PROVE Uf2Type'
  <2>1. UNCHANGED <<flash, state_vars, cache, cached_address, flushing, host_vars, ghost_vars>>
    BY <1>5 DEF flash_flush_empty
  <2>2. CacheType'
    BY <1>1, <1>5, <2>1, Sizes DEF flash_flush_empty, CacheType
  <2>3. MainType'
    BY <1>1, <1>5, <2>1 DEF flash_flush_empty, MainType
  <2> QED
    BY <1>1, <2>1, <2>2, <2>3
    DEF Uf2Type, FlashType, StateType, HostType, GhostType, state_vars, host_vars, ghost_vars
<1>6. ASSUME upgrade_reset PROVE Uf2Type'
  BY <1>1, <1>6, RamType DEF upgrade_reset
<1> QED
  BY <1>2, <1>3, <1>4, <1>5, <1>6 DEF main

LEMMA Uf2TypeStep == Uf2Type /\ [Next]_vars => Uf2Type'
<1> SUFFICES ASSUME Uf2Type, [Next]_vars PROVE Uf2Type'
  OBVIOUS
<1>1. ASSUME UNCHANGED uf2_vars PROVE Uf2Type'
  BY <1>1 DEF Uf2Type, FlashType, StateType, CacheType, MainType, HostType, GhostType,
     uf2_vars, state_vars, cache_vars, main_vars, host_vars, ghost_vars
<1>2. ASSUME NEW cause \in Causes, other_reset(cause) PROVE Uf2Type'
  <2>1. torn' \in BOOLEAN /\ Ram
    BY <1>2 DEF other_reset
  <2> QED
    BY <2>1, RamType DEF Uf2Type
<1> QED
  BY <1>1, <1>2, UsbType, MainType1 DEF Next, boot, vars

LEMMA Uf2TypeInit ==
  ASSUME Init
  PROVE  Uf2Type
<1>1. 0 \in Address /\ 0 \in 0 .. CacheBlocks
  BY Sizes DEF Address
<1>2. FlashType(flash)
  BY DEF Init, FlashType
<1>3. StateType
  BY FS_EmptySet, Sizes DEF Init, StateType
<1>4. CacheType /\ MainType
  BY <1>1 DEF Init, CacheType, MainType
<1>5. HostType /\ GhostType
  BY FirstIsFile DEF Init, HostType, GhostType
<1> QED
  BY <1>2, <1>3, <1>4, <1>5 DEF Uf2Type

(* Every variable of the bootloader keeps its type, for files of any length  *)
(* and whichever flash operation fails: the cache never holds more than it   *)
(* has room for, and block_max, not the size of the mask, is what bounds the *)
(* bits that are set.                                                        *)
THEOREM TypeCorrect == Spec => []TypeOK
<1>1. Init => Uf2Type
  BY Uf2TypeInit
<1>2. Uf2Type /\ BlTypeOK => TypeOK
  <2> SUFFICES ASSUME Uf2Type, BlTypeOK PROVE TypeOK
    OBVIOUS
  <2>1. number_of_written \in 0 .. BlockMax
    BY MaskBound DEF Uf2Type
  <2>2. {configured, touched, torn} \subseteq BOOLEAN
    BY Zenon DEF Uf2Type, HostType, GhostType
  <2> QED
    BY <2>1, <2>2
    DEF Uf2Type, TypeOK, FlashType, StateType, CacheType, MainType, HostType, Address
<1> QED
  BY <1>1, <1>2, Uf2TypeStep, BootRefines, BlTypeCorrect, PTL DEF Spec

-----------------------------------------------------------------------------
(* What STATE->NumberOfBlock means, whatever is downloaded: 0 if no block is *)
(* counted, the number that all the counted blocks carry, or Never; and a    *)
(* block that is counted is below a number that is.                          *)
Complete ==
  /\ number_of_block = 0 => counted = {}
  /\ number_of_block \notin {0, Never} => counted = {number_of_block}
  /\ \A b \in mask : \E n \in counted : b < n

LEMMA CompleteStep == Uf2Type /\ Complete /\ [Next]_vars => Complete'
<1> SUFFICES ASSUME Uf2Type, Complete, [Next]_vars PROVE Complete'
  OBVIOUS
<1>1. ASSUME UNCHANGED state_vars PROVE Complete'
  BY <1>1 DEF state_vars, Complete
<1>2. ASSUME Ram PROVE Complete'
  BY <1>2 DEF Ram, Complete
<1>3. ASSUME NEW b \in 0 .. Length[file] - 1, NEW done, write_block(b, done) PROVE Complete'
  <2>1. file \in Images /\ StateType /\ HostType
    BY DEF Uf2Type, HostType
  <2>2. Length[file] \in Nat \ {0} /\ b \in Nat
    BY <2>1, LengthOf
  <2>3. mask' = mask \cup {b} /\ counted' = counted \cup {Length[file]} /\ b < Length[file]
    BY <1>3, <2>1, <2>2, CountType DEF write_block, state_update, Count
  <2>4. /\ number_of_block' = 0 => counted' = {}
        /\ number_of_block' \notin {0, Never} => counted' = {number_of_block'}
    BY <1>3, <2>2, <2>3 DEF write_block, state_update, Complete, Never
  <2>5. \A c \in mask' : \E n \in counted' : c < n
    BY <2>3, Zenon DEF Complete
  <2> QED
    BY <2>4, <2>5 DEF Complete
<1>4. ASSUME usb PROVE Complete'
  <2>1. ASSUME NEW b \in 0 .. Length[file] - 1, NEW done, write_sector(b, done) PROVE Complete'
    BY <1>1, <1>3, <2>1, Zenon DEF write_sector, ignore_block
  <2>2. ASSUME bootuf2_init \/ \E f \in Images : copy_file(f) PROVE Complete'
    BY <1>1, <2>2, Zenon DEF bootuf2_init, copy_file
  <2> QED
    BY <1>4, <2>1, <2>2, Zenon DEF usb
<1>5. ASSUME main PROVE Complete'
  BY <1>1, <1>2, <1>5, Zenon DEF main, is_write_done_check, flash_flush_erase,
     flash_flush_program, flash_flush_empty, upgrade_reset
<1>6. ASSUME boot \/ UNCHANGED vars PROVE UNCHANGED state_vars
  BY <1>6 DEF boot, vars, uf2_vars
<1>7. ASSUME \E cause \in Causes : other_reset(cause) PROVE Complete'
  BY <1>2, <1>7, Zenon DEF other_reset
<1> QED
  BY <1>1, <1>4, <1>5, <1>6, <1>7, Zenon DEF Next

(* main leaves its polling only when every block of the files it counted has *)
(* been accepted, and these agree on a number below BOOTUF2_BLOCKSMAX: for   *)
(* files of any length, blocks in any order, repeated or skipped, bits set   *)
(* behind the mask, other files in between, enumerations and flash errors.   *)
THEOREM ResetCorrect == Spec => ResetsOnlyWhenComplete
<1>1. Init => Uf2Type /\ Complete
  BY Uf2TypeInit DEF Init, Complete
<1>2. Uf2Type /\ Complete /\ [Next]_vars => (Uf2Type /\ Complete)'
  BY Uf2TypeStep, CompleteStep
<1>3. ASSUME Uf2Type, Complete, [Next]_vars, main_pc = "poll", main_pc' # "poll"
      PROVE  \E n \in counted : counted = {n} /\ n < BlocksMax /\ mask = 0 .. n - 1
  <2>1. is_write_done_check
    <3>1. ASSUME boot \/ UNCHANGED vars PROVE UNCHANGED main_pc
      BY <3>1 DEF boot, vars, uf2_vars, main_vars
    <3>2. ASSUME usb PROVE UNCHANGED main_pc
      BY <3>2 DEF usb, write_sector, bootuf2_init, copy_file, main_vars
    <3>3. ASSUME NEW cause, other_reset(cause) PROVE main_pc' = "poll"
      BY <3>3 DEF other_reset, Ram
    <3>4. ASSUME main PROVE is_write_done_check
      BY <1>3, <3>4 DEF main, flash_flush_erase, flash_flush_program, flash_flush_empty,
         upgrade_reset, InUf2
    <3> QED
      BY <1>3, <3>1, <3>2, <3>3, <3>4, Zenon DEF Next
  <2>2. PICK n \in Nat \ {0} : n = number_of_block /\ n < BlocksMax
    BY <1>3, <2>1, Sizes DEF is_write_done_check, state_check, Uf2Type, StateType, Never
  <2>3. n <= Cardinality(mask) /\ IsFiniteSet(mask) /\ counted = {n}
    BY <1>3, <2>1, <2>2, MaskBound
    DEF is_write_done_check, state_check, Uf2Type, StateType, Complete, Never
  <2>4. mask \in SUBSET (0 .. n - 1)
    <3>1. \A b \in mask : b \in Nat
      BY <1>3 DEF Uf2Type, StateType, Address
    <3>2. \A b \in mask : b < n
      BY <1>3, <2>3, Zenon DEF Complete
    <3> QED
      BY <2>2, <3>1, <3>2
  <2>5. IsFiniteSet(0 .. n - 1) /\ Cardinality(0 .. n - 1) = n
    <3>1. n - 1 \in Int /\ 0 \in Int
      OBVIOUS
    <3> QED
      BY <3>1, FS_Interval
  <2>6. /\ Cardinality(mask) <= Cardinality(0 .. n - 1)
        /\ Cardinality(0 .. n - 1) = Cardinality(mask) => 0 .. n - 1 = mask
    BY <2>4, <2>5, FS_Subset
  <2>7. Cardinality(mask) \in Nat
    BY <2>3, FS_CardinalityType
  <2>8. mask = 0 .. n - 1
    BY <2>3, <2>5, <2>6, <2>7
  <2> QED
    BY <2>2, <2>3, <2>8
<1>4. Uf2Type /\ Complete /\ [Next]_vars =>
        [main_pc = "poll" /\ main_pc' # "poll" =>
           \E n \in counted : counted = {n} /\ n < BlocksMax /\ mask = 0 .. n - 1]_vars
  BY <1>3
<1> QED
  BY <1>1, <1>2, <1>4, PTL DEF Spec, ResetsOnlyWhenComplete

-----------------------------------------------------------------------------
(* A session that nothing upset: the blocks counted are the first ones of    *)
(* the file; those before the cache are in flash, the cache holds the rest   *)
(* and starts on a sector; main flushes what is cached, all of the file by   *)
(* then.                                                                     *)
Filled(f, from, to, what) == \A p \in from .. to - 1 : f[p] = what

Counting ==
  /\ mask = 0 .. number_of_written - 1 /\ next <= number_of_written
  /\ number_of_written <= Length[file]
  /\ number_of_block = IF number_of_written = 0 THEN 0
                       ELSE IF Length[file] < BlocksMax THEN Length[file] ELSE Never
  /\ main_pc = "poll" \/ number_of_written = Length[file]

Caching ==
  /\ cached_address + cached_bytes = number_of_written
  /\ cached_address % SectorBlocks = 0 /\ cached_address <= Pages
  /\ number_of_written > 0 => cached_bytes > 0
  /\ Filled(cache, 1, cached_bytes + 1, file) /\ Filled(flash, 0, cached_address, file)

Flushing ==
  /\ main_pc \in {"erase", "program", "empty"} =>
       flushing = [at |-> cached_address, n |-> cached_bytes]
  /\ main_pc = "program" =>
       /\ cached_address + cached_bytes <= Pages
       /\ Filled(flash, cached_address, cached_address + cached_bytes, Blank)
  /\ main_pc \in {"empty", "reset"} =>
       Length[file] <= Pages /\ Filled(flash, 0, Length[file], file)

Undisturbed ==
  disturbed = {} => Counting /\ (main_pc # "reset" => Caching) /\ Flushing

(* What a flush erases, if the cache starts on a sector: its own pages, and  *)
(* none before them.                                                         *)
LEMMA FlushErases ==
  ASSUME NEW f, NEW at \in Nat, NEW n \in 0 .. CacheBlocks, at % SectorBlocks = 0,
         at + n <= Pages, NEW image, Filled(f, 0, at, image)
  PROVE  /\ Filled(Erased(f, at, n), 0, at, image)
         /\ Filled(Erased(f, at, n), at, at + n, Blank)
<1>1. n \in Nat /\ EraseBlocks % SectorBlocks = 0
  BY Sizes, Uf2Assumption
<1>2. PICK len \in Nat : len = aligned_size(n, SectorBlocks) /\ n <= len
  BY <1>1, AlignedSize, Sizes
<1>3. erase(at, n, SectorBlocks, EraseBlocks) = at .. at + len - 1
  BY <1>1, <1>2, EraseOnSector, Sizes
<1>4. Erased(f, at, n) = [p \in Page |-> IF p \in at .. at + len - 1 THEN Blank ELSE f[p]]
  BY <1>3 DEF Erased
<1>5. \A p \in 0 .. at - 1 : p \in Page /\ p \notin at .. at + len - 1
  BY <1>1, Sizes DEF Page
<1>6. \A p \in at .. at + n - 1 : p \in Page /\ p \in at .. at + len - 1
  BY <1>1, <1>2, Sizes DEF Page
<1>7. \A p \in 0 .. at - 1 : Erased(f, at, n)[p] = f[p]
  BY <1>4, <1>5
<1>8. \A p \in at .. at + n - 1 : Erased(f, at, n)[p] = Blank
  BY <1>4, <1>6
<1> QED
  BY <1>1, <1>7, <1>8 DEF Filled

(* What it programs over blank pages: the cache, after what was there.       *)
LEMMA FlushPrograms ==
  ASSUME NEW f, NEW at \in Nat, NEW n \in 0 .. CacheBlocks, at + n <= Pages, NEW image,
         Filled(f, 0, at, image), Filled(f, at, at + n, Blank), Filled(cache, 1, n + 1, image)
  PROVE  Filled(Programmed(f, at, cache, n), 0, at + n, image)
<1>1. n \in Nat
  BY Sizes
<1> SUFFICES ASSUME NEW p \in 0 .. at + n - 1
             PROVE  Programmed(f, at, cache, n)[p] = image
  BY <1>1 DEF Filled
<1>2. p \in Page
  BY <1>1, Sizes DEF Page
<1>3. CASE p \in at .. at + n - 1
  <2>1. p - at + 1 \in 1 .. n + 1 - 1
    BY <1>1, <1>3
  <2>2. cache[p - at + 1] = image /\ f[p] = Blank
    BY <1>1, <1>3, <2>1 DEF Filled
  <2> QED
    BY <1>2, <1>3, <2>2 DEF Programmed
<1>4. CASE p \notin at .. at + n - 1
  <2>1. p \in 0 .. at - 1
    BY <1>1, <1>4
  <2> QED
    BY <1>2, <1>4, <2>1 DEF Programmed, Filled
<1> QED
  BY <1>3, <1>4

LEMMA NotDisturbed ==
  ASSUME NEW what, Disturb(what), disturbed' = {}
  PROVE  what = {} /\ disturbed = {}
  BY DEF Disturb

LEMMA SumOnSector ==
  ASSUME NEW at \in Nat, at % SectorBlocks = 0
  PROVE  (at + CacheBlocks) % SectorBlocks = 0
<1>1. SectorBlocks \in Nat \ {0} /\ CacheBlocks \in Nat /\ CacheBlocks % SectorBlocks = 0
  BY Sizes, Uf2Assumption
<1>2. PICK x \in Int : at = x * SectorBlocks
  <2>1. at \div SectorBlocks \in Int /\ at = (at \div SectorBlocks) * SectorBlocks
    BY <1>1, Quotient
  <2> QED
    BY <2>1
<1>3. PICK y \in Int : CacheBlocks = y * SectorBlocks
  <2>1. /\ CacheBlocks \div SectorBlocks \in Int
        /\ CacheBlocks = (CacheBlocks \div SectorBlocks) * SectorBlocks
    BY <1>1, Quotient
  <2> QED
    BY <2>1
<1>4. PICK z \in Int : z = x + y /\ at + CacheBlocks = z * SectorBlocks
  BY <1>1, <1>2, <1>3
<1>5. (z * SectorBlocks) % SectorBlocks = 0
  BY <1>1, OfMultiple
<1> QED
  BY <1>4, <1>5

LEMMA FilledMore ==
  ASSUME NEW c \in [1 .. CacheBlocks -> Images \cup {Blank, Bad}], NEW f \in Images,
         NEW n \in Nat, n < CacheBlocks, Filled(c, 1, n + 1, f)
  PROVE  Filled([c EXCEPT ![n + 1] = f], 1, (n + 1) + 1, f)
<1> SUFFICES ASSUME NEW p \in 1 .. (n + 1) + 1 - 1
             PROVE  [c EXCEPT ![n + 1] = f][p] = f
  BY DEF Filled
<1>1. p \in 1 .. CacheBlocks /\ (p = n + 1 \/ p \in 1 .. n + 1 - 1)
  BY Sizes
<1> QED
  BY <1>1 DEF Filled

(* The ranges of the variables, as numbers.                                  *)
LEMMA Ranges ==
  ASSUME Uf2Type
  PROVE  /\ file \in Images /\ next \in Nat /\ number_of_written \in Nat
         /\ Length[file] \in Nat \ {0}
         /\ cached_bytes \in 0 .. CacheBlocks /\ cached_bytes \in Nat
         /\ cached_address \in Nat
<1>1. file \in Images /\ next \in Nat
  BY DEF Uf2Type, HostType
<1>2. cached_bytes \in 0 .. CacheBlocks /\ cached_bytes \in Nat /\ cached_address \in Nat
  BY DEF Uf2Type, CacheType, Address
<1>3. number_of_written \in 0 .. BlockMax
  BY MaskBound DEF Uf2Type
<1>4. Length[file] \in Nat \ {0}
  BY <1>1, LengthOf
<1> QED
  BY <1>1, <1>2, <1>3, <1>4

(* A block of a session that stays undisturbed is one counted before, which  *)
(* is ignored, or the next one of the file; and main still polls then.       *)
LEMMA NextBlock ==
  ASSUME Uf2Type, Undisturbed, NEW b \in Nat, NEW done \in -1 .. CacheBlocks,
         write_sector(b, done), disturbed' = {}
  PROVE  /\ Counting /\ (main_pc # "reset" => Caching) /\ Flushing
         /\ disturbed = {} /\ b <= next /\ done = cached_bytes /\ b < MaskBits
         /\ b < Length[file]
         /\ \/ ignore_block(b, done) /\ b \in mask
            \/ /\ write_block(b, done) /\ check_writable(b)
               /\ b = number_of_written /\ next = b /\ main_pc = "poll"
<1>1. b < Length[file]
  BY Ranges DEF write_sector
<1>2. /\ disturbed = {} /\ ~(b > next) /\ done = cached_bytes /\ ~(b >= MaskBits)
  <2>1. CASE write_block(b, done)
    <3>1. Disturb((IF b > next THEN {"order"} ELSE {})
                  \cup (IF done # cached_bytes /\ ~Refused(b) THEN {"flash"} ELSE {})
                  \cup (IF Refused(b) \/ b >= MaskBits THEN {"bounds"} ELSE {}))
      BY <2>1 DEF write_block
    <3>2. /\ disturbed = {} /\ ~(b > next) /\ ~(done # cached_bytes /\ ~Refused(b))
          /\ ~(Refused(b) \/ b >= MaskBits)
      BY <3>1, NotDisturbed
    <3> QED
      BY <3>2
  <2>2. CASE ignore_block(b, done)
    <3>1. /\ done = cached_bytes
          /\ Disturb((IF b > next THEN {"order"} ELSE {})
                     \cup (IF b >= MaskBits THEN {"bounds"} ELSE {}))
      BY <2>2 DEF ignore_block
    <3> QED
      BY <3>1, NotDisturbed
  <2> QED
    BY <2>1, <2>2 DEF write_sector
<1>3. Counting /\ (main_pc # "reset" => Caching) /\ Flushing
  BY <1>2 DEF Undisturbed
<1>4. next \in Nat /\ number_of_written \in Nat /\ Length[file] \in Nat \ {0}
  BY Ranges
<1>5. b < BlockMax /\ b < MaskBits /\ b <= next
  BY <1>2, <1>4, Sizes
<1>6. ASSUME ignore_block(b, done) PROVE b \in mask
  BY <1>2, <1>4, <1>5, <1>6 DEF ignore_block, check_writable
<1>7. ASSUME write_block(b, done)
      PROVE  check_writable(b) /\ b = number_of_written /\ next = b /\ main_pc = "poll"
  <2>1. check_writable(b) /\ b \notin 0 .. number_of_written - 1
    BY <1>3, <1>7 DEF write_block, check_writable, Counting
  <2>2. next <= number_of_written
    BY <1>3 DEF Counting
  <2>3. b = number_of_written /\ next = b
    BY <1>4, <1>5, <2>1, <2>2
  <2> QED
    BY <1>1, <1>3, <1>4, <2>1, <2>3 DEF Counting
<1> QED
  BY <1>1, <1>2, <1>3, <1>5, <1>6, <1>7 DEF write_sector

LEMMA WriteUndisturbed ==
  ASSUME Uf2Type, Undisturbed, NEW b \in Nat, NEW done \in -1 .. CacheBlocks,
         write_sector(b, done)
  PROVE  Undisturbed'
<1> SUFFICES ASSUME disturbed' = {}
             PROVE  (Counting /\ (main_pc # "reset" => Caching) /\ Flushing)'
  BY DEF Undisturbed
<1>1. /\ Counting /\ (main_pc # "reset" => Caching) /\ Flushing
      /\ disturbed = {} /\ b <= next /\ done = cached_bytes /\ b < MaskBits
      /\ b < Length[file]
      /\ \/ ignore_block(b, done) /\ b \in mask
         \/ /\ write_block(b, done) /\ check_writable(b)
            /\ b = number_of_written /\ next = b /\ main_pc = "poll"
  BY NextBlock
<1>2. /\ UNCHANGED <<main_pc, flushing, file>>
      /\ next' = IF b = next THEN next + 1 ELSE next
  BY DEF write_sector, main_vars
<1>3. /\ file \in Images /\ next \in Nat /\ number_of_written \in Nat
      /\ Length[file] \in Nat \ {0}
      /\ cached_bytes \in 0 .. CacheBlocks /\ cached_bytes \in Nat
      /\ cached_address \in Nat
      /\ cache \in [1 .. CacheBlocks -> Images \cup {Blank, Bad}]
      /\ FlashType(flash)
  BY Ranges DEF Uf2Type, CacheType
<1>4. CASE ignore_block(b, done) /\ b \in mask
  <2>1. /\ UNCHANGED <<flash, number_of_block, number_of_written, mask>>
        /\ UNCHANGED <<cache, cached_bytes, cached_address>>
    BY <1>4 DEF ignore_block, state_vars, cache_vars
  <2>2. b < number_of_written
    BY <1>1, <1>3, <1>4 DEF Counting
  <2>3. next' <= number_of_written
    BY <1>1, <1>2, <1>3, <2>2 DEF Counting
  <2>4. Counting'
    BY <1>1, <1>2, <2>1, <2>3 DEF Counting
  <2>5. Caching => Caching'
    BY <1>2, <2>1 DEF Caching
  <2>6. Flushing'
    BY <1>1, <1>2, <2>1 DEF Flushing
  <2> QED
    BY <1>1, <1>2, <2>4, <2>5, <2>6
<1>5. CASE /\ write_block(b, done) /\ check_writable(b)
           /\ b = number_of_written /\ next = b /\ main_pc = "poll"
  <2>1. flash_write_internal(b, done) /\ state_update(b)
    BY <1>5 DEF write_block
  <2>2. b = number_of_written /\ next = b /\ main_pc = "poll" /\ Caching
    BY <1>1, <1>5
  <2>3. /\ number_of_written' = number_of_written + 1 /\ next' = number_of_written + 1
        /\ mask' = mask \cup {b}
    BY <1>2, <1>5, <2>1, CountType DEF Uf2Type
  <2>4. Counting'
    <3>1. mask' = 0 .. number_of_written' - 1
      BY <1>1, <1>3, <2>2, <2>3 DEF Counting
    <3>2. number_of_block' = IF Length[file] < BlocksMax THEN Length[file] ELSE Never
      <4>1. number_of_block \in
              {0, IF Length[file] < BlocksMax THEN Length[file] ELSE Never}
        BY <1>1 DEF Counting
      <4> QED
        BY <1>3, <2>1, <4>1, Sizes DEF state_update, Never
    <3> QED
      BY <1>1, <1>2, <1>3, <2>2, <2>3, <3>1, <3>2 DEF Counting
  <2>5. Flushing'
    BY <1>2, <2>2 DEF Flushing
  <2>6. CASE needs_flush(b)
    <3>1. cached_bytes = CacheBlocks
      BY <2>2, <2>6 DEF needs_flush, Caching
    <3>2. Put(b, 0)
      BY <1>1, <2>1, <2>6 DEF flash_write_internal
    <3> DEFINE e == Erased(flash, cached_address, cached_bytes)
    <3>3. /\ flash' = Programmed(e, cached_address, cache, cached_bytes)
          /\ cached_address + cached_bytes <= Pages
      BY <1>1, <1>3, <2>1, <2>6 DEF flash_write_internal, bootuf2_flash_write, Fits
    <3>4. b = cached_address + cached_bytes /\ b <= Pages
      BY <2>2, <3>3 DEF Caching
    <3>5. cached_address + cached_bytes <= Pages /\ cached_address % SectorBlocks = 0
      BY <2>2, <3>3 DEF Caching
    <3>6. Filled(e, 0, cached_address, file)
          /\ Filled(e, cached_address, cached_address + cached_bytes, Blank)
      BY <1>3, <2>2, <3>5, FlushErases DEF Caching
    <3> HIDE DEF e
    <3>7. Filled(flash', 0, cached_address + cached_bytes, file)
      BY <1>3, <2>2, <3>3, <3>5, <3>6, FlushPrograms DEF Caching
    <3>8. Filled(flash', 0, b, file)
      BY <3>4, <3>7
    <3>9. cached_address' = b /\ cached_bytes' = 1 /\ cache' = [cache EXCEPT ![1] = file]
      BY <1>1, <3>2 DEF Put, Spoilt
    <3>10. b % SectorBlocks = 0
      BY <1>3, <2>2, <3>1, <3>4, SumOnSector DEF Caching
    <3>11. Filled(cache', 1, 1 + 1, file)
      BY <1>3, <3>9, Sizes DEF Filled
    <3>12. Caching'
      BY <1>1, <1>2, <2>2, <2>3, <3>4, <3>8, <3>9, <3>10, <3>11 DEF Caching
    <3> QED
      BY <2>4, <2>5, <3>12
  <2>7. CASE ~needs_flush(b)
    <3>1. Put(b, cached_bytes) /\ UNCHANGED flash
      BY <2>1, <2>7 DEF flash_write_internal
    <3>2. cached_bytes # CacheBlocks /\ cached_address + cached_bytes = b
      BY <2>2, <2>7 DEF needs_flush, Caching
    <3>3. /\ cached_address' = cached_address /\ cached_bytes' = cached_bytes + 1
          /\ cache' = [cache EXCEPT ![cached_bytes + 1] = file]
      BY <1>1, <1>3, <3>1, <3>2 DEF Put, Spoilt
    <3>4. Filled(cache', 1, (cached_bytes + 1) + 1, file)
      <4>1. Filled(cache, 1, cached_bytes + 1, file)
        BY <2>2 DEF Caching
      <4>2. cached_bytes < CacheBlocks
        BY <1>3, <3>2, Sizes
      <4> QED
        BY <1>3, <3>3, <4>1, <4>2, FilledMore
    <3>5. cached_address' + cached_bytes' = number_of_written' /\ cached_bytes' > 0
      BY <1>3, <2>2, <2>3, <3>2, <3>3
    <3>6. Caching'
      BY <1>2, <2>2, <3>1, <3>3, <3>4, <3>5 DEF Caching
    <3> QED
      BY <2>4, <2>5, <3>6
  <2> QED
    BY <2>6, <2>7
<1> QED
  BY <1>1, <1>4, <1>5

LEMMA InitUndisturbed ==
  ASSUME Init
  PROVE  Undisturbed
<1>1. file \in Images
  BY FirstIsFile DEF Init
<1>2. Length[file] \in Nat \ {0}
  BY <1>1, LengthOf
<1>3. 0 % SectorBlocks = 0 /\ 0 <= Pages
  BY Sizes
<1>4. Counting
  BY <1>2 DEF Init, Counting
<1>5. Caching
  BY <1>3 DEF Init, Caching, Filled
<1>6. Flushing
  BY DEF Init, Flushing
<1> QED
  BY <1>4, <1>5, <1>6 DEF Undisturbed

LEMMA RamUndisturbed ==
  ASSUME Ram
  PROVE  Undisturbed'
<1>1. /\ number_of_block' = 0 /\ number_of_written' = 0 /\ mask' = {}
      /\ cached_bytes' = 0 /\ cached_address' = 0 /\ main_pc' = "poll"
      /\ file' \in Images /\ next' = 0
  BY FirstIsFile DEF Ram
<1>2. Length[file'] \in Nat \ {0}
  BY <1>1, LengthOf
<1>3. 0 % SectorBlocks = 0 /\ 0 <= Pages
  BY Sizes
<1>4. Counting'
  BY <1>1, <1>2 DEF Counting
<1>5. Caching'
  BY <1>1, <1>3 DEF Caching, Filled
<1>6. Flushing'
  BY <1>1 DEF Flushing
<1> QED
  BY <1>4, <1>5, <1>6 DEF Undisturbed

(* An enumeration empties an empty cache, or upsets the session; a copy of   *)
(* another file upsets it unless no block was counted.                       *)
LEMMA UsbUndisturbed ==
  ASSUME Uf2Type, Undisturbed, usb
  PROVE  Undisturbed'
<1>1. /\ file \in Images /\ number_of_written \in Nat /\ cached_bytes \in Nat
      /\ cached_address \in Nat /\ Length[file] \in Nat \ {0}
  BY Ranges
<1>2. ASSUME bootuf2_init PROVE Undisturbed'
  <2> SUFFICES ASSUME disturbed' = {}
               PROVE  (Counting /\ (main_pc # "reset" => Caching) /\ Flushing)'
    BY DEF Undisturbed
  <2>1. disturbed = {} /\ cached_bytes = 0
    BY <1>2, NotDisturbed DEF bootuf2_init
  <2>2. Counting /\ (main_pc # "reset" => Caching) /\ Flushing
    BY <2>1 DEF Undisturbed
  <2>3. /\ UNCHANGED <<flash, number_of_block, number_of_written, mask, cache>>
        /\ UNCHANGED <<main_pc, flushing, file, next>>
        /\ cached_bytes' = 0 /\ cached_address' = 0
    BY <1>2 DEF bootuf2_init, state_vars, main_vars
  <2>4. Counting'
    BY <2>2, <2>3 DEF Counting
  <2>5. ASSUME main_pc # "reset" PROVE cached_address = 0 /\ main_pc = "poll" /\ Caching'
    <3>1. Caching
      BY <2>2, <2>5
    <3>2. number_of_written = 0 /\ cached_address = 0
      BY <1>1, <2>1, <3>1 DEF Caching
    <3>3. main_pc = "poll"
      BY <1>1, <2>2, <3>2 DEF Counting
    <3>4. Caching'
      BY <2>1, <2>3, <3>1, <3>2 DEF Caching
    <3> QED
      BY <3>2, <3>3, <3>4
  <2>6. Flushing'
    BY <2>2, <2>3, <2>5 DEF Flushing
  <2> QED
    BY <2>3, <2>4, <2>5, <2>6
<1>3. ASSUME NEW f \in Images, copy_file(f) PROVE Undisturbed'
  <2> SUFFICES ASSUME disturbed' = {}
               PROVE  (Counting /\ (main_pc # "reset" => Caching) /\ Flushing)'
    BY DEF Undisturbed
  <2>1. disturbed = {} /\ (f = file \/ mask = {})
    BY <1>3, NotDisturbed DEF copy_file
  <2>2. Counting /\ (main_pc # "reset" => Caching) /\ Flushing
    BY <2>1 DEF Undisturbed
  <2>3. /\ UNCHANGED <<flash, number_of_block, number_of_written, mask>>
        /\ UNCHANGED <<cache, cached_bytes, cached_address, main_pc, flushing>>
        /\ file' = f /\ next' = 0
    BY <1>3 DEF copy_file, state_vars, cache_vars, main_vars
  <2>4. CASE f = file
    <3>1. Counting'
      BY <1>1, <2>2, <2>3, <2>4 DEF Counting
    <3>2. Caching => Caching'
      BY <2>3, <2>4 DEF Caching
    <3>3. Flushing'
      BY <2>2, <2>3, <2>4 DEF Flushing
    <3> QED
      BY <2>2, <2>3, <3>1, <3>2, <3>3
  <2>5. CASE mask = {}
    <3>1. number_of_written = 0
      BY <1>1, <2>2, <2>5 DEF Counting
    <3>2. main_pc = "poll"
      BY <1>1, <2>2, <3>1 DEF Counting
    <3>3. Length[f] \in Nat \ {0}
      BY LengthOf
    <3>4. Counting'
      BY <2>2, <2>3, <3>1, <3>2, <3>3 DEF Counting
    <3>5. cached_bytes = 0 /\ cached_address = 0 /\ Caching
      BY <1>1, <2>2, <3>1, <3>2 DEF Caching
    <3>6. Caching'
      BY <2>3, <3>1, <3>5 DEF Caching, Filled
    <3>7. Flushing'
      BY <2>3, <3>2 DEF Flushing
    <3> QED
      BY <3>4, <3>6, <3>7
  <2> QED
    BY <2>1, <2>4, <2>5
<1>4. ASSUME NEW b \in 0 .. Length[file] - 1, NEW done \in -1 .. CacheBlocks,
             write_sector(b, done)
      PROVE  Undisturbed'
  <2>1. b \in Nat
    BY <1>1
  <2> QED
    BY <1>4, <2>1, WriteUndisturbed
<1> QED
  BY <1>2, <1>3, <1>4 DEF usb

(* main finds the file complete only when every block is counted, and leaves *)
(* its flush with the whole of it in flash.                                  *)
LEMMA MainUndisturbed ==
  ASSUME Uf2Type, Undisturbed, main
  PROVE  Undisturbed'
<1>1. /\ file \in Images /\ number_of_written \in Nat /\ Length[file] \in Nat \ {0}
      /\ cached_bytes \in Nat /\ cached_address \in Nat
      /\ cached_bytes \in 0 .. CacheBlocks
  BY Ranges
<1>2. ASSUME is_write_done_check PROVE Undisturbed'
  <2> SUFFICES ASSUME disturbed' = {}
               PROVE  (Counting /\ (main_pc # "reset" => Caching) /\ Flushing)'
    BY DEF Undisturbed
  <2>1. /\ UNCHANGED <<flash, number_of_block, number_of_written, mask>>
        /\ UNCHANGED <<cache, cached_bytes, cached_address, file, next, disturbed>>
        /\ main_pc = "poll" /\ state_check
        /\ main_pc' = (IF cached_bytes = 0 THEN "reset" ELSE "erase")
        /\ flushing' = [at |-> cached_address, n |-> cached_bytes]
    BY <1>2 DEF is_write_done_check, InUf2, state_vars, cache_vars, host_vars
  <2>2. Counting /\ Caching /\ Flushing
    BY <2>1 DEF Undisturbed
  <2>3. number_of_written = Length[file]
    BY <1>1, <2>1, <2>2 DEF state_check, Counting
  <2>4. main_pc' = "erase"
    BY <1>1, <2>1, <2>2, <2>3 DEF Caching
  <2>5. Counting'
    BY <2>1, <2>2, <2>3 DEF Counting
  <2>6. Caching'
    BY <2>1, <2>2 DEF Caching
  <2>7. Flushing'
    BY <2>1, <2>4 DEF Flushing
  <2> QED
    BY <2>5, <2>6, <2>7
<1>3. ASSUME NEW ok \in BOOLEAN, flash_flush_erase(ok) PROVE Undisturbed'
  <2> SUFFICES ASSUME disturbed' = {}
               PROVE  (Counting /\ (main_pc # "reset" => Caching) /\ Flushing)'
    BY DEF Undisturbed
  <2>1. disturbed = {} /\ ok /\ Fits(flushing.at, flushing.n)
    BY <1>3, NotDisturbed DEF flash_flush_erase
  <2>2. /\ UNCHANGED <<number_of_block, number_of_written, mask>>
        /\ UNCHANGED <<cache, cached_bytes, cached_address, flushing, file, next>>
        /\ main_pc = "erase" /\ main_pc' = "program"
        /\ flash' = Erased(flash, flushing.at, flushing.n)
    BY <1>3, <2>1 DEF flash_flush_erase, InUf2, state_vars, cache_vars
  <2>3. Counting /\ Caching /\ Flushing
    BY <2>1, <2>2 DEF Undisturbed
  <2>4. flushing = [at |-> cached_address, n |-> cached_bytes]
    BY <2>2, <2>3 DEF Flushing
  <2>5. cached_address + cached_bytes = Length[file]
    BY <2>2, <2>3 DEF Counting, Caching
  <2>6. flash' = Erased(flash, cached_address, cached_bytes)
    BY <2>2, <2>4
  <2>7. cached_address + cached_bytes <= Pages /\ cached_address % SectorBlocks = 0
    BY <2>1, <2>3, <2>4 DEF Caching, Fits
  <2>8. /\ Filled(flash', 0, cached_address, file)
        /\ Filled(flash', cached_address, cached_address + cached_bytes, Blank)
    BY <1>1, <2>3, <2>6, <2>7, FlushErases DEF Caching
  <2>9. Counting'
    BY <2>2, <2>3 DEF Counting
  <2>10. Caching'
    BY <2>2, <2>3, <2>8 DEF Caching
  <2>11. Flushing'
    BY <2>2, <2>4, <2>7, <2>8 DEF Flushing
  <2> QED
    BY <2>9, <2>10, <2>11
<1>4. ASSUME NEW done \in 0 .. CacheBlocks, flash_flush_program(done) PROVE Undisturbed'
  <2> SUFFICES ASSUME disturbed' = {}
               PROVE  (Counting /\ (main_pc # "reset" => Caching) /\ Flushing)'
    BY DEF Undisturbed
  <2>1. disturbed = {} /\ done = flushing.n
    BY <1>4, NotDisturbed DEF flash_flush_program
  <2>2. /\ UNCHANGED <<number_of_block, number_of_written, mask>>
        /\ UNCHANGED <<cache, cached_bytes, cached_address, flushing, file, next>>
        /\ main_pc = "program" /\ main_pc' = "empty"
        /\ flash' = Programmed(flash, flushing.at, cache, flushing.n)
    BY <1>4, <2>1 DEF flash_flush_program, InUf2, state_vars, cache_vars
  <2>3. Counting /\ Caching /\ Flushing
    BY <2>1, <2>2 DEF Undisturbed
  <2>4. flushing = [at |-> cached_address, n |-> cached_bytes]
    BY <2>2, <2>3 DEF Flushing
  <2>5. cached_address + cached_bytes = Length[file]
    BY <2>2, <2>3 DEF Counting, Caching
  <2>6. flash' = Programmed(flash, cached_address, cache, cached_bytes)
    BY <2>2, <2>4
  <2>7. /\ cached_address + cached_bytes <= Pages
        /\ Filled(flash, cached_address, cached_address + cached_bytes, Blank)
        /\ Filled(flash, 0, cached_address, file) /\ Filled(cache, 1, cached_bytes + 1, file)
    BY <1>1, <2>2, <2>3, <2>5 DEF Caching, Flushing
  <2>8. Filled(flash', 0, Length[file], file)
    BY <1>1, <2>5, <2>6, <2>7, FlushPrograms
  <2>9. Counting'
    BY <2>2, <2>3 DEF Counting
  <2>10. Filled(flash', 0, cached_address, file)
    BY <1>1, <2>5, <2>8 DEF Filled
  <2>11. Caching'
    BY <2>2, <2>3, <2>10 DEF Caching
  <2>12. Flushing'
    BY <2>2, <2>4, <2>5, <2>7, <2>8 DEF Flushing
  <2> QED
    BY <2>9, <2>11, <2>12
<1>5. ASSUME flash_flush_empty PROVE Undisturbed'
  <2> SUFFICES ASSUME disturbed' = {}
               PROVE  (Counting /\ (main_pc # "reset" => Caching) /\ Flushing)'
    BY DEF Undisturbed
  <2>1. /\ UNCHANGED <<flash, number_of_block, number_of_written, mask, flushing>>
        /\ UNCHANGED <<file, next, disturbed>> /\ main_pc = "empty" /\ main_pc' = "reset"
    BY <1>5 DEF flash_flush_empty, InUf2, state_vars, host_vars
  <2>2. Counting /\ Flushing
    BY <2>1 DEF Undisturbed
  <2>3. Counting'
    BY <2>1, <2>2 DEF Counting
  <2>4. Flushing'
    BY <2>1, <2>2 DEF Flushing
  <2> QED
    BY <2>1, <2>3, <2>4
<1>6. ASSUME upgrade_reset PROVE Undisturbed'
  BY <1>6, RamUndisturbed DEF upgrade_reset
<1> QED
  BY <1>2, <1>3, <1>4, <1>5, <1>6 DEF main

LEMMA UndisturbedStep ==
  ASSUME Uf2Type, Undisturbed, [Next]_vars
  PROVE  Undisturbed'
<1>1. ASSUME UNCHANGED uf2_vars PROVE Undisturbed'
  <2>1. /\ UNCHANGED <<flash, number_of_block, number_of_written, mask>>
        /\ UNCHANGED <<cache, cached_bytes, cached_address, main_pc, flushing>>
        /\ UNCHANGED <<file, next, disturbed>>
    BY <1>1 DEF uf2_vars, state_vars, cache_vars, main_vars, host_vars
  <2> QED
    BY <2>1 DEF Undisturbed, Counting, Caching, Flushing
<1>2. ASSUME NEW cause \in Causes, other_reset(cause) PROVE Undisturbed'
  BY <1>2, RamUndisturbed DEF other_reset
<1> QED
  BY <1>1, <1>2, UsbUndisturbed, MainUndisturbed DEF Next, boot, vars

LEMMA SessionCorrect == Spec => [](Uf2Type /\ Undisturbed)
<1>1. Init => Uf2Type /\ Undisturbed
  BY Uf2TypeInit, InitUndisturbed
<1>2. Uf2Type /\ Undisturbed /\ [Next]_vars => (Uf2Type /\ Undisturbed)'
  BY Uf2TypeStep, UndisturbedStep
<1> QED
  BY <1>1, <1>2, PTL DEF Spec

(* In a session that nothing upset, every block that bootuf2 counts as       *)
(* written is in flash, or in the cache that a later flush writes: the       *)
(* sectors a flush erases hold no other block of the file.                   *)
THEOREM StoredCorrect == Spec => []StoredOrCached
<1>1. Uf2Type /\ Undisturbed => StoredOrCached
  <2> SUFFICES ASSUME Uf2Type, Undisturbed, disturbed = {}, main_pc = "poll", NEW b \in mask
               PROVE  \/ ~Cached(b) /\ b \in Page /\ flash[b] = file
                      \/ Cached(b) /\ cache[b - cached_address + 1] = file
    BY DEF StoredOrCached
  <2>1. Counting /\ Caching
    BY DEF Undisturbed
  <2>2. number_of_written \in Nat /\ cached_bytes \in Nat /\ cached_address \in Nat
    BY Ranges
  <2>3. b \in 0 .. cached_address + cached_bytes - 1
    BY <2>1, <2>2 DEF Counting, Caching
  <2>4. CASE b < cached_address
    <3>1. b \in Page /\ ~Cached(b) /\ b \in 0 .. cached_address - 1
      BY <2>1, <2>2, <2>3, <2>4, Sizes DEF Caching, Cached, Page
    <3> QED
      BY <2>1, <3>1 DEF Caching, Filled
  <2>5. CASE ~(b < cached_address)
    <3>1. Cached(b)
      BY <2>2, <2>3, <2>5 DEF Cached
    <3>2. b - cached_address + 1 \in 1 .. cached_bytes + 1 - 1
      BY <2>2, <2>3, <2>5
    <3> QED
      BY <2>1, <2>2, <2>3, <3>1, <3>2 DEF Caching, Filled
  <2> QED
    BY <2>4, <2>5
<1> QED
  BY <1>1, SessionCorrect, PTL

-----------------------------------------------------------------------------
(* What the flash holds when this session has not touched it and no upset or *)
(* interrupted one did: a whole image, or none that app_valid accepts.  An   *)
(* application is started on a flash that app_valid accepted.                *)
Sound == flash[0] = Blank \/ \E f \in Images : Whole(f)

Flashed ==
  /\ pc # "uf2" => ~touched
  /\ pc = "app" => flash[0] # Blank
  /\ main_pc \in {"program", "empty"} => touched
  /\ ~torn /\ ~touched => Sound

LEMMA BootFlashed ==
  ASSUME Flashed, boot
  PROVE  Flashed'
<1>1. UNCHANGED <<flash, main_pc, touched, torn>>
  BY DEF boot, uf2_vars, main_vars, ghost_vars
<1>2. Sound => Sound'
  BY <1>1 DEF Sound, Whole
<1>3. ASSUME bl_steps PROVE pc # "uf2" /\ pc' # "app"
  BY <1>3 DEF bl_steps, read_reset_flags, clear_reset_flags, bl_state_init,
     update_fail_count, update_force, should_stay_read, should_stay_clear, Ok
<1>4. ASSUME choose_mode(app_valid) PROVE pc # "uf2" /\ (pc' = "app" => flash[0] # Blank)
  BY <1>4 DEF choose_mode, app_valid
<1> QED
  BY <1>1, <1>2, <1>3, <1>4 DEF boot, Flashed

LEMMA UsbFlashed ==
  ASSUME Flashed, usb
  PROVE  Flashed'
<1>1. ASSUME NEW b, NEW done, write_sector(b, done) PROVE Flashed'
  <2>1. pc = "uf2" /\ pc' = "uf2" /\ UNCHANGED <<main_pc, torn>>
    BY <1>1 DEF write_sector, bl_vars, main_vars
  <2>2. touched' \/ UNCHANGED <<flash, touched>>
    BY <1>1, Zenon DEF write_sector, write_block, ignore_block, flash_write_internal
  <2> QED
    BY <2>1, <2>2 DEF Flashed, Sound, Whole
<1>2. ASSUME bootuf2_init \/ \E f \in Images : copy_file(f) PROVE Flashed'
  <2>1. pc = "uf2" /\ pc' = "uf2" /\ UNCHANGED <<flash, main_pc, touched, torn>>
    BY <1>2 DEF bootuf2_init, copy_file, bl_vars, main_vars, ghost_vars
  <2> QED
    BY <2>1 DEF Flashed, Sound, Whole
<1> QED
  BY <1>1, <1>2 DEF usb

(* Any reset other than the one at the end of an upgrade.                    *)
LEMMA ResetFlashed ==
  ASSUME Flashed, NEW cause \in Causes, other_reset(cause)
  PROVE  Flashed'
<1>1. /\ pc' = "reset" /\ main_pc' = "poll" /\ touched' = FALSE /\ flash' = flash
      /\ torn' = (torn \/ touched)
  BY DEF other_reset, chip_reset, Ram
<1>2. Sound => Sound'
  BY <1>1 DEF Sound, Whole
<1> QED
  BY <1>1, <1>2 DEF Flashed

LEMMA MainFlashed ==
  ASSUME Uf2Type, Undisturbed, Flashed, main
  PROVE  Flashed'
<1>1. ASSUME is_write_done_check PROVE Flashed'
  <2>1. /\ pc = "uf2" /\ pc' = "uf2" /\ main_pc' \in {"erase", "reset"}
        /\ UNCHANGED <<flash, touched, torn>>
    BY <1>1 DEF is_write_done_check, InUf2, bl_vars, ghost_vars
  <2> QED
    BY <2>1 DEF Flashed, Sound, Whole
<1>2. ASSUME NEW ok \in BOOLEAN, flash_flush_erase(ok) PROVE Flashed'
  <2>1. pc' = "uf2" /\ touched'
    BY <1>2 DEF flash_flush_erase, InUf2, bl_vars
  <2> QED
    BY <2>1 DEF Flashed
<1>3. ASSUME NEW done \in 0 .. CacheBlocks, flash_flush_program(done) PROVE Flashed'
  <2>1. pc' = "uf2" /\ main_pc = "program" /\ UNCHANGED touched
    BY <1>3 DEF flash_flush_program, InUf2, bl_vars, ghost_vars
  <2> QED
    BY <2>1 DEF Flashed
<1>4. ASSUME flash_flush_empty PROVE Flashed'
  <2>1. pc' = "uf2" /\ main_pc = "empty" /\ UNCHANGED touched
    BY <1>4 DEF flash_flush_empty, InUf2, bl_vars, ghost_vars
  <2> QED
    BY <2>1 DEF Flashed
<1>5. ASSUME upgrade_reset PROVE Flashed'
  <2>1. /\ pc' = "reset" /\ main_pc' = "poll" /\ touched' = FALSE /\ flash' = flash
        /\ torn' = (disturbed # {}) /\ main_pc = "reset"
    BY <1>5 DEF upgrade_reset, InUf2, chip_reset, Ram
  <2>2. ASSUME disturbed = {} PROVE Sound'
    <3>1. Filled(flash, 0, Length[file], file) /\ file \in Images /\ Length[file] <= Pages
      BY <2>1, <2>2, Ranges DEF Undisturbed, Flushing
    <3> QED
      BY <2>1, <3>1 DEF Sound, Whole, Filled
  <2> QED
    BY <2>1, <2>2 DEF Flashed
<1> QED
  BY <1>1, <1>2, <1>3, <1>4, <1>5 DEF main

(* The bootloader starts only a whole image, unless a session was            *)
(* interrupted or upset after it began to flash: the software reset that     *)
(* ends an upgrade comes after the last, partial, flush.                     *)
THEOREM AppCorrect == Spec => []AppIsWhole
<1>1. Init => Flashed
  <2> SUFFICES ASSUME Init PROVE Flashed
    OBVIOUS
  <2>1. 0 \in Page
    BY Sizes DEF Page
  <2>2. ASSUME NEW f \in Images, Length[f] <= Pages,
               flash = [p \in Page |-> IF p < Length[f] THEN f ELSE Blank]
        PROVE  Whole(f)
    <3>1. Length[f] \in Nat /\ Length[f] <= Pages
      BY <2>2, LengthOf
    <3>2. \A p \in 0 .. Length[f] - 1 : p \in Page /\ p < Length[f]
      BY <3>1, Sizes DEF Page
    <3> QED
      BY <2>2, <3>2 DEF Whole
  <2>3. Sound
    BY <2>1, <2>2 DEF Init, Sound
  <2> QED
    BY <2>3 DEF Init, BlInit, Flashed
<1>2. Uf2Type /\ Undisturbed /\ Flashed /\ [Next]_vars => Flashed'
  <2> SUFFICES ASSUME Uf2Type, Undisturbed, Flashed, [Next]_vars PROVE Flashed'
    OBVIOUS
  <2>1. ASSUME UNCHANGED vars PROVE Flashed'
    BY <2>1 DEF vars, uf2_vars, bl_vars, main_vars, ghost_vars, Flashed, Sound, Whole
  <2> QED
    BY <2>1, BootFlashed, UsbFlashed, MainFlashed, ResetFlashed DEF Next
<1>3. Flashed => AppIsWhole
  BY DEF Flashed, Sound, AppIsWhole
<1> QED
  BY <1>1, <1>2, <1>3, SessionCorrect, PTL DEF Spec

-----------------------------------------------------------------------------
(* The reference of the port, on its bounded inputs, is an instance of the   *)
(* theorems above.                                                           *)
LEMMA SmallErase ==
  ASSUME NEW o \in 0 .. 9, NEW n \in 1 .. 9
  PROVE  /\ erase(o, n, 2, 4) =
              {a \in 0 .. 20 : a \div 2 \in o \div 2 .. o \div 2 + (n + 1) \div 2 - 1}
         /\ o .. o + n - 1 \subseteq erase(o, n, 2, 4) <=> o % 2 = 0 \/ n % 2 = 1
<1>1. PICK k \in 0 .. 4, r \in 0 .. 1 : o = 2 * k + r /\ k = o \div 2 /\ r = o % 2
  OBVIOUS
<1>2. PICK m \in 0 .. 4, t \in 0 .. 1 :
        n = 2 * m + t /\ t = n % 2 /\ (n + 1) \div 2 = m + t
  OBVIOUS
<1>3. aligned_size(n, 2) = 2 * (m + t)
  BY <1>2 DEF aligned_size
<1>4. erase(o, n, 2, 4) = 2 * k .. 2 * k + 2 * (m + t) - 1
  <2>1. o \in Nat /\ n \in Nat /\ 4 % 2 = 0
    OBVIOUS
  <2>2. erase(o, n, 2, 4) = SectorStart(o, 2) .. SectorStart(o, 2) + aligned_size(n, 2) - 1
    BY <2>1, EraseExact
  <2>3. SectorStart(o, 2) = 2 * k
    BY <1>1 DEF SectorStart
  <2> QED
    BY <1>3, <2>2, <2>3
<1>5. \A a \in 0 .. 20 :
        a \div 2 \in k .. k + (m + t) - 1 <=> a \in 2 * k .. 2 * k + 2 * (m + t) - 1
  <2> SUFFICES ASSUME NEW a \in 0 .. 20
               PROVE  a \div 2 \in k .. k + (m + t) - 1
                        <=> a \in 2 * k .. 2 * k + 2 * (m + t) - 1
    OBVIOUS
  <2>1. PICK c \in 0 .. 10, d \in 0 .. 1 : a = 2 * c + d /\ c = a \div 2
    OBVIOUS
  <2> QED
    BY <2>1
<1>6. 2 * k .. 2 * k + 2 * (m + t) - 1 \subseteq 0 .. 20
  BY <1>1, <1>2
<1>7. o .. o + n - 1 \subseteq 2 * k .. 2 * k + 2 * (m + t) - 1 <=> r = 0 \/ t = 1
  <2>1. o \in o .. o + n - 1 /\ o + n - 1 \in o .. o + n - 1
    OBVIOUS
  <2>2. o + n - 1 \in 2 * k .. 2 * k + 2 * (m + t) - 1 => r = 0 \/ t = 1
    BY <1>1, <1>2
  <2>3. (r = 0 \/ t = 1) => \A x \in o .. o + n - 1 : x \in 2 * k .. 2 * k + 2 * (m + t) - 1
    BY <1>1, <1>2
  <2> QED
    BY <2>1, <2>2, <2>3
<1>8. {a \in 0 .. 20 : a \div 2 \in k .. k + (m + t) - 1} = 2 * k .. 2 * k + 2 * (m + t) - 1
  BY <1>5, <1>6, Zenon
<1>9. /\ erase(o, n, 2, 4) = {a \in 0 .. 20 : a \div 2 \in k .. k + (m + t) - 1}
      /\ o .. o + n - 1 \subseteq erase(o, n, 2, 4) <=> r = 0 \/ t = 1
  BY <1>4, <1>7, <1>8, Zenon
<1> QED
  BY <1>1, <1>2, <1>9, Zenon

LEMMA PortRight == PortAgrees
<1> SUFFICES ASSUME NEW o \in 0 .. 9, NEW n \in 1 .. 9
             PROVE  LET calls == program_calls(o, n, 4, 4)
                        cleared == erase(o, n, 2, 4)
                    IN /\ cleared = {a \in 0 .. 20 :
                                       a \div 2 \in o \div 2 .. o \div 2 + (n + 1) \div 2 - 1}
                       /\ o .. o + n - 1 \subseteq cleared <=> o % 2 = 0 \/ n % 2 = 1
                       /\ calls[1].at = o
                       /\ calls[Len(calls)].at + calls[Len(calls)].size = o + n
                       /\ \A k \in 1 .. Len(calls) :
                            /\ calls[k].at \div 4 = (calls[k].at + calls[k].size - 1) \div 4
                            /\ k > 1 => calls[k].at = calls[k - 1].at + calls[k - 1].size
                       /\ \A failed \in (SUBSET (1 .. Len(calls))) \ {{}} :
                            write_result(o, n, 4, failed) = n <=> failed = {1} /\ o % 4 # 0
  BY Zenon DEF PortAgrees
<1> DEFINE calls == program_calls(o, n, 4, 4)
<1>1. o \in Nat /\ n \in Nat /\ n \in Nat \ {0}
  OBVIOUS
<1>2. InOrder(calls, o, o + n) /\ WithinPages(calls, 4)
  <2>1. 4 % 4 = 0
    OBVIOUS
  <2> QED
    BY <1>1, <2>1, WriteExact
<1>3. ASSUME NEW failed, failed # {}
      PROVE  write_result(o, n, 4, failed) = n <=> failed = {1} /\ o % 4 # 0
  <2>1. 4 \in Nat \ {0}
    OBVIOUS
  <2> QED
    BY <1>1, <1>3, <2>1, WriteResultExact, Zenon
<1>4. /\ calls[1].at = o /\ calls[Len(calls)].at + calls[Len(calls)].size = o + n
      /\ \A k \in 1 .. Len(calls) :
            /\ calls[k].at \div 4 = (calls[k].at + calls[k].size - 1) \div 4
            /\ k > 1 => calls[k].at = calls[k - 1].at + calls[k - 1].size
  BY <1>2, Zenon DEF InOrder, WithinPages
<1>5. \A failed \in (SUBSET (1 .. Len(calls))) \ {{}} :
        write_result(o, n, 4, failed) = n <=> failed = {1} /\ o % 4 # 0
  BY <1>3, Zenon
<1>6. /\ erase(o, n, 2, 4) =
           {a \in 0 .. 20 : a \div 2 \in o \div 2 .. o \div 2 + (n + 1) \div 2 - 1}
      /\ o .. o + n - 1 \subseteq erase(o, n, 2, 4) <=> o % 2 = 0 \/ n % 2 = 1
  BY SmallErase, Zenon
<1> QED
  BY <1>4, <1>5, <1>6, Zenon

(* When main flushes the cache of a session that nothing upset, the erase    *)
(* blanks every page that is then programmed and no sector beside them, for  *)
(* every image, cache and geometry; and over the small ranges, aligned or    *)
(* not, the port erases and programs what its reference says, and hides      *)
(* exactly the errors that it says (EraseExact, WriteExact and               *)
(* WriteResultExact have this for all ranges).                               *)
THEOREM PortCorrect == Spec => []FlashPortMatchesReference
<1>1. Uf2Type /\ Undisturbed => FlashPortMatchesReference
  <2> SUFFICES ASSUME Uf2Type, Undisturbed, InUf2("erase"), disturbed = {}
               PROVE  Erased(flash, flushing.at, flushing.n) =
                        [p \in Page |->
                           IF \E x \in flushing.at .. flushing.at + flushing.n - 1 :
                                x \div SectorBlocks = p \div SectorBlocks
                           THEN Blank ELSE flash[p]]
    BY PortRight, Zenon DEF FlashPortMatchesReference
  <2>1. flushing = [at |-> cached_address, n |-> cached_bytes] /\ Caching
    BY DEF Undisturbed, Flushing, InUf2
  <2>2. flushing.at = cached_address /\ flushing.n = cached_bytes
    BY <2>1
  <2>3. /\ cached_address \in Nat /\ cached_bytes \in Nat
        /\ SectorBlocks \in Nat \ {0} /\ EraseBlocks \in Nat \ {0}
    BY Ranges, Sizes
  <2>4. cached_address % SectorBlocks = 0 /\ EraseBlocks % SectorBlocks = 0
    BY <2>1, Uf2Assumption DEF Caching
  <2>5. \A a \in Nat : a \in erase(cached_address, cached_bytes, SectorBlocks, EraseBlocks)
                         <=> Touches(cached_address, cached_bytes, SectorBlocks, a)
    BY <2>3, <2>4, EraseTouches
  <2>6. \A p \in Page : p \in Nat
    BY Sizes DEF Page
  <2>7. \A p \in Page :
          p \in erase(cached_address, cached_bytes, SectorBlocks, EraseBlocks)
            <=> \E x \in cached_address .. cached_address + cached_bytes - 1 :
                  x \div SectorBlocks = p \div SectorBlocks
    BY <2>5, <2>6, Zenon DEF Touches
  <2> QED
    BY <2>2, <2>7 DEF Erased
<1> QED
  BY <1>1, SessionCorrect, PTL
=============================================================================
