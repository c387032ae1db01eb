----------------------------- MODULE BootProofs -----------------------------
(* Proofs about Boot: for every disk with a consistent file system, every  *)
(* size of its parts, every memory and any reads that fail, what is loaded *)
(* is the file, what is mapped is the memory, and what the kernel then     *)
(* writes into its tables leads every process to its own memory.           *)
EXTENDS Boot, SequenceTheorems, TLAPS
-----------------------------------------------------------------------------
(* Descriptors: what init_descriptor writes is what seg2phys, do_fork and  *)
(* the processor read, for every base and limit; and no two children of    *)
(* fork share memory.                                                      *)

\* The low half of a double word.
LEMMA Low16 == ASSUME NEW x \in Nat PROVE x % 65536 \in Words16
<1>1. x % 65536 \in Nat /\ x % 65536 < 65536
  BY SMT
<1> QED
  BY SMT, <1>1 DEF Words16

\* A 32-bit number is put together again from the three fields of a base.
LEMMA BaseFields ==
  ASSUME NEW base \in Nat, base < 65536 * 65536
  PROVE  ((base \div (256 * 65536)) % 256) * (256 * 65536) + ((base \div 65536) % 256) * 65536
              + (base % 65536) = base
  BY SMT

(* init_descriptor writes every field in its width, whatever its arguments.*)
THEOREM WritesDescriptor ==
  ASSUME NEW d \in DESCRIPTOR, NEW base \in Nat, NEW limit \in Nat, NEW attribute \in Nat
  PROVE  init_descriptor(d, base, limit, attribute) \in DESCRIPTOR
<1>1. limit % 256 \in Bytes8 /\ attribute % 256 \in Bytes8
  BY SMT DEF Bytes8
<1>2. base % 65536 \in Words16
  BY SMT, Low16
<1>3. (base \div 65536) % 256 \in Bytes8 /\ (base \div (256 * 65536)) % 256 \in Bytes8
  BY SMT DEF Bytes8
<1>4. ((limit \div 65536) % 16) + 16 * ((attribute \div 4096) % 16) \in Bytes8
  BY SMT DEF Bytes8
<1>5. d.pad \in Bytes8
  BY SMT DEF DESCRIPTOR
<1> QED
  BY SMT, <1>1, <1>2, <1>3, <1>4, <1>5 DEF init_descriptor, DESCRIPTOR

(* seg2phys reads the base back that init_descriptor was given, for every  *)
(* 32-bit address (protect.c:177, :212).                                   *)
THEOREM BaseReadsBack ==
  ASSUME NEW d \in DESCRIPTOR, NEW base \in Nat, base < 65536 * 65536, NEW limit \in Nat,
         NEW attribute \in Nat
  PROVE  seg2phys(init_descriptor(d, base, limit, attribute)) = base
<1> DEFINE new == init_descriptor(d, base, limit, attribute)
<1>1. seg2phys(new) = new.base_high * (256 * 65536) + new.base_mid * 65536 + new.base_low
  BY DEF seg2phys
<1>2. /\ new.base_low = base % 65536 /\ new.base_mid = (base \div 65536) % 256
      /\ new.base_high = (base \div (256 * 65536)) % 256
  BY SMT DEF init_descriptor
<1> HIDE DEF new
<1>3. seg2phys(new) = base
  BY SMT, <1>1, <1>2, BaseFields
<1> QED
  BY <1>3 DEF new

(* The processor's limit and do_fork's size of the parent are those of     *)
(* init_descriptor as long as the limit has 8 bits, which limit_low keeps  *)
(* (protect.h:10), and nothing is in the padding byte.                     *)
THEOREM SmallLimitReadsBack ==
  ASSUME NEW d \in DESCRIPTOR, d.pad = 0, NEW base \in Nat, NEW limit \in 0 .. 255,
         NEW attribute \in Nat
  PROVE  LET new == init_descriptor(d, base, limit, attribute)
         IN  /\ Limit(new) = limit
             /\ parent_size(new) = (limit + 1) * (IF In4K(new) THEN 4096 ELSE 1)
<1> DEFINE new == init_descriptor(d, base, limit, attribute)
           high == (attribute \div 4096) % 16
<1>1. /\ new.limit_low = limit /\ new.pad = 0
      /\ new.limit_high_attr2 = ((limit \div 65536) % 16) + 16 * high
  <2>1. limit % 256 = limit
    BY SMT
  <2>2. new.limit_low = limit % 256 /\ new.pad = d.pad
    BY SMT DEF init_descriptor
  <2>3. new.limit_high_attr2 = ((limit \div 65536) % 16) + 16 * high
    BY SMT DEF init_descriptor
  <2> HIDE DEF new
  <2> QED
    BY SMT, <2>1, <2>2, <2>3
<1>2. (limit \div 65536) % 16 = 0 /\ high \in 0 .. 15
  BY SMT
<1>3. new.limit_high_attr2 % 16 = 0
  BY SMT, <1>1, <1>2
<1>4. Limit(new) = limit
  BY SMT, <1>1, <1>3 DEF Limit
<1>5. parent_size(new) = (limit + 1) * (IF In4K(new) THEN 4096 ELSE 1)
  BY SMT, <1>1, <1>3 DEF parent_size
<1> QED
  BY SMT, <1>4, <1>5

Children == NR_TASKS + NR_NATIVE_PROCS .. NR_TASK_PROCS - 1

\* A child's segment is its megabyte and nothing else.
LEMMA ChildMemory ==
  ASSUME NEW d \in DESCRIPTOR, d.pad = 0, NEW child \in Children, NEW kind \in {DA_C, DA_DRW}
  PROVE  Memory(ChildSegment(d, child, kind))
           = child_base(child) .. child_base(child) + PROC_DEFAULT_MEM - 1
<1> DEFINE attribute == DA_LIMIT_4K + DA_32 + kind + DPL(1)
           new == init_descriptor(d, child_base(child), 255, attribute)
<1>1. child_base(child) \in Nat /\ child_base(child) < 65536 * 65536
  BY SMT DEF child_base, Children, PROCS_BASE, PROC_DEFAULT_MEM, NR_TASKS, NR_NATIVE_PROCS, NR_TASK_PROCS
<1>2. attribute \in Nat /\ (attribute \div 4096) % 16 = 12
  BY SMT DEF DA_LIMIT_4K, DA_32, DA_C, DA_DRW, DPL
<1>3. ChildSegment(d, child, kind) = new
  BY SMT DEF ChildSegment, PROC_DEFAULT_MEM
<1>4. Base(new) = child_base(child)
  BY SMT, <1>1, <1>2, BaseReadsBack DEF Base
<1>5. Limit(new) = 255
  BY SMT, <1>1, <1>2, SmallLimitReadsBack
<1>6. In4K(new)
  BY SMT, <1>2 DEF In4K, init_descriptor, DESCRIPTOR
<1> HIDE DEF new
<1>7. Memory(new) = child_base(child) .. child_base(child) + (255 + 1) * 4096 - 1
  BY SMT, <1>4, <1>5, <1>6 DEF Memory
<1> QED
  BY SMT, <1>3, <1>7 DEF PROC_DEFAULT_MEM

(* Two children never share a byte of memory, nor does a child reach below *)
(* PROCS_BASE, where the kernel and Init are (fork.c:69, :81).             *)
THEOREM ChildrenApart ==
  ASSUME NEW d \in DESCRIPTOR, d.pad = 0, NEW e \in DESCRIPTOR, e.pad = 0,
         NEW p \in Children, NEW q \in Children, p # q,
         NEW kind \in {DA_C, DA_DRW}, NEW other \in {DA_C, DA_DRW}
  PROVE  /\ Memory(ChildSegment(d, p, kind)) \cap Memory(ChildSegment(e, q, other)) = {}
         /\ \A byte \in Memory(ChildSegment(d, p, kind)) : byte >= PROCS_BASE
<1>1. /\ Memory(ChildSegment(d, p, kind)) = child_base(p) .. child_base(p) + PROC_DEFAULT_MEM - 1
      /\ Memory(ChildSegment(e, q, other)) = child_base(q) .. child_base(q) + PROC_DEFAULT_MEM - 1
  BY SMT, ChildMemory
<1>2. /\ child_base(p) \in Nat /\ child_base(p) >= PROCS_BASE /\ child_base(q) \in Nat
      /\ \/ child_base(p) + PROC_DEFAULT_MEM <= child_base(q)
         \/ child_base(q) + PROC_DEFAULT_MEM <= child_base(p)
  BY SMT DEF child_base, Children, PROCS_BASE, PROC_DEFAULT_MEM, NR_TASKS, NR_NATIVE_PROCS, NR_TASK_PROCS
<1> QED
  BY SMT, <1>1, <1>2 DEF PROCS_BASE, PROC_DEFAULT_MEM
-----------------------------------------------------------------------------
(* Arithmetic.                                                             *)

\* Quotient and remainder are determined by the product they divide.
LEMMA Division ==
  ASSUME NEW q \in Nat, NEW b \in Nat \ {0}, NEW r \in 0 .. b - 1
  PROVE  (q * b + r) \div b = q /\ (q * b + r) % b = r
<1> DEFINE a == q * b + r
           p == a \div b
           s == a % b
<1>1. a \in Nat /\ p \in Nat /\ s \in 0 .. b - 1 /\ a = p * b + s
  BY SMT
<1>2. \A x, y \in Nat : x < y => x * b + b <= y * b
  <2> SUFFICES ASSUME NEW x \in Nat, NEW y \in Nat, x < y PROVE x * b + b <= y * b
    OBVIOUS
  <2>1. PICK d \in Nat : y = x + 1 + d
    <3>1. y - x - 1 \in Nat /\ y = x + 1 + (y - x - 1)
      BY SMT
    <3> QED
      BY <3>1
  <2>2. y * b = x * b + b + d * b /\ d * b \in Nat /\ x * b \in Nat
    BY <2>1, SMT
  <2> QED
    BY <2>2, SMT
<1>3. q * b \in Nat /\ p * b \in Nat
  BY <1>1, SMT
<1>4. p = q
  <2> HIDE DEF p, s
  <2>1. CASE p < q
    BY <1>1, <1>2, <1>3, <2>1, SMT
  <2>2. CASE q < p
    BY <1>1, <1>2, <1>3, <2>2, SMT
  <2> QED
    BY <1>1, <2>1, <2>2, SMT
<1>5. s = r
  <2> HIDE DEF p, s
  <2> QED
    BY <1>1, <1>3, <1>4, SMT
<1> QED
  BY <1>4, <1>5

(* The cylinder, head and sector that fun16_read_sector asks for are those *)
(* of the sector it is given.                                              *)
LEMMA ReadsAsked == \A n \in Nat : ReadSector(n) = n
<1> SUFFICES ASSUME NEW n \in Nat PROVE ReadSector(n) = n
  OBVIOUS
<1>0. SecPerTrk \in Nat \ {0}
  BY BootLoaderAssumption
<1> DEFINE track == n \div SecPerTrk
           cyl == track \div 2
<1>1. track \in Nat /\ n % SecPerTrk \in 0 .. SecPerTrk - 1
      /\ n = track * SecPerTrk + (n % SecPerTrk)
  BY <1>0, SMT
<1>2. cyl \in Nat /\ track % 2 \in 0 .. 1 /\ track = 2 * cyl + (track % 2)
  BY <1>1, SMT
<1>3. n \div (2 * SecPerTrk) = cyl
  <2> DEFINE r == (track % 2) * SecPerTrk + (n % SecPerTrk)
  <2>1. r \in 0 .. 2 * SecPerTrk - 1
    BY <1>0, <1>1, <1>2, SMT
  <2>2. n = cyl * (2 * SecPerTrk) + r
    <3>1. \A t, c, h, b, m \in Nat : t = 2 * c + h => t * b + m = c * (2 * b) + (h * b + m)
      BY SMT
    <3>2. (n % SecPerTrk) \in Nat /\ track % 2 \in Nat /\ SecPerTrk \in Nat
      BY <1>0, <1>1, <1>2
    <3>3. track * SecPerTrk + (n % SecPerTrk) = cyl * (2 * SecPerTrk) + r
      <4> DEFINE h == track % 2
                 m == n % SecPerTrk
      <4>1. track \in Nat /\ cyl \in Nat /\ h \in Nat /\ m \in Nat /\ track = 2 * cyl + h
        BY <1>1, <1>2, <3>2
      <4> HIDE DEF track, cyl, h, m, r
      <4>2. track * SecPerTrk + m = cyl * (2 * SecPerTrk) + (h * SecPerTrk + m)
        BY <3>1, <3>2, <4>1
      <4> QED
        BY <4>2 DEF h, m, r
    <3> QED
      BY <1>1, <3>3, Zenon
  <2>3. 2 * SecPerTrk \in Nat \ {0}
    BY <1>0, SMT
  <2> HIDE DEF r, cyl
  <2> QED
    BY <1>2, <2>1, <2>2, <2>3, Division
<1>4. (2 * cyl + (track % 2)) * SecPerTrk + (n % SecPerTrk) = n
  BY <1>0, <1>1, <1>2
<1>5. ReadSector(n) = (2 * cyl + (track % 2)) * SecPerTrk + ((n % SecPerTrk) + 1) - 1
  <2>1. CHS(n).cyl = cyl /\ CHS(n).head = track % 2 /\ CHS(n).sec = (n % SecPerTrk) + 1
    BY <1>3, Zenon DEF CHS
  <2> QED
    BY <2>1, Zenon DEF ReadSector, Drive
<1>6. (2 * cyl + (track % 2)) * SecPerTrk \in Nat
  BY <1>0, <1>1, <1>2, SMT
<1> HIDE DEF track, cyl
<1> QED
  BY <1>1, <1>4, <1>5, <1>6, SMT
-----------------------------------------------------------------------------
(* The floppy and its file allocation table.                               *)

(* What WellFormed says of an entry, of the ranges and of two clusters.    *)
LEMMA Floppy ==
  ASSUME machine \in Machines
  PROVE  /\ Len(machine.root) \in Nat /\ DOMAIN machine.root = 1 .. Len(machine.root)
         /\ Len(machine.root) <= RootDirSectors * EntriesPerSec
         /\ \A n \in DOMAIN machine.root : Root(n) \in Entries
         /\ \A n \in DOMAIN machine.root :
              (\E s \in Stages : Root(n).agree[s] >= 10) => Root(n).chain # <<>>
         /\ machine.eof \in Marks
         /\ Len(machine.ranges) \in Nat /\ DOMAIN machine.ranges = 1 .. Len(machine.ranges)
         /\ \A n \in DOMAIN machine.ranges : machine.ranges[n] \in Ranges
<1>1. WellFormed(machine)
  BY MachinesAssumption, Zenon
<1>2. machine.root \in Seq(Entries) /\ machine.ranges \in Seq(Ranges)
  BY <1>1, Zenon DEF WellFormed
<1>3. Len(machine.root) \in Nat /\ DOMAIN machine.root = 1 .. Len(machine.root)
      /\ \A n \in DOMAIN machine.root : machine.root[n] \in Entries
  BY <1>2, LenProperties, ElementOfSeq, Zenon
<1>4. Len(machine.ranges) \in Nat /\ DOMAIN machine.ranges = 1 .. Len(machine.ranges)
      /\ \A n \in DOMAIN machine.ranges : machine.ranges[n] \in Ranges
  BY <1>2, LenProperties, ElementOfSeq, Zenon
<1>5. Len(machine.root) <= RootDirSectors * EntriesPerSec
  BY <1>1, Zenon DEF WellFormed
<1>6. \A n \in DOMAIN machine.root :
        (\E s \in Stages : Root(n).agree[s] >= 10) => Root(n).chain # <<>>
  BY <1>1, Zenon DEF WellFormed, Root
<1>7. machine.eof \in Marks
  BY <1>1, Zenon DEF WellFormed
<1>8. \A n \in DOMAIN machine.root : Root(n) \in Entries
  BY <1>3 DEF Root
<1> QED
  BY <1>3, <1>4, <1>5, <1>6, <1>7, <1>8

(* The clusters of a file.                                                 *)
LEMMA Chained ==
  ASSUME machine \in Machines, NEW n \in DOMAIN machine.root
  PROVE  /\ Len(Root(n).chain) \in Nat
         /\ DOMAIN Root(n).chain = 1 .. Len(Root(n).chain)
         /\ \A i \in DOMAIN Root(n).chain : Root(n).chain[i] \in Clusters
         /\ Root(n).agree \in [Stages -> 0 .. 11]
<1>1. Root(n) \in Entries
  BY Floppy
<1>2. Root(n).chain \in Seq(Clusters) /\ Root(n).agree \in [Stages -> 0 .. 11]
  BY <1>1 DEF Entries
<1>3. Len(Root(n).chain) \in Nat /\ DOMAIN Root(n).chain = 1 .. Len(Root(n).chain)
  BY <1>2, LenProperties
<1>4. ASSUME NEW i \in DOMAIN Root(n).chain PROVE Root(n).chain[i] \in Clusters
  BY <1>2, <1>3, ElementOfSeq, Zenon
<1> QED
  BY <1>2, <1>3, <1>4

\* Twelve bits.
Bits12 == {n \in Nat : n < 4096}

LEMMA Numbers ==
  /\ \A c \in Clusters : c \in Bits12 /\ c \in Nat /\ c < 4088 /\ c >= 2
  /\ \A m \in Marks : m \in Bits12 /\ m \in Nat /\ m >= 4088
BY DEF Clusters, Marks, Bits12

LEMMA ClusterNumbers == Clusters \subseteq Bits12 /\ Clusters \subseteq Nat
BY DEF Clusters, Bits12

(* No cluster is in two places.                                            *)
LEMMA OnePlace ==
  ASSUME machine \in Machines, NEW n \in DOMAIN machine.root, NEW o \in DOMAIN machine.root,
         NEW i \in DOMAIN Root(n).chain, NEW j \in DOMAIN Root(o).chain,
         Root(n).chain[i] = Root(o).chain[j]
  PROVE  Root(n).chain = Root(o).chain /\ i = j
<1>1. WellFormed(machine)
  BY MachinesAssumption, Zenon
<1>2. \A x, y \in DOMAIN machine.root :
        \A p \in DOMAIN machine.root[x].chain, q \in DOMAIN machine.root[y].chain :
          machine.root[x].chain[p] = machine.root[y].chain[q] =>
            machine.root[x].chain = machine.root[y].chain /\ p = q
  BY <1>1, Zenon DEF WellFormed
<1> QED
  BY <1>2 DEF Root

(* What the table holds for a cluster of a file: the next, or the mark.    *)
LEMMA FATAlong ==
  ASSUME machine \in Machines, NEW n \in DOMAIN machine.root, NEW i \in DOMAIN Root(n).chain
  PROVE  FAT(Root(n).chain[i]) = IF i = Len(Root(n).chain) THEN machine.eof
                                 ELSE Root(n).chain[i + 1]
<1> DEFINE c == Root(n).chain[i]
           ch == CHOOSE x \in Chains : c \in ToSet(x)
           k == CHOOSE j \in DOMAIN ch : ch[j] = c
<1>1. \E x \in Chains : c \in ToSet(x)
  BY Zenon DEF Chains, ToSet
<1>2. ch \in Chains /\ c \in ToSet(ch)
  BY <1>1, Zenon
<1>3. PICK o \in DOMAIN machine.root : ch = Root(o).chain
  BY <1>2, Zenon DEF Chains
<1>4. \E j \in DOMAIN ch : ch[j] = c
  BY <1>2, Zenon DEF ToSet
<1>5. k \in DOMAIN ch /\ ch[k] = c
  BY <1>4, Zenon
<1>6. FAT(c) = IF k = Len(ch) THEN machine.eof ELSE ch[k + 1]
  BY <1>1, Zenon DEF FAT
<1> HIDE DEF ch, k
<1>7. ch = Root(n).chain /\ k = i
  BY <1>3, <1>5, OnePlace, Zenon
<1> QED
  BY <1>6, <1>7, Zenon

(* An entry has 12 bits.                                                   *)
LEMMA FATTyped == ASSUME machine \in Machines, NEW c PROVE FAT(c) \in Bits12
<1>1. CASE \E ch \in Chains : c \in ToSet(ch)
  <2>0. PICK n \in DOMAIN machine.root : c \in ToSet(Root(n).chain)
    BY <1>1, Zenon DEF Chains
  <2>1. PICK i \in DOMAIN Root(n).chain : c = Root(n).chain[i]
    BY <2>0, Zenon DEF ToSet
  <2>2. FAT(c) = IF i = Len(Root(n).chain) THEN machine.eof ELSE Root(n).chain[i + 1]
    BY <2>1, FATAlong, Zenon
  <2>3. i # Len(Root(n).chain) => Root(n).chain[i + 1] \in Clusters
    <3>1. Len(Root(n).chain) \in Nat /\ DOMAIN Root(n).chain = 1 .. Len(Root(n).chain)
      BY Chained
    <3>2. i # Len(Root(n).chain) => i + 1 \in DOMAIN Root(n).chain
      BY <3>1
    <3> QED
      BY <3>2, Chained, Zenon
  <2>4. machine.eof \in Marks
    BY Floppy
  <2>5. FAT(c) \in Marks \/ FAT(c) \in Clusters
    BY <2>2, <2>3, <2>4, Zenon
  <2> QED
    BY <2>5 DEF Marks, Clusters, Bits12
<1>2. CASE ~\E ch \in Chains : c \in ToSet(ch)
  <2>1. FAT(c) = 0
    BY <1>2, Zenon DEF FAT
  <2> QED
    BY <2>1 DEF Bits12
<1> QED
  BY <1>1, <1>2

\* Twelve bits from their three fours.
LEMMA Nibbles ==
  \A x \in Bits12 : ((x \div 1) % 16) + 16 * ((x \div 16) % 16) + 256 * ((x \div 256) % 16) = x
  BY SMT DEF Bits12

\* Where the three fours of an entry are, counted in fours from the start.
LEMMA NibbleAt ==
  ASSUME NEW c \in Nat
  PROVE  /\ Nibble(3 * c) = (FAT(c) \div 1) % 16
         /\ Nibble(3 * c + 1) = (FAT(c) \div 16) % 16
         /\ Nibble(3 * c + 2) = (FAT(c) \div 256) % 16
<1>1. (3 * c) \div 3 = c /\ (3 * c + 1) \div 3 = c /\ (3 * c + 2) \div 3 = c
      /\ (3 * c) % 3 = 0 /\ (3 * c + 1) % 3 = 1 /\ (3 * c + 2) % 3 = 2
  BY SMT
<1>2. Nibble(3 * c) = (FAT(c) \div 1) % 16
  BY <1>1 DEF Nibble
<1>3. Nibble(3 * c + 1) = (FAT(c) \div 16) % 16
  BY <1>1 DEF Nibble
<1>4. Nibble(3 * c + 2) = (FAT(c) \div 256) % 16
  BY <1>1 DEF Nibble
<1> QED
  BY <1>2, <1>3, <1>4

(* fun16_get_FAT_entry finds the entry of every cluster, odd or even, also *)
(* one that lies across two sectors of the table, since it reads two       *)
(* (boot_ipl.asm:189-236).                                                 *)
LEMMA FATDecoded ==
  ASSUME machine \in Machines, NEW c \in Nat PROVE FATEntry(c) = FAT(c)
<1> DEFINE byte == (c * 3) \div 2
           first == byte - (byte % BytsPerSec)
           at(b) == IF b < first + Window * BytsPerSec THEN FATByte(b) ELSE 0
           word == at(byte) + 256 * at(byte + 1)
<1>1. FATEntry(c) = (IF (c * 3) % 2 = 1 THEN word \div 16 ELSE word) % 4096
  BY Zenon DEF FATEntry
<1>2. at(byte) = FATByte(byte) /\ at(byte + 1) = FATByte(byte + 1)
  <2>1. BytsPerSec \in Nat \ {0}
    BY BootLoaderAssumption
  <2>2. byte \in Nat
    BY SMT
  <2>3. byte % BytsPerSec \in 0 .. BytsPerSec - 1
    <3> HIDE DEF byte
    <3> QED
      BY <2>1, <2>2, SMT
  <2>4. byte < first + Window * BytsPerSec /\ byte + 1 < first + Window * BytsPerSec
    <3> HIDE DEF byte
    <3> QED
      BY <2>1, <2>2, <2>3, SMT DEF Window
  <2> QED
    BY <2>4, Zenon
<1>3. /\ FATByte(byte) = Nibble(2 * byte) + 16 * Nibble(2 * byte + 1)
      /\ FATByte(byte + 1) = Nibble(2 * (byte + 1)) + 16 * Nibble(2 * (byte + 1) + 1)
  BY Zenon DEF FATByte
<1>4. \A n \in Nat : Nibble(n) \in 0 .. 15
  <2> SUFFICES ASSUME NEW n \in Nat PROVE Nibble(n) \in 0 .. 15
    OBVIOUS
  <2>1. FAT(n \div 3) \in Nat /\ FAT(n \div 3) < 4096
    BY FATTyped DEF Bits12
  <2>2. <<1, 16, 256>>[(n % 3) + 1] \in {1, 16, 256}
    <3>1. n % 3 = 0 \/ n % 3 = 1 \/ n % 3 = 2
      BY SMT
    <3> QED
      BY <3>1
  <2> DEFINE w == <<1, 16, 256>>[(n % 3) + 1]
             f == FAT(n \div 3)
  <2>3. Nibble(n) = (f \div w) % 16 /\ f \in Nat /\ f < 4096
    BY <2>1 DEF Nibble
  <2> HIDE DEF w, f
  <2>4. w = 1 \/ w = 16 \/ w = 256
    BY <2>2 DEF w
  <2>5. /\ (f \div 1) % 16 \in 0 .. 15 /\ (f \div 16) % 16 \in 0 .. 15
        /\ (f \div 256) % 16 \in 0 .. 15
    BY <2>3
  <2> QED
    BY <2>3, <2>4, <2>5
<1>5. FAT(c) \in Nat /\ FAT(c) < 4096
  BY FATTyped DEF Bits12
<1>6. word = Nibble(2 * byte) + 16 * Nibble(2 * byte + 1)
             + 256 * (Nibble(2 * (byte + 1)) + 16 * Nibble(2 * (byte + 1) + 1))
  BY <1>2, <1>3
<1> HIDE DEF word
<1> DEFINE f == FAT(c)
           low == Nibble(3 * c)
           mid == Nibble(3 * c + 1)
           high == Nibble(3 * c + 2)
<1>7. low \in 0 .. 15 /\ mid \in 0 .. 15 /\ high \in 0 .. 15
  BY <1>4
<1>8. f = low + 16 * mid + 256 * high
  <2>1. low = (f \div 1) % 16 /\ mid = (f \div 16) % 16 /\ high = (f \div 256) % 16
        /\ f \in Nat /\ f < 4096
    BY <1>5, NibbleAt
  <2> HIDE DEF f, low, mid, high
  <2> QED
    BY <2>1
<1>9. CASE (c * 3) % 2 = 1
  <2> DEFINE before == Nibble(2 * byte)
  <2>1. 2 * byte + 1 = 3 * c /\ 2 * (byte + 1) = 3 * c + 1 /\ 2 * (byte + 1) + 1 = 3 * c + 2
    BY <1>9, SMT
  <2>2. before \in 0 .. 15
    BY <1>4
  <2>3. word = before + 16 * low + 256 * (mid + 16 * high)
    BY <1>6, <2>1
  <2> HIDE DEF byte, before, low, mid, high
  <2>4. word \div 16 = low + 16 * mid + 256 * high
    BY <1>7, <2>2, <2>3, SMT
  <2>5. FATEntry(c) = f % 4096
    BY <1>1, <1>8, <1>9, <2>4
  <2>6. f % 4096 = f
    <3>1. f \in Nat /\ f < 4096
      BY <1>5
    <3> HIDE DEF f
    <3> QED
      BY <3>1
  <2> QED
    BY <2>5, <2>6
<1>10. CASE (c * 3) % 2 # 1
  <2> DEFINE behind == Nibble(2 * (byte + 1) + 1)
  <2>1. 2 * byte = 3 * c /\ 2 * byte + 1 = 3 * c + 1 /\ 2 * (byte + 1) = 3 * c + 2
    BY <1>10, SMT
  <2>2. behind \in 0 .. 15
    BY <1>4
  <2>3. word = low + 16 * mid + 256 * (high + 16 * behind)
    BY <1>6, <2>1
  <2> HIDE DEF byte, behind, low, mid, high
  <2>4. word % 4096 = low + 16 * mid + 256 * high
    BY <1>7, <2>2, <2>3, SMT
  <2> QED
    BY <1>1, <1>8, <1>10, <2>4
<1> QED
  BY <1>9, <1>10
-----------------------------------------------------------------------------
(* The inductive invariant of the boot programs.                           *)

Pcs == {"search", "load", "next", "loaded", "missing", "memchk", "meminfo", "paging", "start",
        "prot", "main", "running", "lost", "dead"}

\* Segments hold disk sectors at addresses they have.
SegmentsTyped ==
  /\ DOMAIN mem = Stages
  /\ \A s \in Stages : \A a \in DOMAIN mem[s] : a \in 0 .. SegSize - 1 /\ mem[s][a] \in 0 .. Sectors - 1

LoadTyped ==
  /\ machine \in Machines /\ stage \in Stages /\ pc \in Pcs
  /\ root_dir_size \in 0 .. RootDirSectors /\ sector_nr \in RootDirSectorNo .. DataSectorNo
  /\ ax \in Bits12 /\ bx \in 0 .. SegSize - 1
  /\ SegmentsTyped

\* No entry of the sectors already searched is the file's.
Searched ==
  /\ pc \in {"search", "memchk"} =>
       /\ root_dir_size + sector_nr = DataSectorNo
       /\ \A n \in DOMAIN machine.root :
            n <= (sector_nr - RootDirSectorNo) * EntriesPerSec => ~Matches(Root(n))
  /\ pc = "missing" => \A n \in DOMAIN machine.root : ~Matches(Root(n))

\* Sector j of the file lies at its place.
InPlace(j) ==
  /\ Off + (j - 1) * BytsPerSec \in DOMAIN mem[stage]
  /\ mem[stage][Off + (j - 1) * BytsPerSec] = file.chain[j] + DataSectorNo - 2

\* What is being loaded is a file of the directory, cluster k of it is next
\* or has just come, and unless bx has wrapped those before it are in place.
At(k) ==
  /\ ax = file.chain[k]
  /\ Fits => /\ bx = Off + (k - 1) * BytsPerSec
             /\ \A j \in DOMAIN file.chain : j < k => InPlace(j)
             /\ pc # "load" => InPlace(k)
  /\ pc = "loaded" => k = Len(file.chain)

OnWay ==
  pc \in {"load", "next", "loaded"} =>
    /\ \E n \in DOMAIN machine.root : file = Root(n) /\ Matches(file)
    /\ \E k \in DOMAIN file.chain : At(k)

\* All usable memory of the ranges looked at is below the size found.
Found(upto) ==
  \A n \in DOMAIN machine.ranges :
    LET r == machine.ranges[n]
    IN  n < upto /\ Usable(r) /\ r.base + r.len < WordMB => r.base + r.len <= dwMemSize

Measured ==
  /\ dwMCRNumber \in {0, Len(machine.ranges)}
  /\ dwMemSize \in 0 .. WordMB - 1
  /\ esi \in Nat
  /\ pc \in {"search", "load", "next", "loaded", "memchk"} => esi = 1
  /\ pc = "meminfo" => esi > 0 /\ (dwMCRNumber = 0 \/ esi <= dwMCRNumber) /\ Found(esi)
  /\ pc = "paging" => Found(Len(machine.ranges) + 1)
  /\ RamMapped

LoadInv == LoadTyped /\ Searched /\ OnWay /\ Measured
-----------------------------------------------------------------------------
(* What the proofs of the steps share.                                     *)

\* The sizes, as numbers.
LEMMA Sizes ==
  /\ BytsPerSec \in Nat \ {0} /\ RootDirSectors \in Nat \ {0} /\ EntriesPerSec \in Nat \ {0}
  /\ FATSz \in Nat /\ Sectors \in Nat /\ SegSize \in Nat \ {0} /\ MaxErrors \in Nat
  /\ WordMB \in Nat \ {0} /\ WordMB <= 4096
  /\ RootDirSectorNo \in Nat /\ DataSectorNo = RootDirSectorNo + RootDirSectors
  /\ DeltaSectorNo \in Int /\ RootDirSectors + DeltaSectorNo = DataSectorNo - 2
BY BootLoaderAssumption, SMT DEF RootDirSectorNo, DataSectorNo, DeltaSectorNo

\* The file's place in its segment.
LEMMA OffTyped == ASSUME stage \in Stages PROVE Off \in 0 .. SegSize - 1
BY BootLoaderAssumption, SMT DEF Off, Stages

\* Sectors follow one another.
LEMMA Sectorwise ==
  ASSUME NEW b \in Nat, NEW j \in Nat, NEW k \in Nat, j < k
  PROVE  j * b + b <= k * b /\ j * b \in Nat /\ k * b \in Nat
<1>1. k - j - 1 \in Nat
  OBVIOUS
<1> DEFINE d == k - j - 1
<1>2. k = j + 1 + d /\ d \in Nat
  BY <1>1
<1> HIDE DEF d
<1>3. k * b = j * b + b + d * b /\ d * b \in Nat /\ j * b \in Nat
  BY <1>2, SMT
<1> QED
  BY <1>3, SMT

(* A sector that is read gets to its place, and nothing in front of that   *)
(* place is touched.                                                       *)
LEMMA PutWrites ==
  ASSUME stage \in Stages, SegmentsTyped, NEW at \in 0 .. SegSize - 1,
         NEW n \in Nat, OnDisk(n), Put(at, n)
  PROVE  /\ SegmentsTyped'
         /\ at \in DOMAIN mem'[stage] /\ mem'[stage][at] = n
         /\ \A a \in DOMAIN mem[stage] :
              a + BytsPerSec <= at => a \in DOMAIN mem'[stage] /\ mem'[stage][a] = mem[stage][a]
<1> DEFINE kept == {b \in DOMAIN mem[stage] : b + BytsPerSec <= at \/ at + BytsPerSec <= b} \cup {at}
           new == [a \in kept |-> IF a = at THEN ReadSector(n) ELSE mem[stage][a]]
<1>1. ReadSector(n) = n /\ n \in 0 .. Sectors - 1
  BY ReadsAsked, Sizes DEF OnDisk
<1>2. mem' = [mem EXCEPT ![stage] = new]
  BY Zenon DEF Put
<1>3. DOMAIN mem = Stages
  BY DEF SegmentsTyped
<1>4. mem'[stage] = new /\ DOMAIN mem' = Stages /\ \A s \in Stages \ {stage} : mem'[s] = mem[s]
  BY <1>2, <1>3
<1>5. DOMAIN new = kept /\ \A a \in kept : new[a] = IF a = at THEN n ELSE mem[stage][a]
  BY <1>1
<1> HIDE DEF new
<1>6. \A a \in kept : a \in 0 .. SegSize - 1 /\ new[a] \in 0 .. Sectors - 1
  BY <1>1, <1>5 DEF SegmentsTyped
<1>7. SegmentsTyped'
  BY <1>4, <1>5, <1>6 DEF SegmentsTyped
<1>8. at \in kept /\ new[at] = n
  BY <1>5
<1>9. \A a \in DOMAIN mem[stage] : a + BytsPerSec <= at => a \in kept /\ a # at
  BY Sizes DEF SegmentsTyped
<1> QED
  BY <1>4, <1>5, <1>7, <1>8, <1>9

(* What holds of variables a step leaves alone goes on holding.            *)
LEMMA LoadTypedKept ==
  ASSUME LoadTyped, UNCHANGED <<machine, stage, loadVars>>, pc' \in Pcs
  PROVE  LoadTyped'
BY DEF LoadTyped, SegmentsTyped, loadVars

LEMMA SearchedKept ==
  ASSUME Searched, UNCHANGED <<machine, stage, pc, root_dir_size, sector_nr>>
  PROVE  Searched'
BY Zenon DEF Searched, Matches, Root

LEMMA SearchedElsewhere ==
  ASSUME pc' \notin {"search", "memchk", "missing"}
  PROVE  Searched'
BY Zenon DEF Searched

LEMMA OnWayKept ==
  ASSUME OnWay, UNCHANGED <<machine, stage, pc, loadVars>>
  PROVE  OnWay'
BY Zenon DEF OnWay, At, InPlace, Fits, Off, Matches, Root, loadVars

LEMMA OnWayElsewhere ==
  ASSUME pc' \notin {"load", "next", "loaded"}
  PROVE  OnWay'
BY Zenon DEF OnWay

LEMMA MeasuredKept ==
  ASSUME Measured, UNCHANGED <<machine, ramVars>>,
         \/ pc' = pc
         \/ pc \in {"search", "load", "next", "loaded"} /\ pc' \in {"load", "next", "loaded", "memchk"}
         \/ pc' \notin {"search", "load", "next", "loaded", "memchk", "meminfo", "paging", "start"}
  PROVE  Measured'
<1>1. Found(Len(machine.ranges) + 1)' = Found(Len(machine.ranges) + 1) /\ Found(esi)' = Found(esi)
  BY Zenon DEF Found, Usable, ramVars
<1>2. /\ UNCHANGED <<dwMCRNumber, dwMemSize, esi, pagedirs, machine>>
  BY DEF ramVars
<1>3. RamMapped'
  BY <1>2 DEF Measured, RamMapped, Usable
<1> QED
  BY <1>1, <1>2, <1>3 DEF Measured
-----------------------------------------------------------------------------
(* The steps, those of the search first.                                   *)

\* A read that fails.
LEMMA RetryKeeps == ASSUME LoadInv, Retry PROVE LoadInv'
<1>1. UNCHANGED <<machine, stage, pc, loadVars, ramVars>>
  BY Zenon DEF Retry
<1>2. pc' \in Pcs
  BY <1>1 DEF LoadInv, LoadTyped
<1> QED
  BY <1>1, <1>2, LoadTypedKept, SearchedKept, OnWayKept, MeasuredKept DEF LoadInv, loadVars

(* When the counter is used up the whole directory has been looked at.     *)
LEMMA NoFileKeeps == ASSUME LoadInv, NoFile PROVE LoadInv'
<1>1. /\ pc = "search" /\ pc' = "missing" /\ root_dir_size = 0
      /\ UNCHANGED <<machine, stage, loadVars, ramVars>>
  BY Zenon DEF NoFile
<1>2. LoadTyped'
  BY <1>1, LoadTypedKept DEF LoadInv, Pcs
<1>3. Searched'
  <2>1. sector_nr = DataSectorNo
    BY <1>1 DEF LoadInv, LoadTyped, Searched
  <2>2. (sector_nr - RootDirSectorNo) * EntriesPerSec = RootDirSectors * EntriesPerSec
    BY <2>1, Sizes
  <2>3. ASSUME NEW n \in DOMAIN machine.root PROVE ~Matches(Root(n))
    <3>1. n <= RootDirSectors * EntriesPerSec
      <4>1. machine \in Machines
        BY DEF LoadInv, LoadTyped
      <4>2. Len(machine.root) \in Nat /\ n \in 1 .. Len(machine.root)
            /\ Len(machine.root) <= RootDirSectors * EntriesPerSec
        BY <4>1, Floppy
      <4>3. RootDirSectors * EntriesPerSec \in Nat
        BY Sizes
      <4> QED
        BY <4>2, <4>3
    <3> QED
      BY <1>1, <2>2, <3>1, Zenon DEF LoadInv, Searched
  <2> QED
    BY <1>1, <2>3 DEF Searched, Matches, Root
<1>4. OnWay'
  BY <1>1, OnWayElsewhere
<1>5. Measured'
  BY <1>1, MeasuredKept DEF LoadInv
<1> QED
  BY <1>2, <1>3, <1>4, <1>5 DEF LoadInv

(* What a sector of the directory holds is read from that sector.          *)
LEMMA SectorRead ==
  ASSUME LoadInv, SearchRootDir
  PROVE  /\ sector_nr \in Nat /\ ReadSector(sector_nr) = sector_nr
         /\ root_dir_size' = root_dir_size - 1 /\ root_dir_size' \in 0 .. RootDirSectors
         /\ root_dir_size + sector_nr = DataSectorNo
         /\ SegmentsTyped'
         /\ UNCHANGED <<machine, stage, ramVars>>
<1>1. /\ pc = "search" /\ root_dir_size > 0 /\ OnDisk(sector_nr)
      /\ root_dir_size' = root_dir_size - 1 /\ Put(Off, sector_nr)
      /\ UNCHANGED <<machine, stage, ramVars>>
  BY Zenon DEF SearchRootDir
<1>2. /\ sector_nr \in Nat /\ stage \in Stages /\ SegmentsTyped
      /\ root_dir_size \in 0 .. RootDirSectors
  BY Sizes DEF LoadInv, LoadTyped
<1>3. root_dir_size + sector_nr = DataSectorNo
  BY <1>1, Zenon DEF LoadInv, Searched
<1>4. SegmentsTyped'
  BY <1>1, <1>2, OffTyped, PutWrites, Zenon
<1>5. root_dir_size' \in 0 .. RootDirSectors
  BY <1>1, <1>2, Sizes
<1> QED
  BY <1>1, <1>2, <1>3, <1>4, <1>5, ReadsAsked, Zenon

(* A sector in which no name matches has no entry of the file.             *)
LEMMA NextRootSectorKeeps == ASSUME LoadInv, NextRootSector PROVE LoadInv'
<1>1. /\ SearchRootDir /\ Hits(sector_nr) = {} /\ pc = "search" /\ pc' = pc
      /\ sector_nr' = sector_nr + 1 /\ UNCHANGED <<file, ax, bx>>
  BY Zenon DEF NextRootSector, SearchRootDir
<1>2. /\ sector_nr \in Nat /\ ReadSector(sector_nr) = sector_nr
      /\ root_dir_size' = root_dir_size - 1 /\ root_dir_size' \in 0 .. RootDirSectors
      /\ root_dir_size + sector_nr = DataSectorNo /\ root_dir_size \in 0 .. RootDirSectors
      /\ SegmentsTyped' /\ UNCHANGED <<machine, stage, ramVars>>
  BY <1>1, SectorRead DEF LoadInv, LoadTyped
<1>3. root_dir_size' + sector_nr' = DataSectorNo /\ sector_nr' \in RootDirSectorNo .. DataSectorNo
  BY <1>1, <1>2, Sizes
<1>4. LoadTyped'
  BY <1>1, <1>2, <1>3 DEF LoadInv, LoadTyped
<1>5. Searched'
  <2> DEFINE done == (sector_nr - RootDirSectorNo) * EntriesPerSec
  <2>1. done \in Int /\ (sector_nr' - RootDirSectorNo) * EntriesPerSec = done + EntriesPerSec
    BY <1>1, <1>2, Sizes
  <2> HIDE DEF done
  <2>2. ASSUME NEW n \in DOMAIN machine.root, n <= done + EntriesPerSec
        PROVE  ~Matches(Root(n))
    <3>1. n \in Nat
      <4>1. machine \in Machines
        BY DEF LoadInv, LoadTyped
      <4> QED
        BY <4>1, Floppy
    <3>2. CASE n <= done
      BY <1>1, <3>2, Zenon DEF LoadInv, Searched, done
    <3>3. CASE n > done
      <4>1. n - done \in 1 .. EntriesPerSec /\ done + (n - done) = n
        BY <2>1, <2>2, <3>1, <3>3, Sizes
      <4>2. Entry(sector_nr, n - done) = Root(n)
        BY <4>1, Zenon DEF Entry, done
      <4>3. ~Matches(Entry(ReadSector(sector_nr), n - done))
        BY <1>1, <4>1, Zenon DEF Hits
      <4> QED
        BY <1>2, <4>2, <4>3, Zenon
    <3> QED
      BY <2>1, <3>1, <3>2, <3>3
  <2> QED
    BY <1>1, <1>2, <1>3, <2>1, <2>2 DEF Searched, Matches, Root
<1>6. OnWay'
  BY <1>1, OnWayElsewhere
<1>7. Measured'
  BY <1>1, <1>2, MeasuredKept DEF LoadInv
<1> QED
  BY <1>4, <1>5, <1>6, <1>7 DEF LoadInv

(* The entry found is in the directory, its first cluster is loaded first. *)
LEMMA FilenameFoundKeeps == ASSUME LoadInv, FilenameFound PROVE LoadInv'
<1>1. /\ SearchRootDir /\ pc = "search" /\ pc' = "load"
      /\ ax' = Head(file'.chain) /\ bx' = Off /\ UNCHANGED sector_nr
  BY Zenon DEF FilenameFound, SearchRootDir
<1>2. PICK h \in 1 .. EntriesPerSec :
        Matches(Entry(ReadSector(sector_nr), h)) /\ file' = Entry(ReadSector(sector_nr), h)
  BY Zenon DEF FilenameFound, Hits
<1>3. /\ sector_nr \in Nat /\ root_dir_size' = root_dir_size - 1
      /\ root_dir_size' \in 0 .. RootDirSectors
      /\ root_dir_size + sector_nr = DataSectorNo /\ root_dir_size \in 0 .. RootDirSectors
      /\ SegmentsTyped' /\ UNCHANGED <<machine, stage, ramVars>>
      /\ machine \in Machines /\ stage \in Stages
  BY <1>1, SectorRead DEF LoadInv, LoadTyped
<1>4. PICK n \in DOMAIN machine.root : file' = Root(n) /\ Matches(Root(n))
  <2>1. ~Matches(Empty)
    <3>1. Empty.agree[stage] = 0
      BY <1>3 DEF Empty
    <3> QED
      BY <3>1 DEF Matches
  <2>2. file' = Empty \/ \E n \in DOMAIN machine.root : file' = Root(n)
    BY <1>2, Zenon DEF Entry
  <2> QED
    BY <1>2, <2>1, <2>2, Zenon
<1>5. /\ Len(Root(n).chain) \in Nat \ {0} /\ DOMAIN Root(n).chain = 1 .. Len(Root(n).chain)
      /\ Head(Root(n).chain) = Root(n).chain[1]
  <2>1. Root(n).chain # <<>>
    BY <1>3, <1>4, Floppy DEF Matches
  <2>2. Root(n).chain \in Seq(Clusters)
    BY <1>3, Floppy DEF Entries
  <2>3. Len(Root(n).chain) # 0
    BY <2>1, <2>2, EmptySeq
  <2>4. Head(Root(n).chain) = Root(n).chain[1]
    BY DEF Head
  <2> QED
    BY <1>3, <2>3, <2>4, Chained
<1>6. /\ 1 \in DOMAIN Root(n).chain /\ ax' = Root(n).chain[1] /\ ax' \in Clusters
  BY <1>1, <1>3, <1>4, <1>5, Chained
<1>7. LoadTyped'
  <2>1. sector_nr' \in RootDirSectorNo .. DataSectorNo
    BY <1>1 DEF LoadInv, LoadTyped
  <2>2. ax' \in Bits12 /\ bx' \in 0 .. SegSize - 1
    BY <1>1, <1>3, <1>6, ClusterNumbers, OffTyped, Zenon
  <2> QED
    BY <1>1, <1>3, <2>1, <2>2 DEF LoadTyped, Pcs
<1>8. Searched'
  BY <1>1, SearchedElsewhere
<1>9. OnWay'
  <2>1. Root(n)' = Root(n) /\ machine' = machine /\ Matches(Root(n))' = Matches(Root(n))
    BY <1>3, Zenon DEF Root, Matches
  <2>2. Matches(file)'
    BY <1>3, <1>4, Zenon DEF Matches
  <2>3. At(1)'
    <3>1. Off' = Off /\ Off \in Nat
      BY <1>3, OffTyped, Sizes DEF Off
    <3>2. bx' = Off' + (1 - 1) * BytsPerSec
      BY <1>1, <3>1, Sizes
    <3>3. \A j \in DOMAIN file'.chain : ~(j < 1)
      BY <1>4, <1>5
    <3> QED
      BY <1>1, <1>4, <1>6, <3>2, <3>3 DEF At
  <2> QED
    BY <1>4, <1>6, <2>1, <2>2, <2>3 DEF OnWay
<1>10. Measured'
  BY <1>1, <1>3, MeasuredKept DEF LoadInv
<1> QED
  BY <1>7, <1>8, <1>9, <1>10 DEF LoadInv
-----------------------------------------------------------------------------
(* The walk along the FAT.                                                 *)

\* What is known of the file on the way.
LEMMA Walking ==
  ASSUME LoadInv, pc \in {"load", "next", "loaded"}
  PROVE  \E n \in DOMAIN machine.root, k \in DOMAIN file.chain :
           /\ file = Root(n) /\ Matches(file) /\ At(k)
           /\ machine \in Machines
           /\ Len(file.chain) \in Nat /\ DOMAIN file.chain = 1 .. Len(file.chain)
           /\ ax \in Clusters
<1>1. PICK n \in DOMAIN machine.root : file = Root(n) /\ Matches(file)
  BY Zenon DEF LoadInv, OnWay
<1>2. PICK k \in DOMAIN file.chain : At(k)
  BY Zenon DEF LoadInv, OnWay
<1>3. machine \in Machines
  BY DEF LoadInv, LoadTyped
<1>4. /\ Len(file.chain) \in Nat /\ DOMAIN file.chain = 1 .. Len(file.chain)
      /\ \A i \in DOMAIN file.chain : file.chain[i] \in Clusters
  BY <1>1, <1>3, Chained
<1>5. ax \in Clusters
  BY <1>2, <1>4 DEF At
<1> QED
  BY <1>1, <1>2, <1>3, <1>4, <1>5, Zenon

(* A cluster's sector is put at bx, behind those already there.            *)
LEMMA LoadSectorKeeps == ASSUME LoadInv, LoadSector PROVE LoadInv'
<1> DEFINE sector == ax + RootDirSectors + DeltaSectorNo
<1>1. /\ pc = "load" /\ pc' = "next" /\ OnDisk(sector) /\ Put(bx, sector)
      /\ UNCHANGED <<machine, stage, root_dir_size, sector_nr, file, ax, bx, ramVars>>
  BY Zenon DEF LoadSector
<1>2. PICK n \in DOMAIN machine.root, k \in DOMAIN file.chain :
           /\ file = Root(n) /\ Matches(file) /\ At(k)
           /\ machine \in Machines
           /\ Len(file.chain) \in Nat /\ DOMAIN file.chain = 1 .. Len(file.chain)
           /\ ax \in Clusters
  BY <1>1, Walking
<1>3. sector \in Nat /\ sector = ax + DataSectorNo - 2
  BY <1>2, Sizes DEF Clusters
<1> HIDE DEF sector
<1>4. /\ SegmentsTyped' /\ bx \in DOMAIN mem'[stage] /\ mem'[stage][bx] = sector
      /\ \A a \in DOMAIN mem[stage] :
           a + BytsPerSec <= bx => a \in DOMAIN mem'[stage] /\ mem'[stage][a] = mem[stage][a]
  <2>1. stage \in Stages /\ SegmentsTyped /\ bx \in 0 .. SegSize - 1
    BY DEF LoadInv, LoadTyped
  <2> QED
    BY <1>1, <1>3, <2>1, PutWrites, Zenon
<1>5. LoadTyped'
  BY <1>1, <1>4 DEF LoadInv, LoadTyped, Pcs
<1>6. Searched'
  BY <1>1, SearchedElsewhere
<1>7. OnWay'
  <2>1. Root(n)' = Root(n) /\ Matches(file)' = Matches(file)
    BY <1>1, Zenon DEF Root, Matches
  <2>2. Fits' = Fits /\ Off' = Off
    BY <1>1, Zenon DEF Fits, Off
  <2>3. ASSUME Fits PROVE InPlace(k)'
    BY <1>1, <1>2, <1>3, <1>4, <2>2, <2>3 DEF InPlace, At
  <2>4. ASSUME Fits, NEW j \in DOMAIN file.chain, j < k PROVE InPlace(j)'
    <3>1. InPlace(j) /\ bx = Off + (k - 1) * BytsPerSec
      BY <1>2, <2>4, Zenon DEF At
    <3>2. Off + (j - 1) * BytsPerSec + BytsPerSec <= bx
      <4>1. j - 1 \in Nat /\ k - 1 \in Nat /\ j - 1 < k - 1 /\ BytsPerSec \in Nat /\ Off \in Nat
        <5>1. Off \in Nat /\ BytsPerSec \in Nat
          <6>1. stage \in Stages
            BY DEF LoadInv, LoadTyped
          <6> QED
            BY <6>1, OffTyped, Sizes
        <5>2. j \in Nat /\ k \in Nat /\ j > 0 /\ k > 0 /\ j < k
          BY <1>2, <2>4
        <5> QED
          BY <5>1, <5>2
      <4>2. /\ (j - 1) * BytsPerSec + BytsPerSec <= (k - 1) * BytsPerSec
            /\ (j - 1) * BytsPerSec \in Nat /\ (k - 1) * BytsPerSec \in Nat
        BY <4>1, Sectorwise
      <4> QED
        BY <3>1, <4>1, <4>2
    <3> QED
      BY <1>1, <1>4, <2>2, <3>1, <3>2 DEF InPlace
  <2>5. At(k)'
    BY <1>1, <1>2, <2>2, <2>3, <2>4 DEF At
  <2> QED
    BY <1>1, <1>2, <2>1, <2>5 DEF OnWay
<1>8. Measured'
  BY <1>1, MeasuredKept DEF LoadInv
<1> QED
  BY <1>5, <1>6, <1>7, <1>8 DEF LoadInv

(* The next cluster is the file's next, and bx moves on by a sector unless *)
(* it wraps, which it does not for a file that fits.                       *)
LEMMA NextSectorKeeps == ASSUME LoadInv, NextSector PROVE LoadInv'
<1>0. ax' = FATEntry(ax) /\ ax' < 4088
  BY DEF NextSector
<1>1. /\ pc = "next" /\ ax' = FATEntry(ax) /\ bx' = Advance(bx)
      /\ pc' = "load"
      /\ UNCHANGED <<machine, stage, root_dir_size, sector_nr, file, mem, ramVars>>
  BY DEF NextSector
<1>2. PICK n \in DOMAIN machine.root, k \in DOMAIN file.chain :
           /\ file = Root(n) /\ Matches(file) /\ At(k)
           /\ machine \in Machines
           /\ Len(file.chain) \in Nat /\ DOMAIN file.chain = 1 .. Len(file.chain)
           /\ ax \in Clusters
  BY <1>1, Walking
<1>3. ax' = IF k = Len(file.chain) THEN machine.eof ELSE file.chain[k + 1]
  <2>1. FATEntry(ax) = FAT(ax)
    BY <1>2, FATDecoded, ClusterNumbers
  <2>2. ax = Root(n).chain[k] /\ k \in DOMAIN Root(n).chain
    BY <1>2, Zenon DEF At
  <2>3. FAT(ax) = IF k = Len(Root(n).chain) THEN machine.eof ELSE Root(n).chain[k + 1]
    BY <1>2, <2>2, FATAlong, Zenon
  <2> QED
    BY <1>1, <1>2, <2>1, <2>3, Zenon
<1>4. k # Len(file.chain)
  <2>1. machine.eof \in Marks
    BY <1>2, Floppy
  <2>2. machine.eof \in Nat /\ machine.eof >= 4088
    BY <2>1, Numbers
  <2> QED
    BY <1>0, <1>3, <2>2
<1>5. k + 1 \in DOMAIN file.chain /\ ax' = file.chain[k + 1]
  BY <1>2, <1>3, <1>4
<1>6. LoadTyped'
  <2>1. ax' \in Bits12
    <3>1. FAT(ax) \in Bits12 /\ FATEntry(ax) = FAT(ax)
      BY <1>2, FATTyped, FATDecoded, ClusterNumbers
    <3> QED
      BY <1>1, <3>1, Zenon
  <2>2. bx' \in 0 .. SegSize - 1
    <3>1. bx \in 0 .. SegSize - 1
      BY DEF LoadInv, LoadTyped
    <3> QED
      BY <1>1, <3>1, Sizes DEF Advance
  <2> QED
    BY <1>1, <2>1, <2>2 DEF LoadInv, LoadTyped, SegmentsTyped, Pcs
<1>7. Searched'
  BY <1>1, SearchedElsewhere
<1>8. OnWay'
  <2>1. Root(n)' = Root(n) /\ Matches(file)' = Matches(file)
    BY <1>1, Zenon DEF Root, Matches
  <2>2. Fits' = Fits /\ Off' = Off
    BY <1>1, Zenon DEF Fits, Off
  <2>3. \A j \in DOMAIN file.chain : InPlace(j)' = InPlace(j)
    BY <1>1, <2>2, Zenon DEF InPlace
  <2>4. ASSUME Fits PROVE bx' = Off + k * BytsPerSec
    <3>1. stage \in Stages /\ bx = Off + (k - 1) * BytsPerSec
      BY <1>2, <2>4 DEF LoadInv, LoadTyped, At
    <3>0. BytsPerSec \in Nat \ {0} /\ SegSize \in Nat \ {0} /\ Off \in 0 .. SegSize - 1
      BY <3>1, OffTyped, Sizes
    <3>2. /\ k \in Nat /\ k < Len(file.chain) /\ k - 1 \in Nat /\ BytsPerSec \in Nat
          /\ Off \in Nat
      BY <1>2, <1>4, <3>0
    <3>3. /\ k * BytsPerSec + BytsPerSec <= Len(file.chain) * BytsPerSec
          /\ k * BytsPerSec \in Nat /\ Len(file.chain) * BytsPerSec \in Nat
      BY <1>2, <3>2, Sectorwise
    <3>4. (k - 1) * BytsPerSec + BytsPerSec = k * BytsPerSec /\ (k - 1) * BytsPerSec \in Nat
      BY <3>2
    <3>5. Off + Len(file.chain) * BytsPerSec <= SegSize
      BY <2>4 DEF Fits
    <3>6. bx + BytsPerSec = Off + k * BytsPerSec /\ Off + k * BytsPerSec \in 0 .. SegSize - 1
      <4> DEFINE before == (k - 1) * BytsPerSec
                 upto == k * BytsPerSec
                 all == Len(file.chain) * BytsPerSec
                 o == Off
      <4>1. /\ bx = o + before /\ before + BytsPerSec = upto /\ before \in Nat /\ o \in Nat
            /\ upto + BytsPerSec <= all /\ o + all <= SegSize /\ upto \in Nat /\ all \in Nat
        BY <3>1, <3>2, <3>3, <3>4, <3>5
      <4> HIDE DEF before, upto, all, o
      <4>2. bx + BytsPerSec = o + upto /\ o + upto \in 0 .. SegSize - 1
        BY <3>0, <4>1
      <4> QED
        BY <4>2 DEF upto, o
    <3>7. \A x \in 0 .. SegSize - 1 : x % SegSize = x
      BY <3>0
    <3> QED
      BY <1>1, <3>6, <3>7, Zenon DEF Advance
  <2>5. ASSUME Fits, NEW j \in DOMAIN file.chain, j < k + 1 PROVE InPlace(j)'
    <3>1. j < k \/ j = k
      BY <1>2, <2>5
    <3>2. InPlace(j)
      BY <1>1, <1>2, <2>5, <3>1 DEF At
    <3> QED
      BY <2>3, <3>2, Zenon
  <2>6. At(k + 1)'
    <3>1. (k + 1) - 1 = k
      BY <1>2
    <3> QED
      BY <1>1, <1>5, <2>2, <2>4, <2>5, <3>1 DEF At
  <2> QED
    BY <1>1, <1>2, <1>5, <2>1, <2>6 DEF OnWay
<1>9. Measured'
  BY <1>1, MeasuredKept DEF LoadInv
<1> QED
  BY <1>6, <1>7, <1>8, <1>9 DEF LoadInv

(* The mark is found at the last cluster and nowhere else.                 *)
LEMMA LastSectorKeeps == ASSUME LoadInv, LastSector PROVE LoadInv'
<1>0. FATEntry(ax) >= 4088
  BY DEF LastSector
<1>1. /\ pc = "next" /\ pc' = "loaded"
      /\ UNCHANGED <<machine, stage, loadVars, ramVars>>
  BY DEF LastSector
<1>2. PICK n \in DOMAIN machine.root, k \in DOMAIN file.chain :
           /\ file = Root(n) /\ Matches(file) /\ At(k)
           /\ machine \in Machines
           /\ Len(file.chain) \in Nat /\ DOMAIN file.chain = 1 .. Len(file.chain)
           /\ ax \in Clusters
  BY <1>1, Walking
<1>3. k = Len(file.chain)
  <2>1. FATEntry(ax) = FAT(ax)
    BY <1>2, FATDecoded, ClusterNumbers
  <2>2. ax = Root(n).chain[k] /\ k \in DOMAIN Root(n).chain
    BY <1>2, Zenon DEF At
  <2>3. FAT(ax) = IF k = Len(Root(n).chain) THEN machine.eof ELSE Root(n).chain[k + 1]
    BY <1>2, <2>2, FATAlong, Zenon
  <2>4. ASSUME k # Len(file.chain) PROVE FALSE
    <3>1. k + 1 \in DOMAIN file.chain
      BY <1>2, <2>4
    <3>2. file.chain[k + 1] \in Clusters
      BY <1>2, <3>1, Chained
    <3>3. file.chain[k + 1] \in Nat /\ file.chain[k + 1] < 4088
      BY <3>2, Numbers
    <3>4. FATEntry(ax) = file.chain[k + 1]
      BY <1>2, <2>1, <2>3, <2>4, Zenon
    <3> QED
      BY <1>0, <3>3, <3>4
  <2> QED
    BY <2>4
<1>4. LoadTyped'
  BY <1>1, LoadTypedKept DEF LoadInv, Pcs
<1>5. Searched'
  BY <1>1, SearchedElsewhere
<1>6. OnWay'
  <2>1. Matches(file)' = Matches(file) /\ Fits' = Fits /\ Off' = Off /\ Root(n)' = Root(n)
    BY <1>1, Zenon DEF Root, Matches, Fits, Off, loadVars
  <2>2. \A j \in DOMAIN file.chain : InPlace(j)' = InPlace(j)
    BY <1>1, <2>1, Zenon DEF InPlace, loadVars
  <2>3. At(k)'
    BY <1>1, <1>2, <1>3, <2>1, <2>2 DEF At, loadVars
  <2> QED
    BY <1>1, <1>2, <2>1, <2>3 DEF OnWay, loadVars
<1>7. Measured'
  BY <1>1, MeasuredKept DEF LoadInv
<1> QED
  BY <1>4, <1>5, <1>6, <1>7 DEF LoadInv
-----------------------------------------------------------------------------
(* Handing over, and the memory.                                           *)

(* A boot program starts its search anew; what its predecessor has found   *)
(* of the memory is kept.                                                  *)
LEMMA HandoverKeeps == ASSUME LoadInv, Handover PROVE LoadInv'
<1>1. /\ pc = "loaded" /\ pc' \in {"lost", "memchk", "meminfo"} /\ stage' = "KERNEL"
      /\ root_dir_size' = RootDirSectors /\ sector_nr' = RootDirSectorNo
      /\ UNCHANGED <<machine, file, ax, bx, mem, ramVars>>
  BY DEF Handover
<1>2. LoadTyped'
  <2>1. root_dir_size' \in 0 .. RootDirSectors /\ sector_nr' \in RootDirSectorNo .. DataSectorNo
    BY <1>1, Sizes
  <2>2. stage' \in Stages /\ pc' \in Pcs
    BY <1>1 DEF Stages, Pcs
  <2> QED
    BY <1>1, <2>1, <2>2 DEF LoadInv, LoadTyped, SegmentsTyped
<1>3. Searched'
  <2>1. root_dir_size' + sector_nr' = DataSectorNo
    BY <1>1, Sizes
  <2>2. (sector_nr' - RootDirSectorNo) * EntriesPerSec = 0
    BY <1>1, Sizes
  <2>3. \A n \in DOMAIN machine.root : ~(n <= 0)
    <3>1. machine \in Machines
      BY DEF LoadInv, LoadTyped
    <3> QED
      BY <3>1, Floppy
  <2> QED
    BY <1>1, <2>1, <2>2, <2>3 DEF Searched
<1>4. OnWay'
  BY <1>1, OnWayElsewhere
<1>5. Measured'
  <2>1. UNCHANGED <<machine, dwMCRNumber, dwMemSize, esi, pagedirs>>
    BY <1>1 DEF ramVars
  <2>2. esi = 1 /\ esi' = 1
    BY <1>1, <2>1 DEF LoadInv, Measured
  <2>3. Found(esi)'
    <3>1. \A n \in DOMAIN machine.ranges : ~(n < 1)
      <4>1. machine \in Machines
        BY DEF LoadInv, LoadTyped
      <4> QED
        BY <4>1, Floppy
    <3> QED
      BY <2>1, <2>2, <3>1 DEF Found
  <2>4. RamMapped'
    BY <1>1 DEF RamMapped
  <2>5. dwMCRNumber \in {0, Len(machine.ranges)} /\ Len(machine.ranges) \in Nat
    <3>1. machine \in Machines
      BY DEF LoadInv, LoadTyped
    <3> QED
      BY <3>1, Floppy DEF LoadInv, Measured
  <2>6. dwMCRNumber = 0 \/ esi <= dwMCRNumber
    BY <2>2, <2>5
  <2> QED
    BY <1>1, <2>1, <2>2, <2>3, <2>4, <2>6 DEF LoadInv, Measured
<1> QED
  BY <1>2, <1>3, <1>4, <1>5 DEF LoadInv

(* The BIOS tells all ranges of memory or none.                            *)
LEMMA MemChkKeeps == ASSUME LoadInv, MemChk PROVE LoadInv'
<1>1. /\ pc = "memchk" /\ pc' = "search" /\ dwMCRNumber' \in {0, Len(machine.ranges)}
      /\ UNCHANGED <<machine, stage, loadVars, dwMemSize, esi, pagedirs>>
  BY DEF MemChk
<1>2. LoadTyped'
  BY <1>1, LoadTypedKept DEF LoadInv, Pcs
<1>3. Searched'
  BY <1>1 DEF LoadInv, Searched, Matches, Root, loadVars
<1>4. OnWay'
  BY <1>1, OnWayElsewhere
<1>5. Measured'
  BY <1>1 DEF LoadInv, Measured, RamMapped
<1> QED
  BY <1>2, <1>3, <1>4, <1>5 DEF LoadInv

\* A range of memory has numbers.
LEMMA RangeTyped ==
  ASSUME machine \in Machines, NEW n \in DOMAIN machine.ranges
  PROVE  machine.ranges[n].base \in Nat /\ machine.ranges[n].len \in Nat
<1>1. machine.ranges[n] \in Ranges
  BY Floppy
<1> QED
  BY <1>1 DEF Ranges

(* After a range has been looked at, the size reaches over it too.         *)
LEMMA MemInfoKeeps == ASSUME LoadInv, MemInfo PROVE LoadInv'
<1> DEFINE r == machine.ranges[esi]
           end == (r.base + r.len) % WordMB
<1>1. /\ pc = "meminfo" /\ dwMCRNumber > 0
      /\ dwMemSize' = IF Usable(r) /\ end >= dwMemSize THEN end ELSE dwMemSize
      /\ esi' = esi + 1
      /\ pc' = IF esi = dwMCRNumber THEN "paging" ELSE "meminfo"
      /\ UNCHANGED <<machine, stage, loadVars, dwMCRNumber, pagedirs>>
  BY DEF MemInfo
<1>2. /\ machine \in Machines /\ Len(machine.ranges) \in Nat
      /\ DOMAIN machine.ranges = 1 .. Len(machine.ranges)
  BY Floppy DEF LoadInv, LoadTyped
<1>3. /\ dwMCRNumber = Len(machine.ranges) /\ esi \in Nat /\ esi > 0 /\ esi <= dwMCRNumber
      /\ Found(esi) /\ dwMemSize \in 0 .. WordMB - 1
  BY <1>1 DEF LoadInv, Measured
<1>4. esi \in DOMAIN machine.ranges /\ r.base \in Nat /\ r.len \in Nat
  BY <1>2, <1>3, RangeTyped
<1>5. end \in 0 .. WordMB - 1 /\ (r.base + r.len < WordMB => end = r.base + r.len)
  <2> HIDE DEF r
  <2> QED
    BY <1>4, Sizes
<1> HIDE DEF end
<1>6. /\ dwMemSize' \in 0 .. WordMB - 1 /\ dwMemSize' >= dwMemSize
      /\ Usable(r) => dwMemSize' >= end
  <2> HIDE DEF r
  <2>1. CASE Usable(r) /\ end >= dwMemSize
    BY <1>1, <1>3, <1>5, <2>1
  <2>2. CASE ~(Usable(r) /\ end >= dwMemSize)
    BY <1>1, <1>3, <1>5, <2>2
  <2> QED
    BY <2>1, <2>2
<1>7. LoadTyped'
  BY <1>1, LoadTypedKept DEF LoadInv, Pcs
<1>8. Searched'
  BY <1>1, SearchedElsewhere
<1>9. OnWay'
  BY <1>1, OnWayElsewhere
<1>10. Found(esi)'
  <2> SUFFICES ASSUME NEW n \in DOMAIN machine.ranges, n < esi + 1,
                      Usable(machine.ranges[n]),
                      machine.ranges[n].base + machine.ranges[n].len < WordMB
               PROVE  machine.ranges[n].base + machine.ranges[n].len <= dwMemSize'
    BY <1>1 DEF Found, Usable
  <2>1. machine.ranges[n].base \in Nat /\ machine.ranges[n].len \in Nat /\ n \in Nat
    BY <1>2, RangeTyped
  <2>2. CASE n = esi
    <3>1. r.base + r.len = end /\ dwMemSize' >= end
      BY <1>5, <1>6, <2>2
    <3> QED
      BY <1>5, <1>6, <2>2, <3>1
  <2>3. CASE n # esi
    <3>1. n < esi
      BY <1>3, <2>1, <2>3
    <3>2. machine.ranges[n].base + machine.ranges[n].len <= dwMemSize
      BY <1>3, <3>1, Zenon DEF Found
    <3> QED
      BY <1>3, <1>6, <2>1, <3>2
  <2> QED
    BY <2>2, <2>3
<1>11. Measured'
  <2>1. CASE esi = dwMCRNumber
    <3>0. Len(machine.ranges)' + 1 = esi'
      BY <1>1, <1>3, <2>1
    <3>1. pc' = "paging" /\ Found(Len(machine.ranges) + 1)'
      BY <1>1, <1>10, <2>1, <3>0 DEF Found
    <3> QED
      BY <1>1, <1>3, <1>6, <3>1 DEF Measured, RamMapped
  <2>2. CASE esi # dwMCRNumber
    <3>1. pc' = "meminfo" /\ esi' > 0 /\ esi' <= dwMCRNumber' /\ Found(esi)'
      BY <1>1, <1>2, <1>3, <1>10, <2>2
    <3> QED
      BY <1>1, <1>3, <1>6, <3>1 DEF Measured, RamMapped
  <2> QED
    BY <2>1, <2>2
<1> QED
  BY <1>7, <1>8, <1>9, <1>11 DEF LoadInv

\* No range is known.
LEMMA NoMemInfoKeeps == ASSUME LoadInv, NoMemInfo PROVE LoadInv'
<1>1. pc' = "dead" /\ UNCHANGED <<machine, stage, loadVars, ramVars>>
  BY DEF NoMemInfo
<1> QED
  BY <1>1, LoadTypedKept, SearchedElsewhere, OnWayElsewhere, MeasuredKept DEF LoadInv, Pcs

(* Rounded up, 4 MB an entry, the page directory maps all that was found;  *)
(* 4 GB, which no size exceeds, take its 1024 entries.                     *)
LEMMA SetupPagingKeeps == ASSUME LoadInv, SetupPaging PROVE LoadInv'
<1>1. /\ pc = "paging" /\ pagedirs' = PageDirs(dwMemSize)
      /\ pc' = IF pagedirs' = 0 THEN "dead" ELSE "start"
      /\ UNCHANGED <<machine, stage, loadVars, dwMCRNumber, dwMemSize, esi>>
  BY DEF SetupPaging
<1>2. LoadTyped'
  BY <1>1, LoadTypedKept DEF LoadInv, Pcs
<1>3. Searched'
  BY <1>1, SearchedElsewhere
<1>4. OnWay'
  BY <1>1, OnWayElsewhere
<1>5. dwMemSize \in Nat /\ Found(Len(machine.ranges) + 1)
  BY <1>1, Sizes DEF LoadInv, Measured
<1>0. dwMemSize <= 4095
  BY Sizes DEF LoadInv, Measured
<1>6. pagedirs' \in Nat /\ dwMemSize <= 4 * pagedirs'
  BY <1>1, <1>5 DEF PageDirs
<1>9. pagedirs' <= 1024
  BY <1>0, <1>1, <1>5 DEF PageDirs
<1>7. RamMapped'
  <2>1. machine \in Machines /\ Len(machine.ranges) \in Nat
        /\ DOMAIN machine.ranges = 1 .. Len(machine.ranges)
    BY Floppy DEF LoadInv, LoadTyped
  <2>2. ASSUME NEW n \in DOMAIN machine.ranges, Usable(machine.ranges[n]),
               machine.ranges[n].base + machine.ranges[n].len < WordMB
        PROVE  machine.ranges[n].base + machine.ranges[n].len <= 4 * pagedirs'
    <3>1. machine.ranges[n].base \in Nat /\ machine.ranges[n].len \in Nat
      BY <2>1, RangeTyped
    <3>2. n < Len(machine.ranges) + 1
      BY <2>1
    <3>3. machine.ranges[n].base + machine.ranges[n].len <= dwMemSize
      BY <1>5, <2>2, <3>2, Zenon DEF Found
    <3> DEFINE top == machine.ranges[n].base + machine.ranges[n].len
    <3>4. top \in Nat /\ top <= dwMemSize
      BY <3>1, <3>3
    <3> HIDE DEF top
    <3>5. top <= 4 * pagedirs'
      <4>1. \A m, p \in Nat : m <= 4 * p /\ top <= m => top <= 4 * p
        BY <3>4
      <4>2. dwMemSize \in Nat /\ pagedirs' \in Nat /\ dwMemSize <= 4 * pagedirs'
        BY <1>5, <1>6, Zenon
      <4> QED
        BY <3>4, <4>1, <4>2, Zenon
    <3> QED
      BY <3>5 DEF top
  <2> QED
    BY <1>1, <1>6, <1>9, <2>2 DEF RamMapped, Usable
<1>8. Measured'
  BY <1>1, <1>7 DEF LoadInv, Measured
<1> QED
  BY <1>2, <1>3, <1>4, <1>8 DEF LoadInv
-----------------------------------------------------------------------------
(* The descriptors the kernel starts with.                                 *)

\* An empty one.
LEMMA NullTyped == NullDescriptor \in DESCRIPTOR
BY SMT DEF NullDescriptor, DESCRIPTOR, Bytes8, Words16

\* A segment of 4 GB from 0, whatever its kind and privilege.
LEMMA FlatFields ==
  ASSUME NEW kind \in Bytes8
  PROVE  /\ Flat(kind) \in DESCRIPTOR
         /\ Flat(kind).base_low = 0 /\ Flat(kind).base_mid = 0 /\ Flat(kind).base_high = 0
         /\ Flat(kind).limit_low = 255 /\ Flat(kind).pad = 255
         /\ Flat(kind).limit_high_attr2 = 207
<1>1. 255 \in Bytes8 /\ 15 + 16 * 12 = 207 /\ 207 \in Bytes8 /\ 0 \in Bytes8 /\ 0 \in Words16
  BY DEF Bytes8, Words16
<1>2. Flat(kind) = [limit_low |-> 255, pad |-> 255, base_low |-> 0, base_mid |-> 0, base_high |-> 0,
                    attr1 |-> kind, limit_high_attr2 |-> 207]
  BY <1>1, Zenon DEF Flat
<1>3. Flat(kind) \in DESCRIPTOR
  BY <1>1, <1>2 DEF DESCRIPTOR
<1> QED
  BY <1>2, <1>3

\* The bits of the two kinds of segment at privilege 1.
LEMMA Kinds ==
  ASSUME NEW kind \in {DA_C, DA_DRW}
  PROVE  /\ kind + DPL(1) \in Bytes8
         /\ ((kind + DPL(1)) % 32) + 128 * ((kind + DPL(1)) \div 128) = kind
         /\ ((kind + DPL(1)) \div 32) % 4 = 1
         /\ SetBit(SetBit(kind, 4 * 32), 1 * 32) = kind + DPL(1)
<1>1. kind = 152 \/ kind = 146
  BY DEF DA_C, DA_DRW
<1>2. kind + DPL(1) = kind + 32
  BY <1>1 DEF DPL
<1>3. SetBit(kind, 128) = kind
  BY <1>1 DEF SetBit
<1>4. SetBit(kind, 32) = kind + 32
  BY <1>1 DEF SetBit
<1>5. SetBit(SetBit(kind, 4 * 32), 1 * 32) = kind + DPL(1)
  BY <1>2, <1>3, <1>4
<1> QED
  BY <1>1, <1>2, <1>5 DEF Bytes8

\* A segment of a task or of a process that is not Init.
LEMMA FlatSegmentRight ==
  ASSUME NEW from \in Bytes8, NEW kind \in {DA_C, DA_DRW}
  PROVE  LET d == FlatSegment(Flat(from), kind)
         IN  /\ d \in DESCRIPTOR /\ Type(d) = kind /\ Dpl(d) = 1 /\ In4K(d)
             /\ Base(d) = 0 /\ Limit(d) = 1048575
<1> DEFINE d == FlatSegment(Flat(from), kind)
<1>1. /\ Flat(from) \in DESCRIPTOR
      /\ Flat(from).base_low = 0 /\ Flat(from).base_mid = 0 /\ Flat(from).base_high = 0
      /\ Flat(from).limit_low = 255 /\ Flat(from).pad = 255 /\ Flat(from).limit_high_attr2 = 207
  BY FlatFields
<1>2. d.attr1 = kind + DPL(1) /\ d \in DESCRIPTOR
  BY <1>1, Kinds DEF FlatSegment, DESCRIPTOR
<1>3. /\ d.base_low = 0 /\ d.base_mid = 0 /\ d.base_high = 0
      /\ d.limit_low = 255 /\ d.pad = 255 /\ d.limit_high_attr2 = 207
  BY <1>1 DEF FlatSegment, DESCRIPTOR
<1> HIDE DEF d
<1>4. Type(d) = kind /\ Dpl(d) = 1
  BY <1>2, Kinds DEF Type, Dpl
<1>5. Base(d) = 0 /\ Limit(d) = 1048575 /\ In4K(d)
  BY <1>3 DEF Base, seg2phys, Limit, In4K
<1> QED
  BY <1>2, <1>4, <1>5 DEF d

(* A segment of Init, its descriptor made from the priority (main.c).      *)
LEMMA InitSegmentRight ==
  ASSUME NEW kind \in {DA_C, DA_DRW}
  PROVE  LET d == InitSegment(kind)
         IN  /\ d \in DESCRIPTOR /\ Type(d) = kind /\ Dpl(d) = 1 /\ In4K(d)
             /\ Base(d) = 0 /\ Limit(d) = 255 /\ parent_size(d) = PROC_DEFAULT_MEM
<1> DEFINE attribute == DA_32 + DA_LIMIT_4K + SetBit(SetBit(kind, 4 * 32), 1 * 32)
           d == init_descriptor(NullDescriptor, 0, 255, attribute)
<1>1. InitSegment(kind) = d
  BY DEF InitSegment, PROC_DEFAULT_MEM
<1>2. attribute = 49152 + (kind + DPL(1)) /\ kind + DPL(1) \in Nat /\ kind + DPL(1) < 256
  BY Kinds DEF DA_32, DA_LIMIT_4K, Bytes8
<1>3. attribute \in Nat /\ attribute % 256 = kind + DPL(1) /\ (attribute \div 4096) % 16 = 12
  <2> HIDE DEF attribute
  <2> DEFINE k == kind + DPL(1)
  <2>1. attribute = 49152 + k /\ k \in Nat /\ k < 256
    BY <1>2
  <2> HIDE DEF k
  <2>2. attribute \in Nat /\ attribute % 256 = k /\ (attribute \div 4096) % 16 = 12
    BY <2>1
  <2> QED
    BY <2>2 DEF k
<1> HIDE DEF attribute
<1>0. attribute \in Nat /\ 0 \in Nat /\ 255 \in Nat /\ 255 \in 0 .. 255
  BY <1>3
<1>4. d \in DESCRIPTOR
  BY <1>0, NullTyped, WritesDescriptor, Zenon
<1>5. Base(d) = 0
  <2>1. 0 < 65536 * 65536
    BY SMT
  <2> QED
    BY <1>0, <2>1, NullTyped, BaseReadsBack DEF Base
<1>6. d.attr1 = kind + DPL(1) /\ d.limit_high_attr2 = 192
  BY <1>3 DEF init_descriptor
<1>7. Limit(d) = 255 /\ parent_size(d) = (255 + 1) * (IF In4K(d) THEN 4096 ELSE 1)
  <2>1. NullDescriptor.pad = 0
    BY SMT DEF NullDescriptor
  <2>2. Limit(d) = 255
    BY SMT, <1>0, <2>1, NullTyped, SmallLimitReadsBack
  <2>3. parent_size(d) = (255 + 1) * (IF In4K(d) THEN 4096 ELSE 1)
    BY SMT, <1>0, <2>1, NullTyped, SmallLimitReadsBack
  <2> QED
    BY <2>2, <2>3
<1> HIDE DEF d
<1>8. Type(d) = kind /\ Dpl(d) = 1
  BY <1>6, Kinds DEF Type, Dpl
<1>9. In4K(d) /\ parent_size(d) = PROC_DEFAULT_MEM
  BY <1>6, <1>7 DEF In4K, PROC_DEFAULT_MEM
<1> QED
  BY <1>1, <1>4, <1>5, <1>7, <1>8, <1>9
-----------------------------------------------------------------------------
(* The kernel's tables.                                                    *)

\* The segments of the kernel, which stay where the loader has put them.
KernelSegments == gdt[1] = Flat(DA_CR) /\ gdt[2] = Flat(DA_DRW) /\ gdt[3] = Video

\* The loader's table as cstart copies it.
Copied ==
  /\ DOMAIN gdt = 0 .. 127 /\ KernelSegments
  /\ \A n \in INDEX_TSS .. 127 : gdt[n] = NullDescriptor

\* What init_prot leaves.
Prepared ==
  /\ KernelSegments
  /\ \A i \in Slots :
       LET d == gdt[LdtIndex(i)]
       IN  Type(d) = DA_LDT /\ Base(d) = AddrLdts[i] /\ Limit(d) = 15
  /\ icw2 = [master |-> INT_VECTOR_IRQ0, slave |-> INT_VECTOR_IRQ8]
  /\ \A n \in 0 .. 15 : idt[INT_VECTOR_IRQ0 + n].handler = <<"hwint", n>>
  /\ \A v \in DOMAIN idt : (idt[v].attr \div 32) % 4 = GatePrivilege(v)

TablesTyped ==
  /\ \A n \in DOMAIN gdt : gdt[n] \in DESCRIPTOR
  /\ \A i \in DOMAIN slot : \A k \in 1 .. 2 : slot[i].ldts[k] \in DESCRIPTOR

TableInv ==
  /\ TablesTyped
  /\ pc = "prot" => Copied
  /\ pc = "main" => Prepared
  /\ SegmentsRight
  /\ InterruptsArrive

BootInv == LoadInv /\ TableInv

\* The video segment.
LEMMA VideoTyped == Video \in DESCRIPTOR /\ Dpl(Video) = 3
<1>1. DA_DRW + DPL(3) = 242 /\ 242 \in Bytes8 /\ 255 \in Bytes8 /\ 11 \in Bytes8 /\ 0 \in Bytes8
      /\ 32768 \in Words16
  BY DEF DA_DRW, DPL, Bytes8, Words16
<1>2. Video = [limit_low |-> 255, pad |-> 255, base_low |-> 32768, base_mid |-> 11, base_high |-> 0,
               attr1 |-> 242, limit_high_attr2 |-> 0]
  BY <1>1 DEF Video
<1>3. Video \in DESCRIPTOR
  BY <1>1, <1>2 DEF DESCRIPTOR
<1>4. Dpl(Video) = (242 \div 32) % 4
  BY <1>2 DEF Dpl
<1>5. (242 \div 32) % 4 = 3
  BY SMT
<1> QED
  BY <1>3, <1>4, <1>5

(* The boot programs leave the tables alone, and end before they matter.   *)
LEMMA TablesKept ==
  ASSUME TableInv, UNCHANGED tableVars, pc' \notin {"prot", "main", "running"}
  PROVE  TableInv'
BY DEF TableInv, TablesTyped, SegmentsRight, InterruptsArrive, tableVars

\* Nothing loaded or measured is touched by the kernel's start.
LEMMA LoadInvKept ==
  ASSUME LoadInv, UNCHANGED <<machine, stage, loadVars, ramVars>>,
         pc' \in {"prot", "main", "running"}
  PROVE  LoadInv'
<1>1. pc' \in Pcs
  BY DEF Pcs
<1> QED
  BY <1>1, LoadTypedKept, SearchedElsewhere, OnWayElsewhere, MeasuredKept DEF LoadInv

(* cstart copies the loader's table.                                       *)
LEMMA CStartKeeps == ASSUME BootInv, CStart PROVE BootInv'
<1>1. /\ pc' = "prot" /\ UNCHANGED <<machine, stage, loadVars, ramVars, slot>>
      /\ gdt' = [n \in 0 .. 127 |-> IF n + 1 \in DOMAIN LoaderGdt THEN LoaderGdt[n + 1] ELSE NullDescriptor]
  BY DEF CStart
<1>2. LoadInv'
  BY <1>1, LoadInvKept DEF BootInv
<1>3. /\ DOMAIN LoaderGdt = 1 .. 4 /\ LoaderGdt[1] = NullDescriptor /\ LoaderGdt[2] = Flat(DA_CR)
      /\ LoaderGdt[3] = Flat(DA_DRW) /\ LoaderGdt[4] = Video
  BY DEF LoaderGdt
<1>4. /\ DOMAIN gdt' = 0 .. 127 /\ gdt'[0] = NullDescriptor /\ gdt'[1] = Flat(DA_CR)
      /\ gdt'[2] = Flat(DA_DRW) /\ gdt'[3] = Video
      /\ \A n \in 4 .. 127 : gdt'[n] = NullDescriptor
  BY <1>1, <1>3
<1>5. Copied'
  BY <1>4 DEF Copied, KernelSegments, INDEX_TSS
<1>6. TablesTyped'
  <2>1. DA_CR \in Bytes8 /\ DA_DRW \in Bytes8
    BY DEF DA_CR, DA_DRW, Bytes8
  <2>2. Flat(DA_CR) \in DESCRIPTOR /\ Flat(DA_DRW) \in DESCRIPTOR
    BY <2>1, FlatFields
  <2>3. ASSUME NEW n \in DOMAIN gdt' PROVE gdt'[n] \in DESCRIPTOR
    <3>1. n = 0 \/ n = 1 \/ n = 2 \/ n = 3 \/ n \in 4 .. 127
      BY <1>4
    <3> QED
      BY <1>4, <2>2, <3>1, NullTyped, VideoTyped
  <2> QED
    BY <1>1, <2>3 DEF BootInv, TableInv, TablesTyped
<1> QED
  BY <1>1, <1>2, <1>5, <1>6 DEF BootInv, TableInv, SegmentsRight, InterruptsArrive

(* The gate of a vector lets in the processes its privilege says.          *)
LEMMA GateOpens ==
  ASSUME NEW handler, NEW v
  PROVE  /\ (Gate(handler, GatePrivilege(v)).attr \div 32) % 4 = GatePrivilege(v)
         /\ Gate(handler, GatePrivilege(v)).handler = handler
<1>1. GatePrivilege(v) = 3 \/ GatePrivilege(v) = 0
  BY DEF GatePrivilege
<1>2. Gate(handler, GatePrivilege(v)).attr = 142 + 32 * GatePrivilege(v)
      /\ Gate(handler, GatePrivilege(v)).handler = handler
  BY DEF Gate, DPL
<1>3. ((142 + 32 * 3) \div 32) % 4 = 3 /\ ((142 + 32 * 0) \div 32) % 4 = 0
  BY SMT
<1> QED
  BY <1>1, <1>2, <1>3

\* The descriptor of a local table, wherever the table is.
LEMMA LdtDescriptor ==
  ASSUME NEW addr \in Addresses
  PROVE  LET d == init_descriptor(NullDescriptor, addr, 15, DA_LDT)
         IN  Type(d) = DA_LDT /\ Base(d) = addr /\ Limit(d) = 15
<1> DEFINE d == init_descriptor(NullDescriptor, addr, 15, DA_LDT)
<1>1. addr \in Nat /\ addr < 65536 * 65536
  BY DEF Addresses
<1>2. 15 \in Nat /\ 15 \in 0 .. 255 /\ DA_LDT \in Nat
  BY DEF DA_LDT
<1>3. NullDescriptor.pad = 0
  BY DEF NullDescriptor
<1>4. Base(d) = addr
  BY SMT, <1>1, <1>2, NullTyped, BaseReadsBack DEF Base
<1>5. Limit(d) = 15
  BY SMT, <1>1, <1>2, <1>3, NullTyped, SmallLimitReadsBack
<1>6. Type(d) = DA_LDT
  BY DEF Type, init_descriptor, DA_LDT
<1> QED
  BY <1>4, <1>5, <1>6

(* init_prot's table.                                                      *)
LEMMA GdtPrepared ==
  ASSUME BootInv, InitProt
  PROVE  /\ KernelSegments'
         /\ \A n \in DOMAIN gdt' : gdt'[n] \in DESCRIPTOR
         /\ \A i \in Slots : gdt'[LdtIndex(i)] = init_descriptor(NullDescriptor, AddrLdts[i], 15, DA_LDT)
<1> DEFINE zero == Base(gdt[Index(SELECTOR_KERNEL_DS)])
           tss == init_descriptor(gdt[INDEX_TSS], zero + AddrTss, 103, DA_386TSS)
           ldt(n) == LET i == CHOOSE i \in Slots : LdtIndex(i) = n
                     IN  init_descriptor(gdt[n], zero + AddrLdts[i], 15, DA_LDT)
<1>1. /\ gdt' = [n \in DOMAIN gdt |->
                   IF n = INDEX_TSS THEN init_descriptor(gdt[n], zero + AddrTss, 103, DA_386TSS)
                   ELSE IF \E i \in Slots : LdtIndex(i) = n THEN ldt(n) ELSE gdt[n]]
      /\ pc = "prot"
  BY Zenon DEF InitProt
<1>2. /\ DOMAIN gdt = 0 .. 127 /\ KernelSegments
      /\ \A n \in 4 .. 127 : gdt[n] = NullDescriptor
      /\ \A n \in DOMAIN gdt : gdt[n] \in DESCRIPTOR
  BY <1>1 DEF BootInv, TableInv, Copied, TablesTyped, INDEX_TSS
<1>3. zero = 0
  <2>1. Index(SELECTOR_KERNEL_DS) = 2
    BY DEF Index, SELECTOR_KERNEL_DS
  <2>2. DA_DRW \in Bytes8
    BY DEF DA_DRW, Bytes8
  <2>3. Base(Flat(DA_DRW)) = 0
    BY <2>2, FlatFields DEF Base, seg2phys
  <2> QED
    BY <1>2, <2>1, <2>3 DEF KernelSegments
<1>4. /\ Slots = 0 .. 34 /\ \A i \in Slots : LdtIndex(i) = 5 + i
  BY DEF Slots, NR_TASK_PROCS, LdtIndex, INDEX_LDT_FIRST
<1>5. AddrTss \in Nat /\ \A i \in Slots : AddrLdts[i] \in Nat /\ AddrLdts[i] \in Addresses
  BY BootAssumption DEF Addresses, Slots
<1>6. gdt'[INDEX_TSS] = tss /\ tss \in DESCRIPTOR
  <2>0. INDEX_TSS \in DOMAIN gdt
    BY <1>2 DEF INDEX_TSS
  <2>1. gdt'[INDEX_TSS] = tss
    BY <1>1, <2>0, Zenon
  <2>2. gdt[INDEX_TSS] \in DESCRIPTOR /\ zero + AddrTss \in Nat /\ 103 \in Nat /\ DA_386TSS \in Nat
    BY <1>2, <1>3, <1>5 DEF INDEX_TSS, DA_386TSS
  <2> QED
    BY <2>1, <2>2, WritesDescriptor, Zenon
<1>7. ASSUME NEW i \in Slots
      PROVE  /\ gdt'[LdtIndex(i)] = init_descriptor(NullDescriptor, AddrLdts[i], 15, DA_LDT)
             /\ gdt'[LdtIndex(i)] \in DESCRIPTOR
  <2> DEFINE n == LdtIndex(i)
             j == CHOOSE j \in Slots : LdtIndex(j) = n
  <2>1. j \in Slots /\ LdtIndex(j) = n
    BY Zenon
  <2>2. j = i
    <3> HIDE DEF j
    <3> QED
      BY <1>4, <2>1
  <2>3. n \in 5 .. 39 /\ n \in DOMAIN gdt /\ n # INDEX_TSS /\ gdt[n] = NullDescriptor
    BY <1>2, <1>4 DEF INDEX_TSS
  <2>4. gdt'[n] = ldt(n)
    BY <1>1, <2>3, Zenon
  <2>5. ldt(n) = init_descriptor(gdt[n], zero + AddrLdts[j], 15, DA_LDT)
    OBVIOUS
  <2>6. zero + AddrLdts[i] = AddrLdts[i]
    BY <1>3, <1>5
  <2> HIDE DEF j, ldt, n, zero
  <2>7. gdt'[n] = init_descriptor(NullDescriptor, AddrLdts[i], 15, DA_LDT)
    BY <2>2, <2>3, <2>4, <2>5, <2>6, Zenon
  <2>8. AddrLdts[i] \in Nat /\ 15 \in Nat /\ DA_LDT \in Nat
    BY <1>5 DEF DA_LDT
  <2> QED
    BY <2>7, <2>8, NullTyped, WritesDescriptor, Zenon DEF n
<1>8. ASSUME NEW n \in DOMAIN gdt, n # INDEX_TSS, \A i \in Slots : LdtIndex(i) # n
      PROVE  gdt'[n] = gdt[n]
  BY <1>1, <1>8, Zenon
<1>9. KernelSegments'
  <2>0. ASSUME NEW n \in 1 .. 3
        PROVE  n \in DOMAIN gdt /\ n # INDEX_TSS /\ \A i \in Slots : LdtIndex(i) # n
    BY <1>2, <1>4 DEF INDEX_TSS
  <2>1. gdt'[1] = gdt[1] /\ gdt'[2] = gdt[2] /\ gdt'[3] = gdt[3]
    <3>1. 1 \in 1 .. 3 /\ 2 \in 1 .. 3 /\ 3 \in 1 .. 3
      BY SMT
    <3> QED
      BY <1>8, <2>0, <3>1, Zenon
  <2> QED
    BY <1>2, <2>1 DEF KernelSegments
<1>10. ASSUME NEW n \in DOMAIN gdt' PROVE gdt'[n] \in DESCRIPTOR
  <2>1. n \in DOMAIN gdt
    BY <1>1
  <2>2. CASE \E i \in Slots : LdtIndex(i) = n
    BY <1>7, <2>2, Zenon
  <2>3. CASE \A i \in Slots : LdtIndex(i) # n
    BY <1>2, <1>6, <1>8, <2>1, <2>3, Zenon
  <2> QED
    BY <2>2, <2>3
<1> QED
  BY <1>7, <1>9, <1>10

\* The vectors init_prot fills.
LEMMA VectorsPrepared ==
  ASSUME InitProt
  PROVE  /\ \A n \in 0 .. 15 : idt'[INT_VECTOR_IRQ0 + n].handler = <<"hwint", n>>
         /\ \A v \in DOMAIN idt' : (idt'[v].attr \div 32) % 4 = GatePrivilege(v)
<1> DEFINE vectors == Exceptions \cup (INT_VECTOR_IRQ0 .. INT_VECTOR_IRQ8 + 7) \cup {INT_VECTOR_SYS_CALL}
           handler(v) == CASE v = INT_VECTOR_SYS_CALL -> <<"sys_call">>
                           [] v \in Exceptions -> <<"exception", v>>
                           [] OTHER -> <<"hwint", v - INT_VECTOR_IRQ0>>
<1>1. idt' = [v \in vectors |-> Gate(handler(v), GatePrivilege(v))]
  BY Zenon DEF InitProt
<1>2. ASSUME NEW n \in 0 .. 15
      PROVE  INT_VECTOR_IRQ0 + n \in vectors /\ handler(INT_VECTOR_IRQ0 + n) = <<"hwint", n>>
  BY DEF INT_VECTOR_IRQ0, INT_VECTOR_IRQ8, INT_VECTOR_SYS_CALL, Exceptions
<1> HIDE DEF vectors, handler
<1>3. ASSUME NEW v \in vectors
      PROVE  (idt'[v].attr \div 32) % 4 = GatePrivilege(v) /\ idt'[v].handler = handler(v)
  <2>1. idt'[v] = Gate(handler(v), GatePrivilege(v))
    BY <1>1
  <2> QED
    BY <2>1, GateOpens
<1>4. DOMAIN idt' = vectors
  BY <1>1
<1> QED
  BY <1>2, <1>3, <1>4

(* init_prot makes the segments of the task state and of the local tables, *)
(* the gates, and programs the interrupt controllers.                      *)
LEMMA InitProtKeeps == ASSUME BootInv, InitProt PROVE BootInv'
<1>1. /\ pc' = "main" /\ UNCHANGED <<machine, stage, loadVars, ramVars, slot>>
      /\ icw2' = [master |-> INT_VECTOR_IRQ0, slave |-> INT_VECTOR_IRQ8]
  BY DEF InitProt
<1>2. LoadInv'
  BY <1>1, LoadInvKept DEF BootInv
<1>3. TablesTyped'
  BY <1>1, GdtPrepared DEF BootInv, TableInv, TablesTyped
<1>4. Prepared'
  <2>1. ASSUME NEW i \in Slots
        PROVE  /\ Type(gdt'[LdtIndex(i)]) = DA_LDT /\ Base(gdt'[LdtIndex(i)]) = AddrLdts[i]
               /\ Limit(gdt'[LdtIndex(i)]) = 15
    <3>1. AddrLdts[i] \in Addresses
      BY BootAssumption DEF Slots
    <3>2. gdt'[LdtIndex(i)] = init_descriptor(NullDescriptor, AddrLdts[i], 15, DA_LDT)
      BY GdtPrepared
    <3> QED
      BY <3>1, <3>2, LdtDescriptor
  <2> QED
    BY <1>1, <2>1, GdtPrepared, VectorsPrepared DEF Prepared
<1> QED
  BY <1>1, <1>2, <1>3, <1>4 DEF BootInv, TableInv, SegmentsRight, InterruptsArrive

(* kernel_main: the segments every process gets.                           *)
LEMMA SlotsFilled ==
  ASSUME BootInv, KernelMain, NEW i \in Started
  PROVE  /\ slot'[i].ldts \in [1 .. 2 -> DESCRIPTOR]
         /\ \A k \in 1 .. 2 :
              LET d == slot'[i].ldts[k]
              IN  /\ Type(d) = (IF k = 1 THEN DA_C ELSE DA_DRW) /\ Dpl(d) = 1 /\ In4K(d)
                  /\ Base(d) = 0 /\ Limit(d) = IF i = INIT THEN 255 ELSE 1048575
         /\ i = INIT => parent_size(slot'[i].ldts[1]) = PROC_DEFAULT_MEM
<1>1. pc = "main" /\ KernelSegments
  BY DEF KernelMain, BootInv, TableInv, Prepared
<1>2. i \in Slots
  BY DEF Slots, Started, NR_TASKS, NR_NATIVE_PROCS, NR_TASK_PROCS
<1>3. slot'[i].ldts = IF i = INIT THEN <<InitSegment(DA_C), InitSegment(DA_DRW)>>
                      ELSE <<FlatSegment(gdt[Index(SELECTOR_KERNEL_CS)], DA_C),
                             FlatSegment(gdt[Index(SELECTOR_KERNEL_DS)], DA_DRW)>>
  BY <1>2 DEF KernelMain
<1>4. Index(SELECTOR_KERNEL_CS) = 1 /\ Index(SELECTOR_KERNEL_DS) = 2
  BY DEF Index, SELECTOR_KERNEL_CS, SELECTOR_KERNEL_DS
<1>5. CASE i = INIT
  <2> DEFINE code == InitSegment(DA_C)
             data == InitSegment(DA_DRW)
  <2>1. /\ code \in DESCRIPTOR /\ Type(code) = DA_C /\ Dpl(code) = 1 /\ In4K(code)
        /\ Base(code) = 0 /\ Limit(code) = 255 /\ parent_size(code) = PROC_DEFAULT_MEM
        /\ data \in DESCRIPTOR /\ Type(data) = DA_DRW /\ Dpl(data) = 1 /\ In4K(data)
        /\ Base(data) = 0 /\ Limit(data) = 255
    BY InitSegmentRight
  <2>2. slot'[i].ldts = <<code, data>>
    BY <1>3, <1>5
  <2> HIDE DEF code, data
  <2>3. slot'[i].ldts[1] = code /\ slot'[i].ldts[2] = data
        /\ slot'[i].ldts \in [1 .. 2 -> DESCRIPTOR]
    BY <2>1, <2>2
  <2> QED
    BY <1>5, <2>1, <2>3
<1>6. CASE i # INIT
  <2> DEFINE code == FlatSegment(Flat(DA_CR), DA_C)
             data == FlatSegment(Flat(DA_DRW), DA_DRW)
  <2>1. /\ code \in DESCRIPTOR /\ Type(code) = DA_C /\ Dpl(code) = 1 /\ In4K(code)
        /\ Base(code) = 0 /\ Limit(code) = 1048575
        /\ data \in DESCRIPTOR /\ Type(data) = DA_DRW /\ Dpl(data) = 1 /\ In4K(data)
        /\ Base(data) = 0 /\ Limit(data) = 1048575
    <3>1. DA_CR \in Bytes8 /\ DA_DRW \in Bytes8
      BY DEF DA_CR, DA_DRW, Bytes8
    <3> QED
      BY <3>1, FlatSegmentRight
  <2>2. slot'[i].ldts = <<code, data>>
    BY <1>1, <1>3, <1>4, <1>6 DEF KernelSegments
  <2> HIDE DEF code, data
  <2>3. slot'[i].ldts[1] = code /\ slot'[i].ldts[2] = data
        /\ slot'[i].ldts \in [1 .. 2 -> DESCRIPTOR]
    BY <2>1, <2>2
  <2> QED
    BY <1>6, <2>1, <2>3
<1> QED
  BY <1>5, <1>6

\* The selectors in the registers of a slot, and what they stand for.
LEMMA Selectors ==
  ASSUME KernelMain, NEW i \in Slots
  PROVE  /\ DOMAIN slot' = Slots
         /\ Index(slot'[i].ldt_sel) = LdtIndex(i)
         /\ Index(slot'[i].cs) = 0 /\ slot'[i].cs % 4 = 1
         /\ Index(slot'[i].ds) = 1 /\ slot'[i].ds % 4 = 1
         /\ Index(slot'[i].gs) = 3 /\ slot'[i].gs % 4 = 1
<1>1. /\ DOMAIN slot' = Slots
      /\ slot'[i].ldt_sel = Selector(INDEX_LDT_FIRST + i) /\ slot'[i].cs = SA_TIL + 1
      /\ slot'[i].ds = Selector(1) + SA_TIL + 1 /\ slot'[i].gs = (SELECTOR_VIDEO \div 4) * 4 + 1
  BY DEF KernelMain
<1>2. slot'[i].cs = 5 /\ slot'[i].ds = 13 /\ slot'[i].gs = 25
  BY <1>1 DEF SA_TIL, Selector, SELECTOR_VIDEO
<1>3. i \in Nat
  BY DEF Slots
<1>4. Index(slot'[i].ldt_sel) = LdtIndex(i)
  <2>1. slot'[i].ldt_sel = 8 * (5 + i)
    BY <1>1 DEF Selector, INDEX_LDT_FIRST
  <2>2. (8 * (5 + i)) \div 8 = 5 + i
    BY <1>3
  <2> QED
    BY <2>1, <2>2 DEF Index, LdtIndex, INDEX_LDT_FIRST
<1> QED
  BY <1>1, <1>2, <1>4 DEF Index

(* kernel_main fills the slots, and with it the processes have all they    *)
(* need.                                                                   *)
LEMMA KernelMainKeeps == ASSUME BootInv, KernelMain PROVE BootInv'
<1>1. /\ pc = "main" /\ pc' = "running"
      /\ UNCHANGED <<machine, stage, loadVars, ramVars, gdt, idt, icw2>>
  BY DEF KernelMain
<1>2. LoadInv'
  BY <1>1, LoadInvKept DEF BootInv
<1>3. Prepared
  BY <1>1 DEF BootInv, TableInv
<1>5. Started \subseteq Slots /\ INIT \in Started
  BY DEF Slots, Started, INIT, NR_TASKS, NR_NATIVE_PROCS, NR_TASK_PROCS
<1>4. TablesTyped'
  <2>1. ASSUME NEW i \in Slots, NEW k \in 1 .. 2 PROVE slot'[i].ldts[k] \in DESCRIPTOR
    <3>1. CASE i \in Started
      BY <3>1, SlotsFilled
    <3>2. CASE i \notin Started
      <4>1. slot'[i].ldts = <<NullDescriptor, NullDescriptor>>
        BY <1>5, <3>2 DEF KernelMain
      <4> QED
        BY <4>1, NullTyped
    <3> QED
      BY <3>1, <3>2
  <2>2. DOMAIN slot' = Slots
    BY DEF KernelMain
  <2> QED
    BY <1>1, <2>1, <2>2 DEF BootInv, TableInv, TablesTyped
<1>6. SegmentsRight'
  <2>1. ASSUME NEW i \in Slots
        PROVE  Type(LdtOf(i)') = DA_LDT /\ Base(LdtOf(i)') = AddrLdts[i] /\ Limit(LdtOf(i)') = 15
    BY <1>1, <1>3, Selectors DEF Prepared, LdtOf
  <2>2. ASSUME NEW i \in Started
        PROVE  LET code == InLdt(i, slot[i].cs)'
                   data == InLdt(i, slot[i].ds)'
               IN  /\ Type(code) = DA_C /\ Type(data) = DA_DRW
                   /\ Dpl(code) = slot'[i].cs % 4 /\ Dpl(data) = slot'[i].ds % 4
                   /\ slot'[i].gs % 4 <= Dpl(gdt'[Index(slot'[i].gs)])
                   /\ \A d \in {code, data} :
                        In4K(d) /\ Base(d) = 0 /\ Limit(d) = IF i = INIT THEN 255 ELSE 1048575
    <3>1. i \in Slots
      BY <1>5
    <3>2. InLdt(i, slot[i].cs)' = slot'[i].ldts[1] /\ InLdt(i, slot[i].ds)' = slot'[i].ldts[2]
      BY <3>1, Selectors DEF InLdt
    <3>3. gdt'[Index(slot'[i].gs)] = Video
      BY <1>1, <1>3, <3>1, Selectors DEF Prepared, KernelSegments
    <3> QED
      BY <3>1, <3>2, <3>3, Selectors, SlotsFilled, VideoTyped
  <2>3. parent_size(InLdt(INIT, slot[INIT].cs)') = PROC_DEFAULT_MEM
    <3>1. InLdt(INIT, slot[INIT].cs)' = slot'[INIT].ldts[1]
      BY <1>5, Selectors DEF InLdt
    <3> QED
      BY <1>5, <3>1, SlotsFilled
  <2> QED
    BY <1>1, <2>1, <2>2, <2>3 DEF SegmentsRight
<1>7. InterruptsArrive'
  <2>1. icw2'.master = 32 /\ icw2'.slave = 40
    BY <1>1, <1>3 DEF Prepared, INT_VECTOR_IRQ0, INT_VECTOR_IRQ8
  <2>2. ASSUME NEW n \in 0 .. 15
        PROVE  idt'[IF n < 8 THEN icw2'.master + n ELSE icw2'.slave + n - 8].handler = <<"hwint", n>>
    <3>1. (IF n < 8 THEN icw2'.master + n ELSE icw2'.slave + n - 8) = 32 + n
      BY <2>1
    <3>2. idt'[32 + n].handler = <<"hwint", n>>
      BY <1>1, <1>3 DEF Prepared, INT_VECTOR_IRQ0
    <3> QED
      BY <3>1, <3>2
  <2>3. ASSUME NEW i \in Started, NEW v \in DOMAIN idt'
        PROVE  (idt'[v].attr \div 32) % 4 >= slot'[i].cs % 4 <=> v \in {3, 4, INT_VECTOR_SYS_CALL}
    <3>1. slot'[i].cs % 4 = 1
      BY <1>5, Selectors
    <3>2. (idt'[v].attr \div 32) % 4 = GatePrivilege(v)
      BY <1>1, <1>3 DEF Prepared
    <3>3. GatePrivilege(v) >= 1 <=> v \in {3, 4, INT_VECTOR_SYS_CALL}
      BY DEF GatePrivilege
    <3> QED
      BY <3>1, <3>2, <3>3
  <2> QED
    BY <2>2, <2>3 DEF InterruptsArrive
<1> QED
  BY <1>1, <1>2, <1>4, <1>6, <1>7 DEF BootInv, TableInv
-----------------------------------------------------------------------------
(* The theorems.                                                           *)

\* It holds at the start.
LEMMA BootInvInit == BootInit => BootInv
<1> SUFFICES ASSUME BootInit PROVE BootInv
  OBVIOUS
<1>1. /\ machine \in Machines /\ stage = "LOADER" /\ pc = "search"
      /\ root_dir_size = RootDirSectors /\ sector_nr = RootDirSectorNo
      /\ file = Empty /\ ax = 0 /\ bx = 0
      /\ mem = [s \in Stages |-> <<>>]
      /\ dwMCRNumber = 0 /\ dwMemSize = 0 /\ esi = 1
      /\ gdt = <<>> /\ slot = <<>>
  BY DEF BootInit, BootLoaderInit
<1>2. LoadTyped
  <2>1. /\ root_dir_size \in 0 .. RootDirSectors /\ sector_nr \in RootDirSectorNo .. DataSectorNo
        /\ bx \in 0 .. SegSize - 1
    BY <1>1, Sizes
  <2>2. ax \in Bits12
    BY <1>1 DEF Bits12
  <2>3. SegmentsTyped
    BY <1>1 DEF SegmentsTyped
  <2> QED
    BY <1>1, <2>1, <2>2, <2>3 DEF LoadTyped, Stages, Pcs
<1>3. Searched
  <2>1. (sector_nr - RootDirSectorNo) * EntriesPerSec = 0 /\ root_dir_size + sector_nr = DataSectorNo
    BY <1>1, Sizes
  <2>2. \A n \in DOMAIN machine.root : ~(n <= 0)
    BY <1>1, Floppy
  <2> QED
    BY <1>1, <2>1, <2>2 DEF Searched
<1>4. OnWay
  BY <1>1 DEF OnWay
<1>5. Measured
  BY <1>1, Sizes DEF Measured, RamMapped
<1>6. TableInv
  BY <1>1 DEF TableInv, TablesTyped, SegmentsRight, InterruptsArrive
<1> QED
  BY <1>2, <1>3, <1>4, <1>5, <1>6 DEF BootInv, LoadInv

\* A step of the boot programs.
LEMMA LoadStep ==
  ASSUME BootInv, BootLoaderNext, UNCHANGED tableVars PROVE BootInv'
<1>1. LoadInv'
  <2>0. LoadInv
    BY DEF BootInv
  <2>1. CASE Retry
    BY <2>0, <2>1, RetryKeeps
  <2>2. CASE NoFile
    BY <2>0, <2>2, NoFileKeeps
  <2>3. CASE NextRootSector
    BY <2>0, <2>3, NextRootSectorKeeps
  <2>4. CASE FilenameFound
    BY <2>0, <2>4, FilenameFoundKeeps
  <2>5. CASE LoadSector
    BY <2>0, <2>5, LoadSectorKeeps
  <2>6. CASE NextSector
    BY <2>0, <2>6, NextSectorKeeps
  <2>7. CASE LastSector
    BY <2>0, <2>7, LastSectorKeeps
  <2>8. CASE Handover
    BY <2>0, <2>8, HandoverKeeps
  <2>9. CASE MemChk
    BY <2>0, <2>9, MemChkKeeps
  <2>10. CASE MemInfo
    BY <2>0, <2>10, MemInfoKeeps
  <2>11. CASE NoMemInfo
    BY <2>0, <2>11, NoMemInfoKeeps
  <2>12. CASE SetupPaging
    BY <2>0, <2>12, SetupPagingKeeps
  <2> QED
    BY <2>1, <2>2, <2>3, <2>4, <2>5, <2>6, <2>7, <2>8, <2>9, <2>10, <2>11, <2>12 DEF BootLoaderNext
<1>2. pc' \notin {"prot", "main", "running"}
  <2>1. CASE Retry
    BY <2>1 DEF Retry
  <2>2. CASE NoFile \/ NoMemInfo \/ SetupPaging
    BY <2>2 DEF NoFile, NoMemInfo, SetupPaging
  <2>3. CASE NextRootSector \/ FilenameFound
    BY <2>3 DEF NextRootSector, FilenameFound, SearchRootDir
  <2>4. CASE LoadSector \/ NextSector \/ LastSector
    BY <2>4 DEF LoadSector, NextSector, LastSector
  <2>5. CASE Handover \/ MemChk \/ MemInfo
    BY <2>5 DEF Handover, MemChk, MemInfo
  <2> QED
    BY <2>1, <2>2, <2>3, <2>4, <2>5 DEF BootLoaderNext
<1> QED
  BY <1>1, <1>2, TablesKept DEF BootInv

\* A step that changes nothing.
LEMMA Stutter == ASSUME BootInv, UNCHANGED bootAllVars PROVE BootInv'
<1>1. UNCHANGED <<machine, stage, pc, loadVars, ramVars, tableVars>>
  BY DEF bootAllVars, bootVars
<1>2. pc' \in Pcs
  BY <1>1 DEF BootInv, LoadInv, LoadTyped
<1>3. LoadInv'
  BY <1>1, <1>2, LoadTypedKept, SearchedKept, OnWayKept, MeasuredKept DEF BootInv, LoadInv, loadVars
<1>4. UNCHANGED <<pc, gdt, idt, icw2, slot>>
  BY <1>1 DEF tableVars
<1>5. TablesTyped' /\ (pc' = "prot" => Copied')
  BY <1>4 DEF BootInv, TableInv, TablesTyped, Copied, KernelSegments
<1>6. pc' = "main" => Prepared'
  BY <1>4 DEF BootInv, TableInv, Prepared, KernelSegments
<1>7. SegmentsRight'
  BY <1>4 DEF BootInv, TableInv, SegmentsRight, LdtOf, InLdt
<1>8. InterruptsArrive'
  BY <1>4 DEF BootInv, TableInv, InterruptsArrive
<1> QED
  BY <1>3, <1>5, <1>6, <1>7, <1>8 DEF BootInv, TableInv

(* The invariant of booting is inductive.                                  *)
THEOREM BootInvInductive == BootSpec => []BootInv
<1>1. ASSUME BootInv, [BootNext]_bootAllVars PROVE BootInv'
  <2>1. CASE BootLoaderNext /\ UNCHANGED tableVars
    BY <1>1, <2>1, LoadStep
  <2>2. CASE CStart
    BY <1>1, <2>2, CStartKeeps
  <2>3. CASE InitProt
    BY <1>1, <2>3, InitProtKeeps
  <2>4. CASE KernelMain
    BY <1>1, <2>4, KernelMainKeeps
  <2>5. CASE UNCHANGED bootAllVars
    BY <1>1, <2>5, Stutter
  <2> QED
    BY <1>1, <2>1, <2>2, <2>3, <2>4, <2>5 DEF BootNext
<1> QED
  BY <1>1, BootInvInit, PTL DEF BootSpec

(* What is loaded is the file that was found, wherever its clusters lie    *)
(* and whichever reads failed, if it fits into the segment.                *)
THEOREM LoadsIntact == BootSpec => []LoadedIntact
<1>1. BootInv => LoadedIntact
  <2> SUFFICES ASSUME BootInv, pc = "loaded", Fits PROVE Loaded
    BY DEF LoadedIntact
  <2>1. PICK n \in DOMAIN machine.root, k \in DOMAIN file.chain :
           /\ file = Root(n) /\ Matches(file) /\ At(k)
           /\ machine \in Machines
           /\ Len(file.chain) \in Nat /\ DOMAIN file.chain = 1 .. Len(file.chain)
           /\ ax \in Clusters
    BY Walking DEF BootInv
  <2>2. ASSUME NEW j \in DOMAIN file.chain PROVE InPlace(j)
    <3>1. j < k \/ j = k
      BY <2>1 DEF At
    <3> QED
      BY <2>1, <3>1 DEF At
  <2> QED
    BY <2>2 DEF Loaded, Image, InPlace
<1> QED
  BY <1>1, BootInvInductive, PTL

(* The file loaded is the one looked for unless the disk has one whose     *)
(* name differs in the last letter, and no file is missed.                 *)
THEOREM FindsFile == BootSpec => []RightFile
<1>1. BootInv => RightFile
  <2> SUFFICES ASSUME BootInv PROVE RightFile
    OBVIOUS
  <2>1. ASSUME pc = "loaded", NamedIn(10) = {} PROVE Genuine
    <3>1. PICK n \in DOMAIN machine.root : file = Root(n) /\ Matches(file) /\ machine \in Machines
      BY <2>1, Walking DEF BootInv
    <3>2. Root(n).agree \in [Stages -> 0 .. 11] /\ stage \in Stages
      BY <3>1, Chained DEF BootInv, LoadInv, LoadTyped
    <3>3. file.agree[stage] \in 0 .. 11 /\ file.agree[stage] >= 10
      BY <3>1, <3>2 DEF Matches
    <3>4. file.agree[stage] # 10
      BY <2>1, <3>1 DEF NamedIn
    <3> QED
      BY <3>3, <3>4 DEF Genuine
  <2>2. ASSUME pc = "missing" PROVE NamedIn(11) = {}
    BY <2>2 DEF BootInv, LoadInv, Searched, NamedIn, Matches
  <2> QED
    BY <2>1, <2>2 DEF RightFile
<1> QED
  BY <1>1, BootInvInductive, PTL

(* When the kernel starts, all usable memory below 4 GB is mapped by a     *)
(* page directory that has room for its entries and below the children's   *)
(* memory.                                                                 *)
THEOREM MapsMemory == BootSpec => []RamMapped
<1>1. BootInv => RamMapped
  BY DEF BootInv, LoadInv, Measured
<1> QED
  BY <1>1, BootInvInductive, PTL

(* Every process finds its segments (kernel_main, init_prot).              *)
THEOREM SegmentsAreRight == BootSpec => []SegmentsRight
<1>1. BootInv => SegmentsRight
  BY DEF BootInv, TableInv
<1> QED
  BY <1>1, BootInvInductive, PTL

(* Interrupts find their handlers, and processes only the gates for them   *)
(* (init_prot, init_8259A).                                                *)
THEOREM InterruptsDoArrive == BootSpec => []InterruptsArrive
<1>1. BootInv => InterruptsArrive
  BY DEF BootInv, TableInv
<1> QED
  BY <1>1, BootInvInductive, PTL

(* All that booting keeps stays in range: addresses in the segment, sector *)
(* numbers on the disk, fields of descriptors in their width.              *)
THEOREM BootTypeCorrect == BootSpec => []BootTypeInv
<1>1. BootInv => BootTypeInv
  <2> SUFFICES ASSUME BootInv PROVE BootTypeInv
    OBVIOUS
  <2>1. LoadTyped /\ TablesTyped /\ Measured
    BY DEF BootInv, LoadInv, TableInv
  <2>2. ax \in 0 .. 4095
    BY <2>1 DEF LoadTyped, Bits12
  <2>3. /\ root_dir_size \in 0 .. RootDirSectors /\ sector_nr \in RootDirSectorNo .. DataSectorNo
        /\ bx \in 0 .. SegSize - 1 /\ SegmentsTyped
    BY <2>1, Zenon DEF LoadTyped
  <2>4. \A s \in DOMAIN mem : \A a \in DOMAIN mem[s] :
          a \in 0 .. SegSize - 1 /\ mem[s][a] \in 0 .. Sectors - 1
    BY <2>3, Zenon DEF SegmentsTyped
  <2>5. dwMemSize \in 0 .. WordMB - 1
    BY <2>1, Zenon DEF Measured
  <2>6. /\ \A n \in DOMAIN gdt : gdt[n] \in DESCRIPTOR
        /\ \A i \in DOMAIN slot : \A k \in 1 .. 2 : slot[i].ldts[k] \in DESCRIPTOR
    BY <2>1, Zenon DEF TablesTyped
  <2> QED
    BY <2>2, <2>3, <2>4, <2>5, <2>6 DEF BootTypeInv
<1> QED
  BY <1>1, BootInvInductive, PTL
=============================================================================
