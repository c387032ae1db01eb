----------------------------- MODULE BootLoader -----------------------------
(***************************************************************************)
(* The two boot programs.  bootloader/boot_ipl.asm loads LOADER.SYS from a *)
(* FAT12 floppy, bootloader/loader.asm loads KERNEL.SYS with the same      *)
(* code, asks the BIOS for the memory there is and sets up paging.  Sizes  *)
(* of sectors, tables and the segment are constants, so that small ones    *)
(* can be checked; memory is counted in megabytes.                         *)
(***************************************************************************)
EXTENDS Integers, SequencesExt

CONSTANTS
  Machines,        \* disks and memories: see root, chain, ranges below
  BytsPerSec, SecPerTrk, FATSz, RootDirSectors, EntriesPerSec,
  Sectors,         \* BPB_TotSec16
  SegSize,         \* 64 KB: what bx can address
  LOADER_OFF,
  WordMB,          \* 4 GB in megabytes: what a double word can address
  MaxErrors        \* bound: failed reads

ASSUME BootLoaderAssumption ==
  /\ BytsPerSec \in Nat \ {0} /\ SecPerTrk \in Nat \ {0}
  /\ RootDirSectors \in Nat \ {0} /\ EntriesPerSec \in Nat \ {0}
  /\ FATSz \in Nat /\ FATSz + 1 < SecPerTrk  \* so two sectors of a FAT are on one track
  /\ Sectors \in Nat
  /\ SegSize \in Nat /\ SegSize % BytsPerSec = 0
  /\ LOADER_OFF \in Nat /\ LOADER_OFF < SegSize
  /\ WordMB \in 1 .. 4096
  /\ MaxErrors \in Nat

\* A directory entry says in how many leading letters its name agrees with
\* each of the two names looked for (11: it is the file), and where the file is.
Stages == {"LOADER", "KERNEL"}
Clusters == {n \in Nat : 2 <= n /\ n < 4088}
Marks == {n \in Nat : 4088 <= n /\ n < 4096}   \* of the end of a file
Entries == [agree : [Stages -> 0 .. 11], chain : Seq(Clusters)]
Ranges == [base : Nat, len : Nat, type : Nat]

(* A directory of the size given by the boot sector, files that share no   *)
(* clusters with each other, and the files looked for are not empty.       *)
WellFormed(m) ==
  /\ m.root \in Seq(Entries) /\ Len(m.root) <= RootDirSectors * EntriesPerSec
  /\ \A n \in DOMAIN m.root :
       (\E s \in Stages : m.root[n].agree[s] >= 10) => m.root[n].chain # <<>>
  /\ \A n, o \in DOMAIN m.root :
       \A i \in DOMAIN m.root[n].chain, j \in DOMAIN m.root[o].chain :
         m.root[n].chain[i] = m.root[o].chain[j] =>
           m.root[n].chain = m.root[o].chain /\ i = j
  /\ m.eof \in Marks
  /\ m.ranges \in Seq(Ranges)

ASSUME MachinesAssumption == \A m \in Machines : WellFormed(m)

VARIABLES
  machine,         \* what the programs find: never changes
  stage,           \* the file being loaded: "LOADER" or "KERNEL"
  pc,
  root_dir_size, sector_nr,
  file,            \* the directory entry found
  ax, bx,          \* the cluster to load next, and where to
  mem,             \* per file's segment: the disk sector at each address
  dwMCRNumber, dwMemSize,
  esi,             \* the range of memory looked at
  pagedirs,        \* entries written to the page directory
  errors           \* failed reads so far

loadVars == <<root_dir_size, sector_nr, file, ax, bx, mem>>
ramVars == <<dwMCRNumber, dwMemSize, esi, pagedirs>>
bootVars == <<machine, stage, pc, loadVars, ramVars, errors>>
-----------------------------------------------------------------------------
(* The floppy: a boot sector, two FATs, the root directory, the clusters   *)
(* of one sector from number 2 on.                                         *)
RootDirSectorNo == 1 + 2 * FATSz
DataSectorNo == RootDirSectorNo + RootDirSectors

Root(n) == machine.root[n]
Empty == [agree |-> [s \in Stages |-> 0], chain |-> <<>>]
Chains == {Root(n).chain : n \in DOMAIN machine.root}

\* What the FAT holds for a cluster.
FAT(c) ==
  IF \E ch \in Chains : c \in ToSet(ch)
  THEN LET ch == CHOOSE ch \in Chains : c \in ToSet(ch)
           k == CHOOSE k \in DOMAIN ch : ch[k] = c
       IN  IF k = Len(ch) THEN machine.eof ELSE ch[k + 1]
  ELSE 0

\* Byte b of the FAT: entries are 12 bits each, the low ones first.
Nibble(n) == (FAT(n \div 3) \div <<1, 16, 256>>[(n % 3) + 1]) % 16
FATByte(b) == Nibble(2 * b) + 16 * Nibble(2 * b + 1)

\* int 13h, ah = 2: the sector it reads for a cylinder, head and sector.
Drive(chs) == (2 * chs.cyl + chs.head) * SecPerTrk + chs.sec - 1
-----------------------------------------------------------------------------
\* fun16_read_sector.
CHS(n) == [cyl |-> n \div (2 * SecPerTrk), head |-> (n \div SecPerTrk) % 2,
           sec |-> (n % SecPerTrk) + 1]

ReadSector(n) == Drive(CHS(n))
OnDisk(n) == ReadSector(n) < Sectors

\* A read that fails is done again, for ever if need be.
Retry ==
  /\ pc = "load" \/ pc = "next" \/ (pc = "search" /\ root_dir_size > 0)
  /\ errors < MaxErrors
  /\ errors' = errors + 1
  /\ UNCHANGED <<machine, stage, pc, loadVars, ramVars>>

\* A sector gets to bx, over what was there.
Off == IF stage = "LOADER" THEN LOADER_OFF ELSE 0

Put(at, n) ==
  mem' = [mem EXCEPT ![stage] =
            [a \in {b \in DOMAIN @ : b + BytsPerSec <= at \/ at + BytsPerSec <= b} \cup {at} |->
               IF a = at THEN ReadSector(n) ELSE @[a]]]
-----------------------------------------------------------------------------
(* The search in the root directory, sector by sector.  repe cmpsb leaves  *)
(* cx = 0 also when only the last letter differs.                          *)
\* Mutant of Matches: one letter less is compared.
MatchesTen(entry) == entry.agree[stage] >= 9
Matches(entry) == entry.agree[stage] >= 10

Entry(sector, n) ==
  LET k == (sector - RootDirSectorNo) * EntriesPerSec + n
  IN  IF k \in DOMAIN machine.root THEN Root(k) ELSE Empty

Hits(sector) == {n \in 1 .. EntriesPerSec : Matches(Entry(ReadSector(sector), n))}

NoFile ==
  /\ pc = "search" /\ root_dir_size = 0
  /\ pc' = "missing"
  /\ UNCHANGED <<machine, stage, loadVars, ramVars, errors>>

SearchRootDir ==
  /\ pc = "search" /\ root_dir_size > 0 /\ OnDisk(sector_nr)
  /\ root_dir_size' = root_dir_size - 1
  /\ Put(Off, sector_nr)
  /\ UNCHANGED <<machine, stage, ramVars, errors>>

NextRootSector ==
  /\ SearchRootDir
  /\ Hits(sector_nr) = {}
  /\ sector_nr' = sector_nr + 1
  /\ UNCHANGED <<pc, file, ax, bx>>

FilenameFound ==
  /\ SearchRootDir
  /\ \E n \in Hits(sector_nr) :
       /\ \A m \in Hits(sector_nr) : n <= m
       /\ file' = Entry(ReadSector(sector_nr), n)
  /\ ax' = Head(file'.chain)
  /\ bx' = Off
  /\ pc' = "load"
  /\ UNCHANGED sector_nr
-----------------------------------------------------------------------------
(* The walk along the FAT.                                                 *)
\* Mutant of DeltaSectorNo: the first cluster is taken to be number 0.
DeltaSectorNoZero == 1 + 2 * FATSz
DeltaSectorNo == 1 + 2 * FATSz - 2

LoadSector ==
  LET n == ax + RootDirSectors + DeltaSectorNo IN
  /\ pc = "load" /\ OnDisk(n)
  /\ Put(bx, n)
  /\ pc' = "next"
  /\ UNCHANGED <<machine, stage, root_dir_size, sector_nr, file, ax, bx, ramVars, errors>>

\* fun16_get_FAT_entry reads so many sectors of the FAT, since an entry may
\* lie across two.  Mutant of Window: one.
WindowOne == 1
Window == 2

FATEntry(c) ==
  LET byte == (c * 3) \div 2
      first == byte - (byte % BytsPerSec)
      at(b) == IF b < first + Window * BytsPerSec THEN FATByte(b) ELSE 0
      word == at(byte) + 256 * at(byte + 1)
  IN  (IF (c * 3) % 2 = 1 THEN word \div 16 ELSE word) % 4096

\* bx has 16 bits.  Mutant of Advance: it has more.
AdvanceWide(b) == b + BytsPerSec
Advance(b) == (b + BytsPerSec) % SegSize

NextSector ==
  /\ pc = "next" /\ FATEntry(ax) < 4088
  /\ ax' = FATEntry(ax)
  /\ bx' = Advance(bx)
  /\ pc' = "load"
  /\ UNCHANGED <<machine, stage, root_dir_size, sector_nr, file, mem, ramVars, errors>>

LastSector ==
  /\ pc = "next" /\ FATEntry(ax) >= 4088
  /\ pc' = "loaded"
  /\ UNCHANGED <<machine, stage, loadVars, ramVars, errors>>

\* What was found lies there, sector by sector.
Image == [k \in DOMAIN file.chain |-> file.chain[k] + DataSectorNo - 2]
Loaded == \A k \in DOMAIN Image :
            LET at == Off + (k - 1) * BytsPerSec
            IN  at \in DOMAIN mem[stage] /\ mem[stage][at] = Image[k]

\* The jump to its first byte; what another file, or one that is not whole,
\* does there is not modelled.
Genuine == file.agree[stage] = 11

Handover ==
  /\ pc = "loaded"
  /\ pc' = CASE ~(Genuine /\ Loaded) -> "lost" [] stage = "LOADER" -> "memchk" [] OTHER -> "meminfo"
  /\ stage' = "KERNEL"
  /\ root_dir_size' = RootDirSectors /\ sector_nr' = RootDirSectorNo
  /\ UNCHANGED <<machine, file, ax, bx, mem, ramVars, errors>>
-----------------------------------------------------------------------------
(* int 15h, ax = E820h, for each range of memory; a failure at any of them *)
(* forgets all.                                                            *)
MemChk ==
  /\ pc = "memchk"
  /\ dwMCRNumber' \in {0, Len(machine.ranges)}
  /\ pc' = "search"
  /\ UNCHANGED <<machine, stage, loadVars, dwMemSize, esi, pagedirs, errors>>

\* fun32_disp_meminfo, one range a step.  loop with ecx = 0 runs 2^32 times,
\* past all memory: here if there is no range, below if none is usable.
Usable(r) == r.type = 1

MemInfo ==
  LET r == machine.ranges[esi]
      end == (r.base + r.len) % WordMB
  IN  /\ pc = "meminfo" /\ dwMCRNumber > 0
      /\ dwMemSize' = IF Usable(r) /\ end >= dwMemSize THEN end ELSE dwMemSize
      /\ esi' = esi + 1
      /\ pc' = IF esi = dwMCRNumber THEN "paging" ELSE "meminfo"
      /\ UNCHANGED <<machine, stage, loadVars, dwMCRNumber, pagedirs, errors>>

\* No range is known.
NoMemInfo ==
  /\ pc = "meminfo" /\ dwMCRNumber = 0
  /\ pc' = "dead"
  /\ UNCHANGED <<machine, stage, loadVars, ramVars, errors>>

\* fun32_setup_paging: 4 MB an entry.  Mutant of PageDirs: a rest is dropped.
PageDirsFull(size) == size \div 4
PageDirs(size) == size \div 4 + IF size % 4 = 0 THEN 0 ELSE 1

SetupPaging ==
  /\ pc = "paging"
  /\ pagedirs' = PageDirs(dwMemSize)
  /\ pc' = IF pagedirs' = 0 THEN "dead" ELSE "start"
  /\ UNCHANGED <<machine, stage, loadVars, dwMCRNumber, dwMemSize, esi, errors>>

BootLoaderInit ==
  /\ machine \in Machines
  /\ stage = "LOADER" /\ pc = "search"
  /\ root_dir_size = RootDirSectors /\ sector_nr = RootDirSectorNo
  /\ file = Empty /\ ax = 0 /\ bx = 0
  /\ mem = [s \in Stages |-> <<>>]
  /\ dwMCRNumber = 0 /\ dwMemSize = 0 /\ esi = 1 /\ pagedirs = 0 /\ errors = 0

BootLoaderNext ==
  \/ Retry \/ NoFile \/ NextRootSector \/ FilenameFound
  \/ LoadSector \/ NextSector \/ LastSector \/ Handover
  \/ MemChk \/ MemInfo \/ NoMemInfo \/ SetupPaging
-----------------------------------------------------------------------------
(* What was loaded is the file that was found: its sectors in order from   *)
(* the segment's start, however its clusters lie on the disk and whichever *)
(* reads failed, unless the file is larger than the segment (Fits).  *)
Fits == Off + Len(file.chain) * BytsPerSec <= SegSize

LoadedIntact == pc = "loaded" /\ Fits => Loaded

(* include/asm/boot.inc:2: the kernel, which will not be larger than       *)
(* 512 KB, is loaded.                                                      *)
KernelUpTo512K ==
  pc = "loaded" /\ Len(file.chain) * BytsPerSec <= 8 * SegSize => Loaded

(* A boot program loads the file it looks for, and misses it only if the   *)
(* disk has none; but the name in front of it may differ in the last       *)
(* letter and is then taken for it.                                        *)
NamedIn(agree) == {n \in DOMAIN machine.root : Root(n).agree[stage] = agree}

RightFile ==
  /\ pc = "loaded" /\ NamedIn(10) = {} => Genuine
  /\ pc = "missing" => NamedIn(11) = {}

(* When the kernel starts, all usable memory below 4 GB is mapped, the     *)
(* page directory has room for its entries, and the tables end below the   *)
(* memory children of fork get (10 MB; the tables begin at 2 MB + 4 KB,    *)
(* 4 KB per entry).                                                        *)
RamMapped ==
  pc = "start" =>
    /\ \A n \in DOMAIN machine.ranges :
         LET r == machine.ranges[n]
         IN  Usable(r) /\ r.base + r.len < WordMB => r.base + r.len <= 4 * pagedirs
    /\ pagedirs <= 1024
    /\ 2 * 1024 + 4 + 4 * pagedirs <= 10 * 1024
=============================================================================
