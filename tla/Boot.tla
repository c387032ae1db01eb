-------------------------------- MODULE Boot --------------------------------
(***************************************************************************)
(* From the boot sector to the first process: the boot programs of         *)
(* BootLoader, then the kernel's own start: cstart (kernel/start.c),       *)
(* init_prot (kernel/protect.c) and the process table of kernel_main       *)
(* (kernel/main.c).  What the descriptor tables hold then is real, byte by *)
(* byte; addresses of the kernel's variables are constants.                *)
(***************************************************************************)
EXTENDS BootLoader, Descriptors

CONSTANTS AddrTss, AddrLdts  \* &tss, and per slot proc_table[i].ldts

Addresses == {n \in Nat : n <= 2147483647}   \* TLC counts no further
ASSUME BootAssumption ==
  AddrTss \in Addresses /\ AddrLdts \in [0 .. NR_TASK_PROCS - 1 -> Addresses]

VARIABLES gdt, idt,
          icw2,    \* the first vector of each 8259A
          slot     \* per slot: ldt_sel, ldts, the selectors in regs

tableVars == <<gdt, idt, icw2, slot>>
bootAllVars == <<bootVars, tableVars>>

Slots == 0 .. NR_TASK_PROCS - 1
INIT == 3
Selector(index) == 8 * index
Index(selector) == selector \div 8
SELECTOR_KERNEL_CS == 8
SELECTOR_KERNEL_DS == 16
SELECTOR_VIDEO == 24 + 3
INDEX_TSS == 4
INDEX_LDT_FIRST == 5
SA_TIL == 4
INT_VECTOR_IRQ0 == 32
INT_VECTOR_IRQ8 == 40
INT_VECTOR_SYS_CALL == 128
Exceptions == (0 .. 14) \cup {16}
-----------------------------------------------------------------------------
\* The loader's table, which its assembler macro has filled with all 16
\* bits of the limits.
Flat(kind) ==
  [limit_low |-> 255, pad |-> 255, base_low |-> 0, base_mid |-> 0, base_high |-> 0,
   attr1 |-> kind, limit_high_attr2 |-> 15 + 16 * 12]
Video ==
  [limit_low |-> 255, pad |-> 255, base_low |-> 32768, base_mid |-> 11, base_high |-> 0,
   attr1 |-> DA_DRW + DPL(3), limit_high_attr2 |-> 0]
LoaderGdt == <<NullDescriptor, Flat(DA_CR), Flat(DA_DRW), Video>>

CStart ==
  /\ pc = "start"
  /\ gdt' = [n \in 0 .. 127 |-> IF n + 1 \in DOMAIN LoaderGdt THEN LoaderGdt[n + 1] ELSE NullDescriptor]
  /\ pc' = "prot"
  /\ UNCHANGED <<machine, stage, loadVars, ramVars, errors, idt, icw2, slot>>

\* init_idt_desc, with DA_386IGate.
Gate(handler, privilege) ==
  [handler |-> handler, selector |-> SELECTOR_KERNEL_CS, attr |-> 142 + DPL(privilege)]

\* The privilege a program needs to call a vector.  Mutant of GatePrivilege:
\* only the kernel may.
GatePrivilegeKernel(vector) == 0
GatePrivilege(vector) == IF vector \in {3, 4, INT_VECTOR_SYS_CALL} THEN 3 ELSE 0

\* The index of a slot's LDT.
LdtIndex(i) == INDEX_LDT_FIRST + i

InitProt ==
  /\ pc = "prot"
  /\ icw2' = [master |-> INT_VECTOR_IRQ0, slave |-> INT_VECTOR_IRQ8]
  /\ idt' = [v \in Exceptions \cup (INT_VECTOR_IRQ0 .. INT_VECTOR_IRQ8 + 7) \cup {INT_VECTOR_SYS_CALL} |->
               Gate(CASE v = INT_VECTOR_SYS_CALL -> <<"sys_call">>
                      [] v \in Exceptions -> <<"exception", v>>
                      [] OTHER -> <<"hwint", v - INT_VECTOR_IRQ0>>, GatePrivilege(v))]
  /\ gdt' = [n \in DOMAIN gdt |->
               IF n = INDEX_TSS THEN init_descriptor(gdt[n], Base(gdt[Index(SELECTOR_KERNEL_DS)]) + AddrTss, 103, DA_386TSS)
               ELSE IF \E i \in Slots : LdtIndex(i) = n
               THEN LET i == CHOOSE i \in Slots : LdtIndex(i) = n
                    IN  init_descriptor(gdt[n], Base(gdt[Index(SELECTOR_KERNEL_DS)]) + AddrLdts[i], 15, DA_LDT)
               ELSE gdt[n]]
  /\ pc' = "main"
  /\ UNCHANGED <<machine, stage, loadVars, ramVars, errors, slot>>
-----------------------------------------------------------------------------
\* kernel_main's segments.  Init has a megabyte at 0; its descriptors take
\* their DPL from the priority 5, which is or-ed in at bit 5: two bits of it
\* reach the DPL, the third is the present bit.
SetBit(n, bit) == IF (n \div bit) % 2 = 1 THEN n ELSE n + bit
InitSegment(kind) ==
  init_descriptor(NullDescriptor, 0, (PROC_DEFAULT_MEM - 1) \div 4096,
                  DA_32 + DA_LIMIT_4K + SetBit(SetBit(kind, 4 * 32), 1 * 32))
FlatSegment(d, kind) == [d EXCEPT !.attr1 = kind + DPL(1)]

Started == 0 .. NR_TASKS + NR_NATIVE_PROCS - 1

KernelMain ==
  /\ pc = "main"
  /\ slot' = [i \in Slots |->
       [ldt_sel |-> Selector(INDEX_LDT_FIRST + i),
        ldts |-> CASE i \notin Started -> <<NullDescriptor, NullDescriptor>>
                   [] i = INIT -> <<InitSegment(DA_C), InitSegment(DA_DRW)>>
                   [] OTHER -> <<FlatSegment(gdt[Index(SELECTOR_KERNEL_CS)], DA_C),
                                 FlatSegment(gdt[Index(SELECTOR_KERNEL_DS)], DA_DRW)>>,
        cs |-> SA_TIL + 1, ds |-> Selector(1) + SA_TIL + 1,
        gs |-> (SELECTOR_VIDEO \div 4) * 4 + 1]]
  /\ pc' = "running"
  /\ UNCHANGED <<machine, stage, loadVars, ramVars, errors, gdt, idt, icw2>>

BootInit ==
  /\ BootLoaderInit
  /\ gdt = <<>> /\ idt = <<>> /\ icw2 = [master |-> 0, slave |-> 0] /\ slot = <<>>

BootNext == (BootLoaderNext /\ UNCHANGED tableVars) \/ CStart \/ InitProt \/ KernelMain

(* One processor, nothing else to run; a sector that cannot be read is     *)
(* read at last (MaxErrors).                                               *)
BootSpec == BootInit /\ [][BootNext]_bootAllVars /\ WF_bootAllVars(BootNext)
-----------------------------------------------------------------------------
(* Type invariant.                                                         *)
BootTypeInv ==
  /\ root_dir_size \in 0 .. RootDirSectors
  /\ sector_nr \in RootDirSectorNo .. DataSectorNo
  /\ ax \in 0 .. 4095 /\ bx \in 0 .. SegSize - 1
  /\ \A s \in DOMAIN mem : \A a \in DOMAIN mem[s] : a \in 0 .. SegSize - 1 /\ mem[s][a] \in 0 .. Sectors - 1
  /\ dwMemSize \in 0 .. WordMB - 1
  /\ \A n \in DOMAIN gdt : gdt[n] \in DESCRIPTOR
  /\ \A i \in DOMAIN slot : \A k \in 1 .. 2 : slot[i].ldts[k] \in DESCRIPTOR

\* The descriptor of slot i's LDT, and the one a selector into it names.
LdtOf(i) == gdt[Index(slot[i].ldt_sel)]
InLdt(i, selector) == slot[i].ldts[Index(selector) + 1]

(* Every process finds its memory: what kernel_main puts in its registers  *)
(* leads, through the descriptor init_prot has made of its slot's LDT, to  *)
(* a code and a data segment of just its privilege; Init's is the first    *)
(* megabyte, and as large as a do_fork will take it to be; all others see  *)
(* 4 GB.  The LDTs of empty slots are ready for do_fork.                   *)
SegmentsRight ==
  pc = "running" =>
    /\ \A i \in Slots : Type(LdtOf(i)) = DA_LDT /\ Base(LdtOf(i)) = AddrLdts[i] /\ Limit(LdtOf(i)) = 15
    /\ \A i \in Started :
         LET code == InLdt(i, slot[i].cs)
             data == InLdt(i, slot[i].ds)
         IN  /\ Type(code) = DA_C /\ Type(data) = DA_DRW
             /\ Dpl(code) = slot[i].cs % 4 /\ Dpl(data) = slot[i].ds % 4
             /\ slot[i].gs % 4 <= Dpl(gdt[Index(slot[i].gs)])
             /\ \A d \in {code, data} :
                  In4K(d) /\ Base(d) = 0 /\ Limit(d) = IF i = INIT THEN 255 ELSE 1048575
    /\ parent_size(InLdt(INIT, slot[INIT].cs)) = PROC_DEFAULT_MEM

(* Interrupt line n of the two controllers arrives in hwint n, and of all  *)
(* vectors a process may call itself the system call and the breakpoint    *)
(* and overflow exceptions, no other.                                      *)
InterruptsArrive ==
  pc = "running" =>
    /\ \A n \in 0 .. 15 :
         idt[IF n < 8 THEN icw2.master + n ELSE icw2.slave + n - 8].handler = <<"hwint", n>>
    /\ \A i \in Started : \A v \in DOMAIN idt :
         (idt[v].attr \div 32) % 4 >= slot[i].cs % 4 <=> v \in {3, 4, INT_VECTOR_SYS_CALL}

(* Booting comes to an end: the first process runs, or the file is not     *)
(* there, or it is not the right one or not whole, or the BIOS knows of no *)
(* memory.                                                                 *)
BootEnds == <>(pc \in {"running", "missing", "lost", "dead"})
=============================================================================
