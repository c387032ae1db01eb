---------------------------- MODULE Descriptors ----------------------------
(***************************************************************************)
(* Segment descriptors: init_descriptor and seg2phys (kernel/protect.c),   *)
(* what do_fork (mm/fork.c) reads from its parent's descriptor and writes  *)
(* into its child's, and how the processor understands a descriptor.       *)
(***************************************************************************)
EXTENDS Integers

PROC_DEFAULT_MEM == 256 * 4096
PROCS_BASE == 10 * PROC_DEFAULT_MEM   \* 0xA00000
NR_TASKS == 3
NR_NATIVE_PROCS == 4
NR_TASK_PROCS == 35

DA_32 == 16384
DA_LIMIT_4K == 32768
DA_C == 152                     \* 0x98: present, code
DA_DRW == 146                   \* 0x92: present, data, writable
DA_CR == 154
DA_LDT == 130                   \* 0x82
DA_386TSS == 137
DPL(privilege) == 32 * privilege

\* A struct DESCRIPTOR.  limit_low is declared with 8 bits (protect.h:10);
\* the byte behind it, which pads the struct, is the high half of what the
\* processor takes for the low word of the limit.
Bytes8 == 0 .. 255
Words16 == {n \in Nat : n < 65536}
DESCRIPTOR == [limit_low : Bytes8, pad : Bytes8, base_low : Words16, base_mid : Bytes8,
               attr1 : Bytes8, limit_high_attr2 : Bytes8, base_high : Bytes8]
NullDescriptor == [limit_low |-> 0, pad |-> 0, base_low |-> 0, base_mid |-> 0,
                   attr1 |-> 0, limit_high_attr2 |-> 0, base_high |-> 0]

\* Mutant of init_descriptor: the middle byte of the base is not written.
init_descriptor_NoMid(d, base, limit, attribute) ==
  [limit_low |-> limit % 256, pad |-> d.pad,
   base_low |-> base % 65536, base_mid |-> d.base_mid,
   base_high |-> (base \div (256 * 65536)) % 256,
   attr1 |-> attribute % 256,
   limit_high_attr2 |-> ((limit \div 65536) % 16) + 16 * ((attribute \div 4096) % 16)]
init_descriptor(d, base, limit, attribute) ==
  [limit_low |-> limit % 256, pad |-> d.pad,
   base_low |-> base % 65536, base_mid |-> (base \div 65536) % 256,
   base_high |-> (base \div (256 * 65536)) % 256,
   attr1 |-> attribute % 256,
   limit_high_attr2 |-> ((limit \div 65536) % 16) + 16 * ((attribute \div 4096) % 16)]

seg2phys(d) == d.base_high * (256 * 65536) + d.base_mid * 65536 + d.base_low

\* The processor's view.
Base(d) == seg2phys(d)
Limit(d) == (d.limit_high_attr2 % 16) * 65536 + d.pad * 256 + d.limit_low
In4K(d) == d.limit_high_attr2 >= 128
Type(d) == (d.attr1 % 32) + 128 * (d.attr1 \div 128)   \* without the DPL
Dpl(d) == (d.attr1 \div 32) % 4

\* do_fork: the size of the parent's segment, and the segment of the child.
parent_size(d) ==
  ((d.limit_high_attr2 % 16) * 65536 + d.limit_low + 1) * (IF In4K(d) THEN 4096 ELSE 1)

child_base(child) ==
  PROCS_BASE + (child - (NR_TASKS + NR_NATIVE_PROCS)) * PROC_DEFAULT_MEM

ChildSegment(d, child, kind) ==
  init_descriptor(d, child_base(child), (PROC_DEFAULT_MEM - 1) \div 4096,
                  DA_LIMIT_4K + DA_32 + kind + DPL(1))

\* The bytes a segment gives its process.
Memory(d) == Base(d) .. Base(d) + (Limit(d) + 1) * (IF In4K(d) THEN 4096 ELSE 1) - 1
=============================================================================
