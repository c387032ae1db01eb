------------------------------- MODULE MCBoot -------------------------------
(* Constants of Boot: floppies with sectors of 16 bytes and tables of two  *)
(* sectors, on which the FAT entry of cluster 10 lies across two sectors;  *)
(* the kernel's segment holds four sectors.                                *)
EXTENDS Boot

\* A directory entry whose name agrees with that of file in so many letters.
Named(which, letters, clusters) ==
  [Empty EXCEPT !.agree[which] = letters, !.chain = clusters]

\* Ranges of memory in megabytes; type 1 is usable.
Range3(size) == <<[base |-> 0, len |-> 1, type |-> 1], [base |-> 1, len |-> size - 1, type |-> 1],
                  [base |-> 4095, len |-> 1, type |-> 2]>>
Ram128 == Range3(128)
Ram130 == Range3(130)
RamNone == <<[base |-> 0, len |-> 128, type |-> 2]>>
RamHigh == Append(Range3(3071), [base |-> 4096, len |-> 512, type |-> 1])

Disk(entries, mark, memory) == [root |-> entries, eof |-> mark, ranges |-> memory]
Loader == Named("LOADER", 11, <<9, 11, 10>>)
Kernel(clusters) == Named("KERNEL", 11, clusters)
Other == Named("KERNEL", 0, <<13>>)

MCMachines == {
  Disk(<<Loader, Kernel(<<3, 2, 5, 4>>)>>, 4095, Ram128),
  Disk(<<Other, Named("KERNEL", 9, <<12>>), Loader, Kernel(<<20, 2, 19>>)>>, 4088, Ram130),
  Disk(<<Kernel(<<15, 14>>), Other, Other, Loader>>, 4088, RamHigh),
  Disk(<<Loader, Named("KERNEL", 10, <<12>>), Kernel(<<2>>)>>, 4095, Ram128),
  Disk(<<Kernel(<<2>>), Other>>, 4095, Ram128),
  Disk(<<Loader, Kernel(<<2>>)>>, 4095, RamNone),
  Disk(<<Loader, Other, Other>>, 4095, Ram128),
  Disk(<<Loader, Kernel(<<2, 3, 4, 5, 6>>)>>, 4095, Ram128)}

MCAddrLdts == [i \in 0 .. NR_TASK_PROCS - 1 |-> 131072 + 164 * i]
=============================================================================
