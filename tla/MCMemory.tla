-------------------------------- MODULE MCMemory --------------------------------
(* The boot for TLC: at most ten pages, the kernel in pages 2 to 4 with boot's    *)
(* tables in it, page 9 beyond the identity mapping.                       *)
EXTENDS Memory, TLC

Region(addr, len, available) == [addr |-> addr, len |-> len, available |-> available]

(* Low memory from address 0, a hole, then the main memory, like a PC. *)
FromZero == <<Region(0, 4096, TRUE), Region(4096, 4096, FALSE), Region(8192, 20480, TRUE)>>

(* Nothing at address 0; overlapping regions, neither a multiple of pages. *)
Overlapping == <<Region(8192, 16384, TRUE), Region(16384, 12500, TRUE)>>

(* The main memory starts within a page. *)
Unaligned == <<Region(0, 4608, FALSE), Region(4608, 24064, TRUE)>>

(* Main memory without anything special. *)
Plain == <<Region(8192, 32768, TRUE)>>

Tag(type, size) == [type |-> type, size |-> size, entry_size |-> 0, entries |-> <<>>]
MmapTag(entry_size, map) ==
  [type |-> "mmap", size |-> 16 + entry_size * Len(map), entry_size |-> entry_size,
   entries |-> map]

(* A command line of one letter, GRUB's name, and the two kinds of memory  *)
(* information; sizes that are and are not multiples of eight.             *)
Info(entry_size, map) ==
  [magic |-> TRUE,
   tags |-> <<Tag("cmdline", 10), Tag("name", 18), Tag("other", 12), Tag("meminfo", 16),
              MmapTag(entry_size, map), Tag("end", 8)>>]

NoMap == [magic |-> TRUE, tags |-> <<Tag("name", 18), Tag("meminfo", 16), Tag("end", 8)>>]
NotMultiboot == [magic |-> FALSE, tags |-> <<Tag("end", 8)>>]

AllInfos == {Info(32, FromZero), Info(24, Overlapping), Info(24, Unaligned), Info(24, Plain),
             NoMap, NotMultiboot}
PlainInfo == {Info(24, Plain)}
ZeroInfo == {Info(32, FromZero)}
AllMaps == {MapPassed(info) : info \in AllInfos}

MCBootTables == <<2, 3, 4>>
Device == {12}
NxFlags == {{"present"}, {"present", "nx"}}
PresentFlags == {{"present"}}

(* One page just behind the boot mapping, and two in the kernel half that  *)
(* need the same three tables.                                             *)
MCVirts == {<<0, 0, 1, 0>>, <<1, 0, 0, 0>>, <<1, 0, 0, 1>>}

(* A page inside the boot mapping. *)
BootVirts == {<<0, 0, 0, 1>>, <<0, 0, 1, 1>>}

CallerSymmetry == Permutations(Callers)
================================================================================
