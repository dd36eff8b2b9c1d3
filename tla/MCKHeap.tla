--------------------------------- MODULE MCKHeap ---------------------------------
(* Memory maps and request sizes for TLC.                                  *)
EXTENDS KHeap, TLC

Region(addr, len, available) == [addr |-> addr, len |-> len, available |-> available]

(* The kernel (pages 1 and 2), then free memory without a hole: room for   *)
(* two or three expansions.                                                *)
Contiguous == <<Region(4096, 57344, TRUE)>>

(* As on a PC: three free pages, a hole, more pages behind the kernel. *)
WithHole == <<Region(12288, 12288, TRUE), Region(32768, 32768, TRUE)>>

(* Nothing, a PCB and more than one expansion. *)
Mixed == {0, 376, 20000}

(* With alignment 256, half of an expansion, of which the second leaves    *)
(* too little to split.                                                    *)
Half == {7864}

(* One expansion exactly. *)
Exact == {16352}

CallerSymmetry == Permutations(Callers)
================================================================================
