------------------------------ MODULE AddressSpace ------------------------------
(***************************************************************************)
(* What callers of kernel/mm/paging.c rely on: an address space is a       *)
(* partial map from virtual to physical pages.  A call changes the entry   *)
(* of the page it is about, from unmapped to mapped or back, and no other. *)
(***************************************************************************)
CONSTANTS Virts,     (* virtual pages                        *)
          Frames,    (* physical pages                       *)
          Unmapped

VARIABLE space

Init == space = [v \in Virts |-> Unmapped]

(* One page, from unmapped to mapped or back. *)
Next ==
  LET before == space
      after == space'
  IN  \E v \in Virts :
        /\ after = [before EXCEPT ![v] = after[v]]
        /\ \/ before[v] = Unmapped /\ after[v] \in Frames
           \/ after[v] = Unmapped

Spec == Init /\ [][Next]_space
================================================================================
