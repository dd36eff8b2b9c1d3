------------------------------- MODULE Multiboot -------------------------------
(***************************************************************************)
(* kernel/boot/multiboot2.c: the walk over the tags of the boot            *)
(* information, which leaves pointers to three of them, and the loop over  *)
(* the entries of the memory map, which pmm_init repeats.                  *)
(*                                                                         *)
(* The information is the sequence of tags that GRUB writes, each padded   *)
(* to eight bytes (external).  The kernel sees offsets only: what it finds *)
(* at an offset where no tag begins is not a tag.  Printing is left out.   *)
(***************************************************************************)
EXTENDS Integers, Sequences

CONSTANTS Infos     (* what GRUB may pass: magic number and tags           *)

Types == {"cmdline", "name", "meminfo", "mmap", "end", "other"}

(* What GRUB writes: at most one memory map, whose size counts its         *)
(* entries, and the end tag last.                                          *)
IsMmapTag(t) ==
  /\ t.entry_size \in Nat \ {0}
  /\ DOMAIN t.entries = 1 .. Len(t.entries) /\ Len(t.entries) \in Nat
  /\ t.size = 16 + t.entry_size * Len(t.entries)

ASSUME InfosAssumption ==
  \A info \in Infos :
    /\ info.magic \in BOOLEAN
    /\ DOMAIN info.tags = 1 .. Len(info.tags) /\ Len(info.tags) \in Nat \ {0}
    /\ \A i \in DOMAIN info.tags :
         /\ info.tags[i].type \in Types /\ info.tags[i].size \in Nat \ {0}
         /\ info.tags[i].type = "end" <=> i = Len(info.tags)
         /\ info.tags[i].type = "mmap" =>
              /\ IsMmapTag(info.tags[i])
              /\ \A j \in DOMAIN info.tags : info.tags[j].type = "mmap" => i = j

(* An operator whose comment begins with Slip is what a plausible mistake  *)
(* in the code would make of the operator after it; nothing uses it.       *)

VARIABLES
  mbi,     (* external: what GRUB passed                                   *)
  tag,     (* multiboot2_parse's tag, an offset; 0 before, Parsed after    *)
  mmap_tag, meminfo_tag, bootloader_tag   (* offsets, 0 for null           *)

mbVars == <<mbi, tag, mmap_tag, meminfo_tag, bootloader_tag>>

Parsed == -1

Align8(n) == ((n + 7) \div 8) * 8

(* Where GRUB puts tag i: behind the eight bytes of total_size, reserved.  *)
OffsetOf(tags) ==
  LET at[i \in 1 .. Len(tags)] ==
        IF i = 1 THEN 8 ELSE at[i - 1] + Align8(tags[i - 1].size)
  IN  at

Offsets == {OffsetOf(mbi.tags)[i] : i \in DOMAIN mbi.tags}

(* The tag at an offset where one begins. *)
TagAt(offset) ==
  mbi.tags[CHOOSE i \in DOMAIN mbi.tags : OffsetOf(mbi.tags)[i] = offset]

MbInit ==
  /\ mbi \in Infos
  /\ tag = 0
  /\ mmap_tag = 0 /\ meminfo_tag = 0 /\ bootloader_tag = 0

(* multiboot2_parse begins: with the wrong magic number it is over. *)
ParseBegin ==
  /\ tag = 0
  /\ tag' = IF mbi.magic THEN 8 ELSE Parsed
  /\ UNCHANGED <<mbi, mmap_tag, meminfo_tag, bootloader_tag>>

(* Slip: the size is not rounded up. *)
NextTagPacked(offset) == offset + TagAt(offset).size

NextTag(offset) == offset + Align8(TagAt(offset).size)

(* One turn of the loop. *)
ParseTag ==
  /\ tag \in Offsets
  /\ tag' = IF TagAt(tag).type = "end" THEN Parsed ELSE NextTag(tag)
  /\ mmap_tag' = IF TagAt(tag).type = "mmap" THEN tag ELSE mmap_tag
  /\ meminfo_tag' = IF TagAt(tag).type = "meminfo" THEN tag ELSE meminfo_tag
  /\ bootloader_tag' = IF TagAt(tag).type = "name" THEN tag ELSE bootloader_tag
  /\ UNCHANGED mbi

multiboot2_parse == ParseBegin \/ ParseTag

(* Bytes read where no entry begins. *)
Garbage == [addr |-> 0, len |-> 0, available |-> FALSE]

(* The entry that begins so many bytes behind mmap->entries. *)
EntryAt(t, offset) ==
  IF offset % t.entry_size = 0 THEN t.entries[offset \div t.entry_size + 1]
  ELSE Garbage

(* Slip: the loop goes by the size of the struct it declares. *)
EntriesOfStruct(t) ==
  [k \in 1 .. ((t.size - 16 + 23) \div 24) |-> EntryAt(t, (k - 1) * 24)]

(* The entries the loops find, entry_size bytes apart, up to the tag's     *)
(* size; the first is 16 bytes into the tag.                               *)
EntriesOf(t) ==
  [k \in 1 .. ((t.size - 16 + t.entry_size - 1) \div t.entry_size) |->
     EntryAt(t, (k - 1) * t.entry_size)]

(* The memory map that multiboot2_get_mmap leads to; none for null. *)
multiboot2_get_mmap == IF mmap_tag = 0 THEN <<>> ELSE EntriesOf(TagAt(mmap_tag))

(* What GRUB meant by it. *)
MapPassed(info) ==
  LET maps == {i \in DOMAIN info.tags : info.tags[i].type = "mmap"}
  IN  IF info.magic /\ maps # {} THEN info.tags[CHOOSE i \in maps : TRUE].entries
      ELSE <<>>

--------------------------------------------------------------------------------

(* The walk only ever reads a tag where a tag begins, so it meets the end  *)
(* tag, whatever the sizes; the three pointers are null or lead to a tag   *)
(* of their type, and when the walk is over none that is there was missed. *)
WalkFindsTags ==
  /\ tag \in Offsets \union {0, Parsed}
  /\ \A found \in {<<mmap_tag, "mmap">>, <<meminfo_tag, "meminfo">>,
                   <<bootloader_tag, "name">>} :
       /\ found[1] # 0 => found[1] \in Offsets /\ TagAt(found[1]).type = found[2]
       /\ found[1] = 0 /\ tag = Parsed /\ mbi.magic =>
            \A i \in DOMAIN mbi.tags : mbi.tags[i].type # found[2]
================================================================================
