------------------------------ MODULE MCMemory ------------------------------
(* Instance of Memory: the regions of ARMMap in their order, most of one    *)
(* section; UserStack follows UserHeap at once.                             *)
EXTENDS Memory

OneSection(n) == [virt |-> n * SectionPages, size |-> SectionPages]
MCMap == [KernelPrivate |-> OneSection(1), UserData |-> OneSection(2),
          UserPrivate |-> [virt |-> 3 * SectionPages, size |-> 2 * SectionPages],
          UserHeap |-> [virt |-> 5 * SectionPages, size |-> 2 * SectionPages],
          UserStack |-> [virt |-> 7 * SectionPages, size |-> StackPages], UserShare |-> OneSection(8),
          UserArgs |-> [virt |-> 9 * SectionPages, size |-> ArgsPages]]
MCReserved == [page |-> NumPages - 1, size |-> 2]
MCProgram == <<[virt |-> 2 * SectionPages, size |-> 1], [virt |-> 2 * SectionPages + 1, size |-> 1]>>
=============================================================================
