---------------------------- MODULE WriteBehind ----------------------------
(***************************************************************************)
(* What a write-behind store promises: memory runs ahead of the files, a   *)
(* file only ever moves towards memory, and a restart falls back to the    *)
(* files.  MessageStore implements it.                                     *)
(***************************************************************************)
EXTENDS Naturals

CONSTANT Keys

VARIABLES mem, disk  \* the version in memory and in the file

Init ==
    /\ mem = [k \in Keys |-> 0] /\ disk = mem

Change(k) ==
    /\ mem' = [mem EXCEPT ![k] = @ + 1]
    /\ UNCHANGED disk

Persist(k) ==
    /\ \E version \in disk[k]..mem[k] : disk' = [disk EXCEPT ![k] = version]
    /\ UNCHANGED mem

Restart ==
    /\ mem' = disk
    /\ UNCHANGED disk

Next == (\E k \in Keys : Change(k) \/ Persist(k)) \/ Restart

Spec == Init /\ [][Next]_<<mem, disk>>
=============================================================================
