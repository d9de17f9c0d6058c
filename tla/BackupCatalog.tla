---------------------------- MODULE BackupCatalog ----------------------------
(***************************************************************************)
(* What the chunk store promises its caller: a stored backup reads back as  *)
(* it was written until it is retired, whatever happens to other backups,   *)
(* and a retired backup does not come back.                                 *)
(***************************************************************************)

CONSTANTS
    Backups,   \* the backups that may be taken
    Images     \* the disk images that may be written

VARIABLES
    contents,  \* contents[b]: what reading b returns; empty without manifest
    retired    \* the backups that were stored and are gone

catalogVars == <<contents, retired>>

Init ==
    /\ contents = [b \in Backups |-> {}]
    /\ retired = {}

Store(b) ==
    /\ contents[b] = {}
    /\ b \notin retired
    /\ \E image \in Images : contents' = [contents EXCEPT ![b] = {image}]
    /\ UNCHANGED retired

Retire(b) ==
    /\ contents[b] # {}
    /\ contents' = [contents EXCEPT ![b] = {}]
    /\ retired' = retired \cup {b}

Next == \E b \in Backups : Store(b) \/ Retire(b)

Spec == Init /\ [][Next]_catalogVars

=============================================================================
