------------------------------ MODULE RwLockSpec ------------------------------
(***************************************************************************)
(* What lock_api asks of a raw reader-writer lock: any number of shared    *)
(* guards, or one exclusive guard, and nothing else.                       *)
(***************************************************************************)
CONSTANT Procs

VARIABLES readers, writers

Init == readers = {} /\ writers = {}

LockShared(p) ==
    /\ writers = {} /\ p \notin readers
    /\ readers' = readers \cup {p}
    /\ writers' = writers

UnlockShared(p) ==
    /\ p \in readers
    /\ readers' = readers \ {p}
    /\ writers' = writers

LockExclusive(p) ==
    /\ writers = {} /\ readers = {}
    /\ writers' = {p}
    /\ readers' = readers

UnlockExclusive(p) ==
    /\ p \in writers
    /\ writers' = writers \ {p}
    /\ readers' = readers

Next == \E p \in Procs :
    LockShared(p) \/ UnlockShared(p) \/ LockExclusive(p) \/ UnlockExclusive(p)

Spec == Init /\ [][Next]_<<readers, writers>>
=============================================================================
