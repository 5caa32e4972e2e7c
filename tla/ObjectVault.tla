----------------------------- MODULE ObjectVault -----------------------------
(***************************************************************************)
(* What the object store promises (docs/V3_VAULT_FORMAT.md, "Publication   *)
(* and crash consistency"): replacement publishes the new object, then     *)
(* switches the database reference, then removes the old one; deletion     *)
(* removes the reference before the file. A file and a reference never     *)
(* change in one step, and a reference only moves to a complete object     *)
(* that a power loss cannot take back.                                     *)
(***************************************************************************)
CONSTANTS Object, Slot, None

VARIABLES
    files,   \* the complete objects that are in place
    fragile, \* objects whose appearance or removal a power loss may undo
    refs     \* the object each slot of the database references

Referenced == {refs[s] : s \in Slot} \ {None}

Init == files = {} /\ fragile = {} /\ refs = [s \in Slot |-> None]

Publish(o) ==
    /\ o \notin files
    /\ files' = files \cup {o}
    /\ fragile' = fragile \cup {o}
    /\ UNCHANGED refs

Sync ==
    /\ fragile' \in SUBSET fragile
    /\ UNCHANGED <<files, refs>>

\* Any number of references move in one transaction.
Switch ==
    /\ refs' \in [Slot -> (files \ fragile) \cup {None}]
    /\ UNCHANGED <<files, fragile>>

Reclaim(o) ==
    /\ o \in files \ Referenced
    /\ files' = files \ {o}
    /\ fragile' \in SUBSET (fragile \cup {o})
    /\ UNCHANGED refs

PowerLoss ==
    /\ \E kept \in SUBSET fragile : files' = (files \ fragile) \cup kept
    /\ fragile' = {}
    /\ UNCHANGED refs

Next ==
    \/ \E o \in Object : Publish(o) \/ Reclaim(o)
    \/ Sync \/ Switch \/ PowerLoss

Spec == Init /\ [][Next]_<<files, fragile, refs>>
=============================================================================
