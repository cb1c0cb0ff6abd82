--------------------------- MODULE ServedDirectory ---------------------------
(***************************************************************************)
(* What stage() and unstage() promise the TFTP daemon: under each name it  *)
(* finds one whole firmware file or nothing, and a file gives way to       *)
(* another in one step.                                                    *)
(***************************************************************************)
CONSTANTS
    Targets,   \* names the daemon serves
    Firmware,  \* firmware files
    None       \* nothing under that name

VARIABLE served   \* what the daemon finds under each name

Init == served = [n \in Targets |-> None]

Place(n, f) == served' = [served EXCEPT ![n] = f]
Remove(n)   == served' = [served EXCEPT ![n] = None]

Next == \E n \in Targets : Remove(n) \/ \E f \in Firmware : Place(n, f)

Spec == Init /\ [][Next]_served

=============================================================================
