------------------------------ MODULE MCFlash ------------------------------
(***************************************************************************)
(* The helpers of flash.rs and status.rs for TLC.  The status word and the *)
(* scans share nothing, so that their interleavings show nothing: one of   *)
(* the two machines runs at a time, and the scans are the same on both     *)
(* kinds of media.                                                         *)
(***************************************************************************)
EXTENDS FlashScan, StatusTable

AllErased == \A p \in 0 .. Size-1 : mem[p] = "erased"

Init == ScanInit /\ StatusInit /\ (overwrites => AllErased)

Next == \/ asked = 0 /\ ScanNext /\ UNCHANGED statusVars
        \/ op = "None" /\ AllErased /\ StatusNext /\ UNCHANGED scanVars

Spec == Init /\ [][Next]_<<scanVars, statusVars>>
=============================================================================
