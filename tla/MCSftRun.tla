------------------------------ MODULE MCSftRun ------------------------------
(* SFT launches in one directory, on small instances. *)
EXTENDS SftRun

(* Launches that save recovery generations and launches that validate. *)
SaveOrValidate == {[saving |-> TRUE, validating |-> FALSE],
                   [saving |-> FALSE, validating |-> TRUE]}

=============================================================================
