---------------------------- MODULE MCSelectedOutput ----------------------------
(* SelectedOutputSession with the user numbers 1, which keeps its old            *)
(* definition, and 2, which does not.                                            *)
EXTENDS SelectedOutputSession

MCUsers == {1, 2}

================================================================================
