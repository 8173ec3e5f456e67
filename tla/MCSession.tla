------------------------------- MODULE MCSession -------------------------------
(* IPhreeqcSession with one file channel, one text buffer and inputs of up to  *)
(* two simulations and one included file.                                      *)
EXTENDS IPhreeqcSession

MCFiles == {"error"}
MCBuffers == {"output"}
MCReports == {"error"}

================================================================================
