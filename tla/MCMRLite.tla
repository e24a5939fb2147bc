------------------------------ MODULE MCMRLite ------------------------------
(***************************************************************************)
(* MRLite on two client nodes: a file of three lines of different lengths,  *)
(* split in two at the first line end after its middle, blocks of two      *)
(* lines, a lazy buffer of one to two lines, two jobs and one fault.       *)
(***************************************************************************)
EXTENDS MRLite

MCFile == <<2, 1, 3>>
MCJobConf == {-1, 0, 2}
=============================================================================
