---------------------------- MODULE MCFtpSession ----------------------------
(***************************************************************************)
(* A session about one file of two segments for TLC. MaxRetrySegs = 2      *)
(* lets one missing segment be listed and two be too many.                 *)
(***************************************************************************)
EXTENDS FtpSession

CONSTANT a

MC_NumSegs == [g \in Files |-> 2]
=============================================================================
