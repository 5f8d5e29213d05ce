---------------------------- MODULE MCFtpClient ----------------------------
(***************************************************************************)
(* Small instances of FtpClient for TLC: file a has two segments, file b   *)
(* one, and file e none. MaxRetrySegs = 2 lets one missing segment be      *)
(* listed and two be too many; segment number 2 lies beyond every file.    *)
(***************************************************************************)
EXTENDS FtpClientProps

CONSTANTS a, b, e

MC_NumSegs == [g \in Files |-> CASE g = a -> 2 [] g = b -> 1 [] g = e -> 0]
=============================================================================
