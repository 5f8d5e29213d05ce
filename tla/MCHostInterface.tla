-------------------------- MODULE MCHostInterface --------------------------
(***************************************************************************)
(* Small instances of HostInterface for TLC: a getter with room for one    *)
(* byte and a setter without an answer; payloads of no byte, and of one    *)
(* byte with the value of FRAME_START, which the setter has no room for.   *)
(***************************************************************************)
EXTENDS HostInterface

MC_Ops == {1, 2}
MC_OutLen == [o \in MC_Ops |-> IF o = 1 THEN 1 ELSE 0]
MC_NoPayload == {<<>>}
MC_OnePayload == {<<>>, <<SOF>>}
=============================================================================
