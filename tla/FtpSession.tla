----------------------------- MODULE FtpSession -----------------------------
(***************************************************************************)
(* The FTP client with a server that answers it, over a link that loses    *)
(* messages and delivers old ones again.                                   *)
(*                                                                         *)
(* FtpClient lets any message come at any time. Here the server sends      *)
(* segments and TX_APPLY because an uplink asked for them, so that what a  *)
(* lost message costs can be stated. Messages that are not lost arrive     *)
(* before the next second; strays (late, repeated, or sent on an           *)
(* operator's behalf) arrive whenever they like.                           *)
(***************************************************************************)
EXTENDS FtpClientProps

ASSUME NoFileIsEmpty == \A g \in Files : NumSegs[g] > 0

VARIABLES
    down,           \* the messages the server has just sent
    up,             \* the uplinks that have not reached the server yet
    losses          \* history: messages lost since the last ll_ftp_reset

sessionVars == <<vars, down, up, losses>>

\* From here on the number of losses explains any silence.
MaxLosses == MaxRetries + 1

Message(t, g) == [type |-> t, about |-> g, seg |-> 0]
TxSegment(g, s) == [type |-> "TX_SEGMENT", about |-> g, seg |-> s]
Messages ==
    {Message(t, g) : t \in {"TX_INIT", "TX_APPLY", "TX_CANCEL"}, g \in Files}
        \cup {TxSegment(g, s) : g \in Files, s \in SegNums}

-----------------------------------------------------------------------------
(* The client's side: ll_ftp_msg_process on a message, by its type. *)

RxInit(g) ==
    \/ RxFile(g)
    \/ g = file /\ (SegmentIgnore \/ ApplyIgnore)

RxSegment(g, s) ==
    \/ RxFile(g)
    \/ g = file /\ (RxData(s) \/ ApplyRxData)

RxApply(g) ==
    \/ IdleRefuse
    \/ SegmentRxApply
    \/ IF g = file THEN ApplyRxApply ELSE ApplyIgnore

RxCancel(g) ==
    \/ IdleRefuse
    \/ IF g = file THEN SegmentRxCancel \/ ApplyRxCancel
                   ELSE SegmentIgnore \/ ApplyIgnore

Receives(m) ==
    \/ m.type = "TX_INIT"    /\ RxInit(m.about)
    \/ m.type = "TX_SEGMENT" /\ RxSegment(m.about, m.seg)
    \/ m.type = "TX_APPLY"   /\ RxApply(m.about)
    \/ m.type = "TX_CANCEL"  /\ RxCancel(m.about)

\* What a call of ll_ftp_msg_process leaves on the link.
Sends ==
    /\ up' = up \cup ({sent'} \ {NoUplink})
    /\ losses' = IF quiet' = 0 THEN 0 ELSE losses
    /\ UNCHANGED server_up

Deliver(m) ==
    /\ m \in down
    /\ Receives(m)
    /\ Sends
    /\ down' = down \ {m}

\* A message of before: delayed by the network, repeated by it, or unasked for.
Stray(m) ==
    /\ Receives(m)
    /\ Sends
    /\ UNCHANGED down

ClientTick ==
    /\ Tick
    /\ Sends
    /\ UNCHANGED down

-----------------------------------------------------------------------------
(* The server and the link. *)

\* What the server sends when it hears uplink u.
Answer(u) ==
    CASE u.type = "ACK_INIT" /\ u.ack = "ACK" ->
           {TxSegment(u.about, s) : s \in Segs(u.about)}
      [] u.type = "ACK_SEGMENT" /\ u.ack = "NAK" ->
           {TxSegment(u.about, s) : s \in Segs(u.about)}
      [] u.type = "ACK_SEGMENT" /\ u.ack = "NAK_SEGMENT" ->
           {TxSegment(u.about, s) : s \in u.segs}
      [] u.type = "ACK_SEGMENT" /\ u.ack = "ACK" ->
           {Message("TX_APPLY", u.about)}
      [] OTHER -> {}

ServerHears(u) ==
    /\ u \in up
    /\ up' = up \ {u}
    /\ down' = down \cup Answer(u)
    /\ UNCHANGED <<vars, losses>>

Lose ==
    /\ \/ \E m \in down : down' = down \ {m} /\ UNCHANGED up
       \/ \E u \in up : up' = up \ {u} /\ UNCHANGED down
    /\ losses' = IF losses < MaxLosses THEN losses + 1 ELSE losses
    /\ UNCHANGED vars

\* A second passes when the link is idle and the tick that is due was made.
SecondPasses ==
    /\ up = {} /\ down = {}
    /\ elapsed < RetryInterval
    /\ Clock
    /\ UNCHANGED <<down, up, losses>>

SessionInit == Init /\ down = {} /\ up = {} /\ losses = 0

SessionNext ==
    \/ \E m \in Messages : Deliver(m) \/ Stray(m)
    \/ ClientTick
    \/ \E u \in up : ServerHears(u)
    \/ Lose
    \/ SecondPasses

SessionSpec == SessionInit /\ [][SessionNext]_sessionVars

-----------------------------------------------------------------------------
(* Properties *)

\* Without a loss a segment comes at least every RetryInterval, and each lost
\* message costs one interval at most, an ACK_INIT that is never repeated and a
\* request postponed by a stray TX_APPLY included: the tick's request
\* (ll_ftp_segment_process_msg on a NULL message) makes up for all of them.
SilenceHasCause ==
    state # "IDLE" => quiet <= (losses + 1) * RetryInterval

\* The client gives up a transfer only when the link lost a message for every
\* retry it had: a server that answers never loses its client by strays alone.
GivesUpOnlyUnheard ==
    [][ ClientTick /\ state # "IDLE" /\ state' = "IDLE" =>
          losses >= MaxRetries ]_sessionVars
=============================================================================
