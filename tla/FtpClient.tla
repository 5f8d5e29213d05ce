----------------------------- MODULE FtpClient -----------------------------
(***************************************************************************)
(* The Symphony FTP client, ll_ifc_ftp.c: the state machine that           *)
(* ll_ftp_msg_process() runs on each downlink message and on each tick.    *)
(*                                                                         *)
(* Around it stand the things it calls or hears: the storage callbacks     *)
(* (open, read, write, close), the apply, uplink and downlink-mode         *)
(* callbacks, the clock, and the server whose messages arrive in any       *)
(* order, lost or duplicated: a message of any type about any file may be  *)
(* the next one.                                                           *)
(***************************************************************************)
EXTENDS Naturals, FiniteSets

CONSTANTS
    Files,          \* the (file_id, file_version) pairs a message may carry
    NoFile,         \* the pair (0, 0) that ll_ftp_init leaves
    NumSegs,        \* per file, ceil(file_size / MAX_FILE_SEGMENT_BYTES)
    SegNums,        \* the segment numbers a message may carry
    MaxRetries,     \* LL_FTP_MAX_NUM_RETRIES
    RetryInterval,  \* LL_FTP_RETRY_INTERVAL, in seconds
    MaxRetrySegs,   \* MAX_NUM_RETRY_SEGS
    Faulty          \* the callbacks that may return something else than OK

Callbacks == {"open", "read", "write", "close", "apply"}

ASSUME FilesAssumption == NoFile \notin Files
ASSUME SegsAssumption ==
    /\ NumSegs \in [Files -> Nat]
    /\ SegNums \subseteq Nat
    /\ \A g \in Files : 0 .. NumSegs[g] - 1 \subseteq SegNums
ASSUME RetryAssumption ==
    /\ MaxRetries \in Nat
    /\ RetryInterval \in Nat \ {0}
    /\ MaxRetrySegs \in Nat
ASSUME FaultyAssumption == Faulty \subseteq Callbacks

VARIABLES
    state,          \* f->state
    file,           \* f->file_id, file_version, file_size and num_segs
    rx_segs,        \* f->rx_segs, as the set of the numbers whose bit is set
    retry_count,    \* f->retry_count
    elapsed,        \* seconds since f->time_last_msg, up to RetryInterval
    opened,         \* the files the storage holds open
    stored,         \* the segments of `file' that storage holds intact
    downlink_on,    \* the argument of the last cb.config call
    ret,            \* the result of the last ll_ftp_msg_process
    sent,           \* the uplink that call sent, or NoUplink
    server_up,      \* FALSE once the server has fallen silent for good
    quiet           \* history: seconds since the last ll_ftp_reset

clientVars  == <<state, file, rx_segs, retry_count>>
storageVars == <<opened, stored>>
vars == <<state, file, rx_segs, retry_count, elapsed, opened, stored,
          downlink_on, ret, sent, server_up, quiet>>

States == {"IDLE", "SEGMENT", "APPLY"}
ReturnCodes == {"OK", "OOR", "INVALID_VALUE", "NO_ACTION", "ERROR"}

\* The longest silence worth telling apart: when the client must have given up.
QuietMax == (MaxRetries + 1) * RetryInterval

NoUplink == [type |-> "NONE", ack |-> "NONE", about |-> NoFile, segs |-> {}]
Uplinks ==
    [type  : {"NONE", "ACK_INIT", "ACK_SEGMENT", "ACK_APPLY"},
     ack   : {"NONE", "ACK", "NAK", "NAK_SEGMENT"},
     about : Files \cup {NoFile},
     segs  : SUBSET SegNums]

\* What callback c may report: only a faulty one may fail.
Outcome(c) == IF c \in Faulty THEN BOOLEAN ELSE {TRUE}

-----------------------------------------------------------------------------
(* The segment map and the uplinks. *)

Segs(g) == IF g \in Files THEN 0 .. NumSegs[g] - 1 ELSE {}

\* Wrong on purpose: the segment after the last is waited for.
CompleteOneMore(g, r) == Segs(g) \cup {Cardinality(Segs(g))} \subseteq r

\* ll_ftp_transfer_is_complete, on the segment map r of file g.
Complete(g, r) == Segs(g) \subseteq r

\* Wrong on purpose: the search starts at segment 1.
MissingFromOne(g, r) == Segs(g) \ (r \cup {0})

\* ll_ftp_get_missing_segs
Missing(g, r) == Segs(g) \ r

Uplink(t, a, g, s) == [type |-> t, ack |-> a, about |-> g, segs |-> s]

AckInit(ack, g)  == Uplink("ACK_INIT", ack, g, {})
SegsComplete(g)  == Uplink("ACK_SEGMENT", "ACK", g, {})
AckApply(g)      == Uplink("ACK_APPLY", "ACK", g, {})

\* From MaxRetrySegs missing segments on, the whole file is asked for again.
SegsRequest(g, r) ==
    IF Cardinality(Missing(g, r)) >= MaxRetrySegs
    THEN Uplink("ACK_SEGMENT", "NAK", g, {})
    ELSE Uplink("ACK_SEGMENT", "NAK_SEGMENT", g, Missing(g, r))

\* Wrong on purpose: the time of the last message is not taken.
SendUplinkUnstamped(m) == sent' = m /\ UNCHANGED elapsed

\* ll_ftp_send_uplink: the time stamp is taken whatever the callback returns.
SendUplink(m) == sent' = m /\ elapsed' = 0

\* Wrong on purpose: the retries are not given back.
ResetTimeOnly == elapsed' = 0 /\ quiet' = 0 /\ UNCHANGED retry_count

\* ll_ftp_reset
Reset == elapsed' = 0 /\ retry_count' = 0 /\ quiet' = 0

-----------------------------------------------------------------------------
(* Transitions between the states, with the callbacks they make. *)

\* ll_ftp_init: every field is cleared; the zero time stamp is long ago.
Clear ==
    /\ state' = "IDLE"
    /\ file' = NoFile
    /\ rx_segs' = {}
    /\ retry_count' = 0
    /\ elapsed' = RetryInterval
    /\ stored' = {}
    /\ quiet' = 0

\* Wrong on purpose: the file is initialised before it is opened.
SegmentStartTooSoon(g) ==
    /\ file' = g
    /\ rx_segs' = {}
    /\ stored' = {}
    /\ Reset
    /\ \/ /\ state' = "SEGMENT"
          /\ opened' = opened \cup {g}
          /\ downlink_on' = TRUE
          /\ sent' = AckInit("ACK", g)
          /\ ret' = "OK"
       \/ /\ "open" \in Faulty
          /\ sent' = AckInit("NAK", file)
          /\ ret' = "NO_ACTION"
          /\ UNCHANGED <<state, opened, downlink_on>>

\* ll_ftp_segment_start on a TX_INIT or TX_SEGMENT about g, the callers' case.
\* If open fails the NAK carries the client's own file, not g.
SegmentStart(g) ==
    \/ /\ state' = "SEGMENT"
       /\ file' = g
       /\ rx_segs' = {}
       /\ Reset
       /\ opened' = opened \cup {g}
       /\ stored' = {}
       /\ downlink_on' = TRUE
       /\ sent' = AckInit("ACK", g)
       /\ ret' = "OK"
    \/ /\ "open" \in Faulty
       /\ SendUplink(AckInit("NAK", file))
       /\ ret' = "NO_ACTION"
       /\ UNCHANGED <<clientVars, storageVars, downlink_on, quiet>>

\* Wrong on purpose: the file is left open, or the downlink mode as it is.
ClearUnclosed == UNCHANGED opened /\ downlink_on' = FALSE /\ Clear
ClearDownlinkOn == opened' = opened \ {file} /\ UNCHANGED downlink_on /\ Clear

\* ll_ftp_idle_start once its close returned OK, and the ll_ftp_init after it.
CloseAndClear ==
    /\ opened' = opened \ {file}
    /\ downlink_on' = FALSE
    /\ Clear

\* Wrong on purpose: the downlink mode is turned back before the close.
SegmentToIdleDeaf ==
    /\ sent' = NoUplink
    /\ \/ CloseAndClear /\ ret' = "OK"
       \/ /\ "close" \in Faulty
          /\ ret' = "ERROR"
          /\ downlink_on' = FALSE
          /\ UNCHANGED <<clientVars, elapsed, storageVars, quiet>>

\* SEGMENT to IDLE. If close fails the client stays in SEGMENT and the next
\* tick tries again.
SegmentToIdle ==
    /\ sent' = NoUplink
    /\ \/ CloseAndClear /\ ret' = "OK"
       \/ /\ "close" \in Faulty
          /\ ret' = "ERROR"
          /\ UNCHANGED <<clientVars, elapsed, storageVars, downlink_on, quiet>>

\* APPLY to IDLE. ll_ftp_init runs even if close fails, and then nothing has
\* turned the downlink mode back.
ApplyToIdle(failed, up) ==
    /\ sent' = up
    /\ \/ CloseAndClear /\ ret' = (IF failed THEN "ERROR" ELSE "OK")
       \/ /\ "close" \in Faulty
          /\ Clear
          /\ ret' = "ERROR"
          /\ UNCHANGED <<opened, downlink_on>>

-----------------------------------------------------------------------------
(* ll_ftp_idle_process_msg *)

IdleRxFile(g) ==
    /\ state = "IDLE"
    /\ SegmentStart(g)

\* Any other message, and the tick.
IdleRefuse ==
    /\ state = "IDLE"
    /\ ret' = "INVALID_VALUE"
    /\ sent' = NoUplink
    /\ UNCHANGED <<clientVars, elapsed, storageVars, downlink_on, quiet>>

-----------------------------------------------------------------------------
(* ll_ftp_segment_process_msg *)

\* Wrong on purpose: any TX_INIT starts over, one of the same file too.
SegmentRxAnyFile(g) == state = "SEGMENT" /\ SegmentStart(g)

\* TX_INIT or TX_SEGMENT about another file: the transfer starts over with g.
SegmentRxOtherFile(g) ==
    /\ state = "SEGMENT"
    /\ g # file
    /\ SegmentStart(g)

SegmentRxCancel ==
    /\ state = "SEGMENT"
    /\ SegmentToIdle

\* ll_ftp_write_segment: a write that fails may leave the old bytes or spoil
\* them, and does not touch the segment map.
Written(s, ok) == IF ok THEN {stored \cup {s}} ELSE {stored, stored \ {s}}

\* Wrong on purpose: a segment whose write failed is tracked.
TrackedAnyway(s, ok) == rx_segs \cup {s}

Tracked(s, ok) == IF ok THEN rx_segs \cup {s} ELSE rx_segs

\* A segment that leaves others missing.
SegmentRxData(s) ==
    /\ state = "SEGMENT"
    /\ \E ok \in Outcome("write") :
          /\ ~ Complete(file, Tracked(s, ok))
          /\ stored' \in Written(s, ok)
          /\ rx_segs' = Tracked(s, ok)
          /\ ret' = (IF ok THEN "OK" ELSE "NO_ACTION")
    /\ Reset
    /\ sent' = NoUplink
    /\ UNCHANGED <<state, file, opened, downlink_on>>

\* Wrong on purpose: the stored file is not verified.
VerifyNothing(g, d) == {TRUE}

\* ll_ftp_verify_file compares a crc over the stored bytes with the header: it
\* succeeds on the whole file only, and a failing read makes it fail too.
Verify(g, d) == {ok \in BOOLEAN : IF ok THEN Segs(g) \subseteq d
                                  ELSE "read" \in Faulty \/ ~ Segs(g) \subseteq d}

\* The last segment, verified: to APPLY, or, if close fails, to IDLE as things
\* stand.
SegmentRxLastVerified(s) ==
    /\ state = "SEGMENT"
    /\ \E ok \in Outcome("write") :
          /\ Complete(file, Tracked(s, ok))
          /\ stored' \in Written(s, ok)
          /\ rx_segs' = Tracked(s, ok)
    /\ TRUE \in Verify(file, stored')
    /\ Reset
    /\ \/ /\ state' = "APPLY"
          /\ opened' = opened \ {file}
          /\ sent' = SegsComplete(file)
          /\ ret' = "OK"
       \/ /\ "close" \in Faulty
          /\ state' = "IDLE"
          /\ sent' = NoUplink
          /\ ret' = "ERROR"
          /\ UNCHANGED opened
    /\ UNCHANGED <<file, downlink_on>>

\* ll_ftp_file_reopen: close, then open. The transfer starts over.
Reopen ==
    /\ ret' = "OK"
    /\ opened' = opened \cup {file}
    /\ stored' = {}

\* Reopening failed, in its close or its open, and so does the close that
\* follows: the client stays in SEGMENT, perhaps with the file closed.
ReopenFails(d) ==
    /\ "close" \in Faulty
    /\ ret' = "ERROR"
    /\ \/ stored' = d /\ UNCHANGED opened
       \/ /\ "open" \in Faulty
          /\ stored' \in {d, {}}
          /\ opened' = opened \ {file}

\* The last segment, and verification fails: all segments are asked for again,
\* or the transition to IDLE closes the file once more.
SegmentRxLastSpoiled(s) ==
    /\ state = "SEGMENT"
    /\ \E ok \in Outcome("write") : \E d \in Written(s, ok) :
          /\ Complete(file, Tracked(s, ok))
          /\ FALSE \in Verify(file, d)
          /\ \/ /\ Reopen \/ ReopenFails(d)
                /\ rx_segs' = {}
                /\ Reset
                /\ UNCHANGED <<state, file, downlink_on>>
             \/ /\ {"open", "close"} \cap Faulty # {}
                /\ CloseAndClear
                /\ ret' = "OK"
    /\ sent' = NoUplink

\* Wrong on purpose: the answer to TX_APPLY uses up a retry.
SegmentRxApplyCounted ==
    /\ state = "SEGMENT"
    /\ SendUplink(SegsRequest(file, rx_segs))
    /\ ret' = "OK"
    /\ retry_count' = retry_count + 1
    /\ UNCHANGED <<state, file, rx_segs, storageVars, downlink_on, quiet>>

\* TX_APPLY, whichever file it names, is answered with a request for segments.
SegmentRxApply ==
    /\ state = "SEGMENT"
    /\ SendUplink(SegsRequest(file, rx_segs))
    /\ ret' = "OK"
    /\ UNCHANGED <<clientVars, storageVars, downlink_on, quiet>>

\* Anything else: TX_INIT of the same file, TX_CANCEL of another, acks.
SegmentIgnore ==
    /\ state = "SEGMENT"
    /\ ret' = "NO_ACTION"
    /\ sent' = NoUplink
    /\ UNCHANGED <<clientVars, elapsed, storageVars, downlink_on, quiet>>

-----------------------------------------------------------------------------
(* ll_ftp_apply_process_msg *)

ApplyRxOtherFile(g) ==
    /\ state = "APPLY"
    /\ g # file
    /\ SegmentStart(g)

ApplyRxCancel ==
    /\ state = "APPLY"
    /\ ApplyToIdle(FALSE, NoUplink)

\* A late segment of the file: only the counters are reset.
ApplyRxData ==
    /\ state = "APPLY"
    /\ Reset
    /\ ret' = "NO_ACTION"
    /\ sent' = NoUplink
    /\ UNCHANGED <<state, file, rx_segs, storageVars, downlink_on>>

ApplyRxApply ==
    /\ state = "APPLY"
    /\ \E ok \in Outcome("apply") :
          ApplyToIdle(~ok, IF ok THEN AckApply(file) ELSE NoUplink)

ApplyIgnore ==
    /\ state = "APPLY"
    /\ ret' = "NO_ACTION"
    /\ sent' = NoUplink
    /\ UNCHANGED <<clientVars, elapsed, storageVars, downlink_on, quiet>>

-----------------------------------------------------------------------------
(* The tick: ll_ftp_msg_process with a NULL buffer. *)

TickEarly ==
    /\ state # "IDLE"
    /\ elapsed < RetryInterval
    /\ ret' = "OK"
    /\ sent' = NoUplink
    /\ UNCHANGED <<clientVars, elapsed, storageVars, downlink_on, quiet>>

\* Wrong on purpose: one retry too many.
TickRetryOneMore ==
    /\ state # "IDLE"
    /\ elapsed >= RetryInterval
    /\ retry_count <= MaxRetries
    /\ SendUplink(IF state = "SEGMENT" THEN SegsRequest(file, rx_segs)
                                       ELSE SegsComplete(file))
    /\ retry_count' = retry_count + 1
    /\ ret' = "OK"
    /\ UNCHANGED <<state, file, rx_segs, storageVars, downlink_on, quiet>>

\* Wrong on purpose: the retry is counted, and no uplink sent.
TickRetryUnsent ==
    /\ state # "IDLE"
    /\ elapsed >= RetryInterval
    /\ retry_count < MaxRetries
    /\ elapsed' = 0
    /\ sent' = NoUplink
    /\ retry_count' = retry_count + 1
    /\ ret' = "OK"
    /\ UNCHANGED <<state, file, rx_segs, storageVars, downlink_on, quiet>>

\* The interval is over and retries are left: remind the server.
TickRetry ==
    /\ state # "IDLE"
    /\ elapsed >= RetryInterval
    /\ retry_count < MaxRetries
    /\ SendUplink(IF state = "SEGMENT" THEN SegsRequest(file, rx_segs)
                                       ELSE SegsComplete(file))
    /\ retry_count' = retry_count + 1
    /\ ret' = "OK"
    /\ UNCHANGED <<state, file, rx_segs, storageVars, downlink_on, quiet>>

\* Wrong on purpose: only a transfer of segments is given up.
TickGiveUpSegments ==
    /\ elapsed >= RetryInterval
    /\ retry_count >= MaxRetries
    /\ state = "SEGMENT"
    /\ SegmentToIdle

\* No retry is left: give the transfer up.
TickGiveUp ==
    /\ elapsed >= RetryInterval
    /\ retry_count >= MaxRetries
    /\ \/ state = "SEGMENT" /\ SegmentToIdle
       \/ state = "APPLY" /\ ApplyToIdle(FALSE, NoUplink)

Tick ==
    /\ IdleRefuse \/ TickEarly \/ TickRetry \/ TickGiveUp
    /\ UNCHANGED server_up

-----------------------------------------------------------------------------
(* The server, the clock, and the next-state relation. *)

\* ll_ftp_parse_rx_msg refuses the bytes: too short, an unknown type, a bad crc.
RxMalformed ==
    /\ ret' \in {"OOR", "INVALID_VALUE", "ERROR"}
    /\ sent' = NoUplink
    /\ UNCHANGED <<clientVars, elapsed, storageVars, downlink_on, quiet>>

RxFile(g) == IdleRxFile(g) \/ SegmentRxOtherFile(g) \/ ApplyRxOtherFile(g)

RxData(s) ==
    \/ SegmentRxData(s)
    \/ SegmentRxLastVerified(s)
    \/ SegmentRxLastSpoiled(s)

Rx ==
    /\ server_up
    /\ \/ RxMalformed
       \/ IdleRefuse
       \/ \E g \in Files : RxFile(g)
       \/ \E s \in SegNums : RxData(s)
       \/ SegmentRxCancel
       \/ SegmentRxApply
       \/ SegmentIgnore
       \/ ApplyRxCancel
       \/ ApplyRxData
       \/ ApplyRxApply
       \/ ApplyIgnore
    /\ UNCHANGED server_up

\* A second passes. In IDLE nothing reads the time stamp.
Clock ==
    /\ state # "IDLE"
    /\ elapsed < RetryInterval \/ quiet < QuietMax
    /\ elapsed' = IF elapsed < RetryInterval THEN elapsed + 1 ELSE elapsed
    /\ quiet' = IF quiet < QuietMax THEN quiet + 1 ELSE quiet
    /\ UNCHANGED <<clientVars, storageVars, downlink_on, ret, sent, server_up>>

FallSilent ==
    /\ server_up
    /\ server_up' = FALSE
    /\ UNCHANGED <<clientVars, elapsed, storageVars, downlink_on, ret, sent, quiet>>

Init ==
    /\ state = "IDLE"
    /\ file = NoFile
    /\ rx_segs = {}
    /\ retry_count = 0
    /\ elapsed = RetryInterval
    /\ opened = {}
    /\ stored = {}
    /\ downlink_on = FALSE
    /\ ret = "OK"
    /\ sent = NoUplink
    /\ server_up = TRUE
    /\ quiet = 0

Next == Rx \/ Tick \/ Clock \/ FallSilent

Spec == Init /\ [][Next]_vars

\* The host calls ll_ftp_msg_process at least once per second, time passes, and
\* a close that is tried again and again is not refused for ever.
GiveUpCloses == TickGiveUp /\ ret' = "OK" /\ UNCHANGED server_up
Fairness == WF_vars(Clock) /\ WF_vars(Tick) /\ SF_vars(GiveUpCloses)

FairSpec == Spec /\ Fairness
=============================================================================
