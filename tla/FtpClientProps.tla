--------------------------- MODULE FtpClientProps ---------------------------
(***************************************************************************)
(* What the FTP client promises, as properties of FtpClient.               *)
(***************************************************************************)
EXTENDS FtpClient

\* Every variable holds a value of its kind, the transfer's counters within
\* their limits.
TypeOK ==
    /\ state \in States
    /\ file \in Files \cup {NoFile}
    /\ rx_segs \subseteq SegNums
    /\ retry_count \in 0 .. MaxRetries
    /\ elapsed \in 0 .. RetryInterval
    /\ opened \subseteq Files
    /\ stored \subseteq SegNums
    /\ downlink_on \in BOOLEAN
    /\ ret \in ReturnCodes
    /\ sent \in Uplinks
    /\ server_up \in BOOLEAN
    /\ quiet \in 0 .. QuietMax

-----------------------------------------------------------------------------
(* Safety *)

\* The apply callback runs in APPLY only. There the file has been received
\* whole, storage holds all of it intact, and it is closed: neither a spoiled
\* write, a duplicate nor a message about another file gets in between
\* (ll_ifc_ftp.h, ll_ftp_apply_t).
ReadyToApply ==
    state = "APPLY" =>
        /\ file \in Files
        /\ Segs(file) \subseteq rx_segs
        /\ Segs(file) \subseteq stored
        /\ file \notin opened

\* A file transfer never rests with nothing left to ask for: the server would
\* be sent an empty list of segments until the retries run out.
NeverRestsComplete ==
    state = "SEGMENT" /\ Segs(file) # {} => Missing(file, rx_segs) # {}

\* As long as a transfer runs or waits for its apply, the downlink is always
\* on: no interrupted or restarted transfer leaves the client deaf. The header
\* asks it of the transfer (ll_ifc_ftp.h, always on "during the file transfer
\* state"); that it goes on until the apply is what config(true) on entry to
\* SEGMENT and config(false) on entry to IDLE make of it.
TransferHearsServer == state # "IDLE" => downlink_on

\* What the last uplink said of the segments is still so: the file is complete
\* and waits for its apply, or exactly the listed segments are missing.
UplinkIsTrue ==
    /\ sent.type = "ACK_SEGMENT" => sent.about = file
    /\ sent.type = "ACK_SEGMENT" /\ sent.ack = "ACK" => state = "APPLY"
    /\ sent.ack = "NAK_SEGMENT" =>
           /\ state = "SEGMENT"
           /\ sent.segs = Segs(file) \ rx_segs
           /\ Segs(file) # {} => sent.segs # {}

\* The retries of a silence are RetryInterval apart: the intervals spent on
\* them, and the one that runs, never exceed the time since a segment came.
QuietCoversWait ==
    state # "IDLE" => quiet >= retry_count * RetryInterval + elapsed

\* A transfer is given up by the tick only after MaxRetries + 1 intervals
\* without a segment of its file.
NoEarlyGiveUp ==
    [][ Tick /\ state # "IDLE" /\ state' = "IDLE" => quiet >= QuietMax ]_vars

\* LL_FTP_NO_ACTION says the message was not necessary (ll_ifc_ftp.h): the
\* transfer, its file and its downlink mode are as before. So a new file whose
\* open fails leaves the transfer in progress alone.
NoActionChangesNothing ==
    [][ ret' = "NO_ACTION" =>
          UNCHANGED <<state, file, rx_segs, opened, downlink_on>> ]_vars

\* Progress of a transfer is lost only at its end, where the stored file fails
\* its verification, or to another file or to IDLE: if segments are forgotten,
\* then with one more (the one that came, which the state does not keep) the map
\* would have been complete.
ProgressIsKept ==
    [][ state = "SEGMENT" /\ state' # "IDLE" /\ file' = file =>
          \/ rx_segs \subseteq rx_segs'
          \/ \E s \in SegNums : Complete(file, rx_segs \cup {s}) ]_vars

-----------------------------------------------------------------------------
(* Storage and downlink mode, while no callback fails to close *)

\* Of a single file's transfers: storage has the file open during the transfer,
\* and nothing is left open after it.
TransferOwnsFile == opened = IF state = "SEGMENT" THEN {file} ELSE {}

\* A file whose transfer is interrupted is closed (ll_ifc_ftp.h,
\* ll_ftp_close_t): only the file being transferred may be open.
InterruptedIsClosed == opened \subseteq {file}

\* Always-on is for the file transfer state (ll_ifc_ftp.h, ll_ftp_dl_config_t):
\* an idle client has turned the downlink back to its default mode.
IdleRestoresDownlink == state = "IDLE" => ~ downlink_on

-----------------------------------------------------------------------------
(* Refinement *)

Active(v, none) == IF state = "IDLE" THEN none ELSE v

Transfer == INSTANCE FileTransfer WITH
    phase   <- IF state = "IDLE" THEN "idle"
               ELSE IF state = "SEGMENT" THEN "receiving" ELSE "ready",
    subject <- Active(file, NoFile),
    claimed <- Active(rx_segs, {}),
    held    <- Active(stored, {}),
    applied <- IF sent.type = "ACK_APPLY" THEN sent.about ELSE NoFile

\* The client implements the abstract file transfer: whatever messages come and
\* callbacks fail, it begins, fills, restarts, applies and drops transfers only
\* as FileTransfer allows, and an ACK_APPLY reports the application of the file
\* that was ready.
ImplementsTransfer == Transfer!Spec

-----------------------------------------------------------------------------
(* Liveness *)

\* Once the server falls silent for good, the client returns to IDLE by its own
\* ticks and stays there: no transfer is left hanging.
SilenceEndsInIdle == ~ server_up ~> [](state = "IDLE")
=============================================================================
