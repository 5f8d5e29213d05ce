---------------------------- MODULE FileTransfer ----------------------------
(***************************************************************************)
(* What the FTP client promises the application whose storage it fills and *)
(* the server that fills it: one file at a time is received, becomes ready *)
(* once it is whole, and is applied only then, once. The file header       *)
(* ll_ifc_ftp.h draws it as Idle, File Transfer and Wait for Apply.        *)
(*                                                                         *)
(* Retries, timeouts, messages and callbacks are details of FtpClient,     *)
(* which implements this specification.                                    *)
(***************************************************************************)
EXTENDS Naturals

CONSTANTS
    Files,          \* the files that may be transferred
    NoFile,         \* no file
    NumSegs,        \* per file, its number of segments
    SegNums         \* the segment numbers a message may carry

VARIABLES
    phase,          \* where the transfer stands
    subject,        \* the file it is about
    claimed,        \* the segments the client believes it holds
    held,           \* the segments storage holds intact
    applied         \* the file whose application was reported last, or NoFile

vars == <<phase, subject, claimed, held, applied>>

Whole(g, d) == g \in Files /\ 0 .. NumSegs[g] - 1 \subseteq d

Init ==
    /\ phase = "idle"
    /\ subject = NoFile
    /\ claimed = {}
    /\ held = {}
    /\ applied = NoFile

\* A transfer of g begins, with nothing. One that runs is interrupted for
\* another file only.
Begin(g) ==
    /\ phase # "idle" => g # subject
    /\ phase' = "receiving"
    /\ subject' = g
    /\ claimed' = {}
    /\ held' = {}
    /\ applied' = NoFile

\* A segment is stored, or storing it fails and spoils at most that segment.
Stored(s) ==
    \/ claimed' = claimed \cup {s} /\ held' = held \cup {s}
    \/ claimed' = claimed /\ held' \in {held, held \ {s}}

Receive(s) ==
    /\ phase = "receiving"
    /\ Stored(s)
    /\ applied' = NoFile
    /\ UNCHANGED <<phase, subject>>

\* The file is whole, as claimed and in storage.
BecomeReady(s) ==
    /\ phase = "receiving"
    /\ Stored(s)
    /\ Whole(subject, claimed')
    /\ Whole(subject, held')
    /\ phase' = "ready"
    /\ applied' = NoFile
    /\ UNCHANGED subject

\* What was claimed whole turns out spoiled: the file is received once more.
StartOver(s) ==
    /\ phase = "receiving"
    /\ Whole(subject, claimed \cup {s})
    /\ claimed' = {}
    /\ held' \subseteq held \cup {s}
    /\ applied' = NoFile
    /\ UNCHANGED <<phase, subject>>

ToIdle ==
    /\ phase # "idle"
    /\ phase' = "idle"
    /\ subject' = NoFile
    /\ claimed' = {}
    /\ held' = {}

Apply == phase = "ready" /\ ToIdle /\ applied' = subject

\* Cancelled, given up or refused.
Drop == ToIdle /\ applied' = NoFile

\* The report of an application is over.
Forget == applied' = NoFile /\ UNCHANGED <<phase, subject, claimed, held>>

Next ==
    \/ \E g \in Files : Begin(g)
    \/ \E s \in SegNums : Receive(s) \/ BecomeReady(s) \/ StartOver(s)
    \/ Apply
    \/ Drop
    \/ Forget

Spec == Init /\ [][Next]_vars
=============================================================================
