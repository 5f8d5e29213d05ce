------------------------------- MODULE Xmodem -------------------------------
(***************************************************************************)
(* The firmware upload of ll_ifc_xmodem.c: ll_xmodem_prepare_module() and  *)
(* then ll_xmodem_send(), over a line with a queue in each direction.      *)
(*                                                                         *)
(* The bootloader of the module is the environment: an XMODEM receiver     *)
(* that acknowledges a packet received again, cancels on a packet out of   *)
(* order, and reports on the firmware in three lines of text.              *)
(*                                                                         *)
(* The 128 bytes of a packet are the number of their block; a line of text *)
(* stands as one element.                                                  *)
(***************************************************************************)
EXTENDS Naturals, Sequences, FiniteSets

CONSTANTS
    NumBlocks,      \* ceil(payload_len / 128)
    NumMod,         \* 256: packet numbers are one byte
    MaxAttempts,    \* MAX_ATTEMPTS
    MaxChatter,     \* bound on the '\n' and 'C' sent ahead of data
    MaxMisreads,    \* bound on the reads of an answer to EOT that fail at once
    Faults          \* what may go wrong around the host: see FaultKinds

\* "late": what is to come may come after the host stopped waiting; "lose": a
\* packet or an answer is lost; "noise": a packet is damaged; "write":
\* transport_write fails; "read": transport_read gives -1 at once, as when a
\* signal ends its select; "flash": the module fails to install the firmware.
FaultKinds == {"late", "lose", "noise", "write", "read", "flash"}

ASSUME UploadAssumption ==
    /\ NumBlocks \in Nat \ {0}
    /\ NumMod \in Nat \ {0}
    /\ MaxAttempts \in Nat
    /\ MaxChatter \in Nat
    /\ MaxMisreads \in Nat
    /\ Faults \subseteq FaultKinds

VARIABLES
    pc,             \* where the host stands
    acked,          \* offset, in blocks
    atmpt_num,      \* NAKs to the current packet
    heard,          \* the response of ll_xmodem_send_byte is one it got before
    misreads,       \* the failed reads after which that response was taken again
    result,         \* what the host returned, "NONE" before
    up,             \* the bytes on their way to the module
    down,           \* the bytes on their way to the host
    module,         \* the bootloader: "idle", "ready", "receiving", "ended"
    expect,         \* the packet number it expects
    image,          \* the blocks it took, in order
    chatter,        \* the '\n' and 'C' it sent before data
    installed       \* the firmware was verified and activated

eotVars == <<heard, misreads>>
hostVars == <<pc, acked, atmpt_num, eotVars, result>>
moduleVars == <<module, expect, image, chatter, installed>>
vars == <<hostVars, up, down, moduleVars>>

Payload == [k \in 1 .. NumBlocks |-> k]

\* The bytes ll_xmodem_get_client_response returns on.
Responses == {"ACK", "NAK", "CAN", "C", "NL"}

UploadRequest == [kind |-> "u", num |-> 0, block |-> 0, good |-> TRUE]
Eot == [kind |-> "EOT", num |-> 0, block |-> 0, good |-> TRUE]
Reboot == [kind |-> "r", num |-> 0, block |-> 0, good |-> TRUE]

\* packet_number is incremented with the offset, and is one byte.
PacketNumber == (acked + 1) % NumMod

\* Wrong on purpose: the offset is kept in one byte too.
PacketOfShortOffset(good) ==
    [kind |-> "SOH", num |-> PacketNumber, block |-> (acked % NumMod) + 1, good |-> good]

\* The packet of 128 bytes at the offset.
Packet(good) ==
    [kind |-> "SOH", num |-> PacketNumber, block |-> acked + 1, good |-> good]

-----------------------------------------------------------------------------
(* The host *)

Finish(r) == pc' = "done" /\ result' = r

\* transport_write of m. A lost byte is a written one to the host.
Write(m) == up' \in {Append(up, m)} \cup (IF "lose" \in Faults THEN {up} ELSE {})

\* Of ll_xmodem_prepare_module: the request, after the bootloader started.
RequestUpload ==
    /\ pc = "prepare"
    /\ pc' = "banner"
    /\ up' = Append(up, UploadRequest)
    /\ UNCHANGED <<acked, atmpt_num, eotVars, result, down, moduleVars>>

\* ll_xmodem_wait_for, for '\n' and then for 'C': other responses are skipped.
WaitFor(here, byte, next) ==
    /\ pc = here
    /\ down # <<>>
    /\ Head(down) \in Responses
    /\ pc' = IF Head(down) = byte THEN next ELSE here
    /\ down' = Tail(down)
    /\ UNCHANGED <<acked, atmpt_num, eotVars, result, up, moduleVars>>

\* ll_xmodem_send_packet builds the packet from the offset and writes it.
SendPacket ==
    /\ pc = "send"
    /\ pc' = "response"
    /\ \E good \in IF "noise" \in Faults THEN BOOLEAN ELSE {TRUE} :
          Write(Packet(good))
    /\ UNCHANGED <<acked, atmpt_num, eotVars, result, down, moduleVars>>

Response(b) ==
    /\ pc = "response"
    /\ down # <<>>
    /\ Head(down) = b
    /\ down' = Tail(down)
    /\ UNCHANGED <<eotVars, up, moduleVars>>

RxAck ==
    /\ Response("ACK")
    /\ acked' = acked + 1
    /\ atmpt_num' = 0
    /\ pc' = IF acked' < NumBlocks THEN "send" ELSE "eot"
    /\ UNCHANGED result

\* Wrong on purpose: one attempt too many.
RxNakOneMore ==
    /\ Response("NAK")
    /\ atmpt_num' = atmpt_num + 1
    /\ IF atmpt_num' > MaxAttempts + 1 THEN Finish("MAX_ATTEMPTS")
                                       ELSE pc' = "send" /\ UNCHANGED result
    /\ UNCHANGED acked


\* Wrong on purpose: the NAK falls through to what an ACK does.
RxNakFallsThrough ==
    /\ Response("NAK")
    /\ acked' = acked + 1
    /\ atmpt_num' = 0
    /\ pc' = IF acked' < NumBlocks THEN "send" ELSE "eot"
    /\ UNCHANGED result

RxNak ==
    /\ Response("NAK")
    /\ atmpt_num' = atmpt_num + 1
    /\ IF atmpt_num' > MaxAttempts THEN Finish("MAX_ATTEMPTS")
                                   ELSE pc' = "send" /\ UNCHANGED result
    /\ UNCHANGED acked

RxCan == Response("CAN") /\ Finish("CANCELED") /\ UNCHANGED <<acked, atmpt_num>>

\* A start byte, or '\n': the packet is sent again, and nothing is counted.
RxStart ==
    /\ Response("C") \/ Response("NL")
    /\ pc' = "send"
    /\ UNCHANGED <<acked, atmpt_num, result>>

\* ll_xmodem_send_byte: EOT is sent again upon anything but ACK.
SendEot ==
    /\ pc = "eot"
    /\ pc' = "eot_response"
    /\ Write(Eot)
    /\ UNCHANGED <<acked, atmpt_num, eotVars, result, down, moduleVars>>

RxEotResponse ==
    /\ pc = "eot_response"
    /\ down # <<>>
    /\ Head(down) \in Responses
    /\ pc' = IF Head(down) = "ACK" THEN "report" ELSE "eot"
    /\ heard' = TRUE
    /\ down' = Tail(down)
    /\ UNCHANGED <<acked, atmpt_num, misreads, result, up, moduleVars>>

\* The loop of ll_xmodem_get_client_response goes on after a read that gave -1
\* but tests the response all the same: one that is left from the EOT before
\* ends it, and EOT is sent again with no byte read. (Elsewhere such a read
\* changes nothing: ll_xmodem_send_packet starts with a response of 0, and
\* ll_xmodem_wait_for goes on over a response it did not want.)
EotMisread ==
    /\ "read" \in Faults
    /\ pc = "eot_response"
    /\ heard
    /\ misreads < MaxMisreads
    /\ misreads' = misreads + 1
    /\ pc' = "eot"
    /\ UNCHANGED <<acked, atmpt_num, heard, result, up, down, moduleVars>>

\* ll_xmodem_get_client_response reads on over any other byte.
SkipByte ==
    /\ pc \in {"banner", "start", "response", "eot_response"}
    /\ down # <<>>
    /\ Head(down) \notin Responses
    /\ down' = Tail(down)
    /\ UNCHANGED <<hostVars, up, moduleVars>>

\* Nothing more will come while the module has nothing to answer.
Silent ==
    /\ down = <<>>
    /\ up = <<>>
    /\ module = "ready" => chatter = MaxChatter

\* Three seconds are over; a byte that comes just then is read and lost.
Timeout ==
    /\ pc \in {"banner", "start", "response", "eot_response"}
    /\ Silent \/ "late" \in Faults
    /\ down' \in {down} \cup (IF down = <<>> THEN {} ELSE {Tail(down)})
    /\ Finish("TIMEOUT")
    /\ UNCHANGED <<acked, atmpt_num, eotVars, up, moduleVars>>

WriteFails ==
    /\ "write" \in Faults
    /\ pc \in {"prepare", "send", "eot"}
    /\ Finish("ERROR")
    /\ UNCHANGED <<acked, atmpt_num, eotVars, up, down, moduleVars>>

\* ll_xmodem_parse_module_output drops the ends of lines and takes everything
\* else, a byte left over from the transfer too, which shifts the text: the
\* k-th thing said is the one with k - 1 others before it.
Said(d, k, s) ==
    \E i \in DOMAIN d :
        d[i] = s /\ Cardinality({j \in 1 .. i : d[j] # "NL"}) = k

\* Wrong on purpose: the line about the activation is not looked at.
VerdictWithoutActivation(d) ==
    IF ~ Said(d, 1, "downloaded") THEN "NOT_DOWNLOADED"
    ELSE IF ~ Said(d, 2, "verified") THEN "NOT_VERIFIED"
    ELSE "OK"

\* The three lines are compared in turn.
Verdict(d) ==
    IF ~ Said(d, 1, "downloaded") THEN "NOT_DOWNLOADED"
    ELSE IF ~ Said(d, 2, "verified") THEN "NOT_VERIFIED"
    ELSE IF ~ Said(d, 3, "activated") THEN "NOT_ACTIVATED"
    ELSE "OK"

\* The text is read after ten seconds, and the module is made to reboot.
Report ==
    /\ pc = "report"
    /\ Silent \/ module = "ended" \/ "late" \in Faults
    /\ \E r \in {Verdict(down)} \cup
                (IF "write" \in Faults /\ Verdict(down) = "OK" THEN {"ERROR"} ELSE {}) :
          /\ Finish(r)
          /\ up' = IF r = "OK" THEN Append(up, Reboot) ELSE up
    /\ down' = <<>>
    /\ UNCHANGED <<acked, atmpt_num, eotVars, moduleVars>>

-----------------------------------------------------------------------------
(* The module *)

Say(s) == down' \in {down \o s} \cup (IF "lose" \in Faults THEN {down} ELSE {})

ModuleStarts ==
    /\ module = "idle"
    /\ up # <<>>
    /\ Head(up).kind = "u"
    /\ module' = "ready"
    /\ up' = Tail(up)
    /\ UNCHANGED <<hostVars, down, expect, image, chatter, installed>>

\* The banner and the start bytes, sent until the first packet comes: those that
\* run ahead of what the host does.
ModuleChatters ==
    /\ module = "ready"
    /\ chatter < MaxChatter
    /\ chatter' = chatter + 1
    /\ \E b \in {"NL", "C"} : down' = Append(down, b)
    /\ UNCHANGED <<hostVars, up, module, expect, image, installed>>

\* While no packet gets through to it, the bootloader may prompt the host that
\* waits for a response without end: no bound holds for these.
ModulePrompts ==
    /\ module = "ready"
    /\ pc = "response"
    /\ up = <<>>
    /\ down = <<>>
    /\ \E b \in {"NL", "C"} : down' = <<b>>
    /\ UNCHANGED <<hostVars, up, moduleVars>>

ModuleGets(kind) ==
    /\ module \in {"ready", "receiving"}
    /\ up # <<>>
    /\ Head(up).kind = kind
    /\ up' = Tail(up)

ModuleTakesPacket ==
    /\ ModuleGets("SOH")
    /\ Head(up).good
    /\ Head(up).num = expect
    /\ image' = Append(image, Head(up).block)
    /\ expect' = (expect + 1) % NumMod
    /\ module' = "receiving"
    /\ Say(<<"ACK">>)
    /\ UNCHANGED <<hostVars, chatter, installed>>

ModuleRefusesPacket ==
    /\ ModuleGets("SOH")
    /\ ~ Head(up).good
    /\ Say(<<"NAK">>)
    /\ UNCHANGED <<hostVars, moduleVars>>

ModuleGetsPacketAgain ==
    /\ ModuleGets("SOH")
    /\ Head(up).good
    /\ (Head(up).num + 1) % NumMod = expect
    /\ Say(<<"ACK">>)
    /\ UNCHANGED <<hostVars, moduleVars>>

ModuleCancels ==
    /\ ModuleGets("SOH")
    /\ Head(up).good
    /\ Head(up).num # expect
    /\ (Head(up).num + 1) % NumMod # expect
    /\ module' = "ended"
    /\ Say(<<"CAN">>)
    /\ UNCHANGED <<hostVars, expect, image, chatter, installed>>

\* The texts on an image that is as it should be, or not.
Lines ==
    {<<"downloaded", "verified", "activated">>} \cup
    (IF "flash" \in Faults THEN {<<"failed">>, <<"downloaded", "failed">>,
                                 <<"downloaded", "verified", "failed">>} ELSE {})

ModuleGetsEot ==
    /\ ModuleGets("EOT")
    /\ module' = "ended"
    /\ \E t \in IF image = Payload THEN Lines ELSE {<<"downloaded", "failed">>} :
          /\ installed' = (Len(t) = 3 /\ t[3] = "activated")
          /\ \/ down' = down \o <<"ACK", "NL">> \o t
             \/ "lose" \in Faults /\ down' = down \o t
    /\ UNCHANGED <<hostVars, expect, image, chatter>>

ModuleIgnores ==
    /\ module = "ended"
    /\ up # <<>>
    /\ up' = Tail(up)
    /\ UNCHANGED <<hostVars, down, moduleVars>>

-----------------------------------------------------------------------------

Init ==
    /\ pc = "prepare"
    /\ acked = 0
    /\ atmpt_num = 0
    /\ heard = FALSE
    /\ misreads = 0
    /\ result = "NONE"
    /\ up = <<>>
    /\ down = <<>>
    /\ module = "idle"
    /\ expect = 1 % NumMod
    /\ image = <<>>
    /\ chatter = 0
    /\ installed = FALSE

Host ==
    \/ RequestUpload
    \/ WaitFor("banner", "NL", "start") \/ WaitFor("start", "C", "send")
    \/ SendPacket \/ RxAck \/ RxNak \/ RxCan \/ RxStart
    \/ SendEot \/ RxEotResponse \/ EotMisread
    \/ SkipByte \/ Timeout
    \/ Report

Module ==
    \/ ModuleStarts \/ ModuleChatters
    \/ ModuleTakesPacket \/ ModuleRefusesPacket \/ ModuleGetsPacketAgain
    \/ ModuleCancels \/ ModuleGetsEot \/ ModuleIgnores

Finished == pc = "done" /\ UNCHANGED vars

Next == Host \/ WriteFails \/ Module \/ ModulePrompts \/ Finished

Spec == Init /\ [][Next]_vars

\* The host runs on, and so does the module, which handles what it gets. It need
\* not prompt: a host that waits in silence times out.
FairSpec == Spec /\ WF_vars(Host) /\ WF_vars(Module)

-----------------------------------------------------------------------------
(* Properties *)

\* The host is at a place of the upload and never past the end of the payload;
\* the attempts at a packet are within their limit.
TypeOK ==
    /\ pc \in {"prepare", "banner", "start", "send", "response", "eot",
               "eot_response", "report", "done"}
    /\ acked \in 0 .. NumBlocks
    /\ pc \in {"send", "response"} => acked < NumBlocks
    /\ atmpt_num \in 0 .. MaxAttempts + 1
    /\ pc # "done" => atmpt_num <= MaxAttempts
    /\ chatter \in 0 .. MaxChatter
    /\ heard \in BOOLEAN /\ misreads \in 0 .. MaxMisreads

\* The module's image is at all times the beginning of the payload: no packet
\* sent again, and no packet number that wrapped around, puts a block in twice,
\* out of order or in the place of another.
ImageIsPrefix == image = SubSeq(Payload, 1, Len(image))

\* The host's offset, which the progress callback is given, runs ahead of the
\* blocks the module took by no more than the start bytes it had to skip; with
\* the one '\n' and the one 'C' it waits for, it is never ahead.
OffsetIsEarned == acked <= Len(image) + (IF chatter > 2 THEN chatter - 2 ELSE 0)

\* The upload reports success only of firmware the module took whole, verified
\* and activated.
SuccessIsInstalled == result = "OK" => image = Payload /\ installed


\* -6 says the firmware did not download (ll_ifc_xmodem.h): firmware the module
\* took whole and activated is not reported so.
NotDownloadedIsTrue == result = "NOT_DOWNLOADED" => ~ installed
=============================================================================
