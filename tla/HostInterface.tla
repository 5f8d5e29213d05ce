--------------------------- MODULE HostInterface ---------------------------
(***************************************************************************)
(* The command interface of ll_ifc.c: hal_read_write() sends a command to  *)
(* the module over the UART and reads the answer from the receive FIFO,    *)
(* transport_read by transport_read. Nothing empties the FIFO before a     *)
(* command, so bytes of an earlier answer may still be in it.              *)
(*                                                                         *)
(* The module and the UART are the environment: the module answers each    *)
(* command it got, in order, once or never, perhaps after the host stopped *)
(* waiting; an answer may arrive in two pieces, or only its first piece.   *)
(*                                                                         *)
(* A byte is its value with, for a byte of a checksum, what the checksum   *)
(* was computed over; two checksums are equal only over equal bytes. The   *)
(* two length bytes of a header stand as one.                              *)
(***************************************************************************)
EXTENDS Naturals, Sequences, SequencesExt

CONSTANTS
    Ops,            \* the opcodes sent, numbers
    OutLen,         \* per opcode, the room for the answer's payload
    Bootloader,     \* OP_TRIGGER_BOOTLOADER
    ExactOps,       \* the opcodes sent through hal_read_write_exact
    Nacks,          \* the NACK codes the module may send, numbers above 0
    AckPayloads,    \* the payloads of its positive answers
    NackPayloads,   \* the payloads of its negative answers
    SOF,            \* FRAME_START
    NumMod,         \* 256: message numbers are sent in one byte
    MaxCalls,       \* bound on the calls of a behaviour
    MaxBoots,       \* bound on the uses of ll_bootloader_mode
    CutPoints,      \* where a cut answer may be cut, counted in bytes
    Faults          \* what may go wrong around the host: see FaultKinds

\* "late": the host may stop waiting for what is still to come;
\* "lose": a command or an answer is lost; "clock": gettime fails;
\* "hangup": the terminal hangs up, and reads return no bytes ever after.
FaultKinds == {"late", "lose", "clock", "hangup"}

\* The contents of a buffer transport_read did not fill: longer than any payload.
Stale == <<SOF, SOF, SOF, SOF, SOF>>

ASSUME CommandsAssumption ==
    /\ Ops \subseteq Nat \ {SOF}
    /\ OutLen \in [Ops -> Nat]
    /\ Bootloader \in Nat \ (Ops \cup {SOF})
    /\ ExactOps \subseteq Ops
    /\ Nacks \subseteq Nat \ {0}
    /\ NumMod \in Nat \ {0}
    /\ MaxCalls \in Nat
    /\ MaxBoots \in Nat
    /\ SOF \in Nat
    /\ AckPayloads \cup NackPayloads \subseteq Seq(Nat)
    /\ \A p \in AckPayloads \cup NackPayloads : Len(p) < Len(Stale)
    /\ CutPoints \subseteq Nat
    /\ Faults \subseteq FaultKinds

VARIABLES
    pc,             \* where hal_read_write stands
    message_num,    \* the static counter
    op,             \* its parameter, the opcode
    len,            \* recv_packet's len
    hdr,            \* header_buf past FRAME_START: op, number, ack, length
    ret_value,      \* what recv_packet has found wrong with the header
    buf,            \* the payload read, or Stale
    result,         \* what the call returned, NoResult while it runs
    fifo,           \* the bytes transport_read may have
    wire,           \* the bytes of a cut answer still to come
    pending,        \* the commands the module has not answered
    calls,          \* history: the number of calls, which names the last one
    from,           \* history: the call whose checksum byte was read, or 0
    boots,          \* history: the number of uses of ll_bootloader_mode
    in_sync,        \* history: nothing was in flight when the call began
    twin,           \* history: something in flight then looked like the call's
    answer,         \* history: the module's answer to the call, or NoAnswer
    guessed         \* history: the verdict rests on bytes that were not read

hostVars == <<message_num, op, len, hdr, ret_value, buf, result>>
lineVars == <<fifo, wire, pending>>
history == <<calls, boots, in_sync, twin, answer, guessed>>
vars == <<pc, message_num, op, len, hdr, ret_value, buf, result, fifo, wire,
          pending, calls, from, boots, in_sync, twin, answer, guessed>>

\* What the call hands its caller: a code, a NACK code, the payload read.
Failure(c) == [code |-> c, nack |-> 0, data |-> <<>>]
Nack(a) == [code |-> "NACK", nack |-> a, data |-> <<>>]
Success(p) == [code |-> "OK", nack |-> 0, data |-> p]
NoResult == Failure("NONE")

NoAnswer == [ack |-> 0, payload |-> <<>>, sent |-> FALSE, whole |-> FALSE]
NoHeader == <<0, 0, 0, 0>>

-----------------------------------------------------------------------------
(* Frames *)

Plain(v, i) == [val |-> v, sum |-> <<>>, id |-> i]

\* The k-th checksum byte over s, of the answer to call i.
Check(s, k, i) == [val |-> 0, sum |-> <<s, k>>, id |-> i]

Header(o, n, a, p) == <<o, n, a, Len(p)>>

\* An answer as the module sends it.
Frame(c, a, p) ==
    LET s == Header(c.op, c.num, a, p) \o p IN
    [k \in 1 .. Len(s) + 1 |-> Plain((<<SOF>> \o s)[k], c.id)]
        \o <<Check(s, 1, c.id), Check(s, 2, c.id)>>

Values(bytes) == [k \in DOMAIN bytes |-> bytes[k].val]

Number == message_num % NumMod

-----------------------------------------------------------------------------
(* hal_read_write *)

\* hal_read_write_exact turns an answer of another length into an error.
Exact(r) ==
    IF op \in ExactOps /\ r.code = "OK" /\ Len(r.data) # OutLen[op]
    THEN Failure("RESPONSE_LENGTH") ELSE r

\* recv_packet returns r: the message is counted, whatever r says.
Return(r) ==
    /\ pc' = "idle"
    /\ message_num' = message_num + 1
    /\ result' = Exact(r)
    /\ len' = 0
    /\ hdr' = NoHeader
    /\ ret_value' = NoResult
    /\ buf' = Stale
    /\ UNCHANGED op

\* Wrong on purpose: a refused call is counted.
BadParameterCounted ==
    /\ pc = "idle"
    /\ result' = Failure("INCORRECT_PARAMETER")
    /\ message_num' = message_num + 1
    /\ UNCHANGED <<pc, op, len, hdr, ret_value, buf, lineVars, from, history>>

\* A buffer without a length, or a length without a buffer.
BadParameter ==
    /\ pc = "idle"
    /\ result' = Failure("INCORRECT_PARAMETER")
    /\ UNCHANGED <<pc, message_num, op, len, hdr, ret_value, buf, lineVars,
                   from, history>>

\* A command with opcode o and the number of the call about to be made, or an
\* answer to one, is in flight. It takes ll_reset_state, or 256 commands during
\* which an answer stays away.
HasTwin(o) ==
    \/ \E k \in DOMAIN pending : pending[k].num = Number /\ pending[k].op = o
    \/ \E k \in DOMAIN (fifo \o wire) :
          LET b == (fifo \o wire)[k] IN
          b.sum # <<>> /\ b.sum[1][2] = Number /\ b.sum[1][1] = o

\* send_packet, whose write reports nothing, and the start of recv_packet.
Call(o) ==
    /\ pc = "idle"
    /\ calls < MaxCalls
    /\ pc' = "scan"
    /\ op' = o
    /\ len' = OutLen[o]
    /\ result' = NoResult
    /\ UNCHANGED <<hdr, ret_value, buf>>
    /\ calls' = calls + 1
    /\ \/ pending' = Append(pending, [op |-> o, num |-> Number, id |-> calls + 1])
       \/ "lose" \in Faults /\ UNCHANGED pending
    /\ from' = 0
    /\ in_sync' = (fifo = <<>> /\ wire = <<>> /\ pending = <<>>)
    /\ twin' = HasTwin(o)
    /\ answer' = NoAnswer
    /\ guessed' = FALSE
    /\ UNCHANGED <<message_num, fifo, wire, boots>>

\* ll_bootloader_mode: send_packet alone. No answer is waited for, and the
\* message is not counted, so that the next command has the same number.
BootloaderMode ==
    /\ pc = "idle"
    /\ boots < MaxBoots
    /\ boots' = boots + 1
    /\ \/ pending' = Append(pending, [op |-> Bootloader, num |-> Number, id |-> 0])
       \/ "lose" \in Faults /\ UNCHANGED pending
    /\ UNCHANGED <<pc, hostVars, fifo, wire, calls, from, in_sync, twin, answer,
                   guessed>>

\* ll_reset_state: message numbers start over.
ResetState ==
    /\ pc = "idle"
    /\ message_num # 0
    /\ message_num' = 0
    /\ result' = NoResult
    /\ UNCHANGED <<pc, op, len, hdr, ret_value, buf, lineVars, from, history>>

\* transport_read may fail for want of bytes: they come too late or never.
TimesOut == "late" \in Faults \/ (wire = <<>> /\ pending = <<>>)

\* The terminal hangs up under a waiting transport_read: select calls it readable
\* and read returns no byte, again and again. The loop has no other end.
HangsUp ==
    /\ pc \notin {"idle", "hung"}
    /\ "hangup" \in Faults
    /\ pc' = "hung"
    /\ UNCHANGED <<hostVars, lineVars, from, history>>

Spins == pc = "hung" /\ UNCHANGED vars

-----------------------------------------------------------------------------
(* recv_packet *)

\* The loop for FRAME_START reads a byte. If it came more than two seconds
\* after the start of the call it is lost, FRAME_START or not.
ScanByte ==
    /\ pc = "scan"
    /\ fifo # <<>>
    /\ fifo' = Tail(fifo)
    /\ \/ /\ pc' = IF Head(fifo).val = SOF THEN "header" ELSE "scan"
          /\ UNCHANGED hostVars
       \/ "late" \in Faults /\ Return(Failure("TIMEOUT"))
    /\ UNCHANGED <<wire, pending, from, history>>

\* Wrong on purpose: the time is looked at after a byte only.
ScanTimeoutAfterByte ==
    /\ pc = "scan"
    /\ fifo # <<>>
    /\ TimesOut
    /\ Return(Failure("TIMEOUT"))
    /\ UNCHANGED <<lineVars, from, history>>

\* Nothing came for the two seconds.
ScanTimeout ==
    /\ pc = "scan"
    /\ fifo = <<>>
    /\ TimesOut
    /\ Return(Failure("TIMEOUT"))
    /\ UNCHANGED <<lineVars, from, history>>

\* gettime failed, before or after a byte was read.
ScanClockFails ==
    /\ pc = "scan"
    /\ "clock" \in Faults
    /\ fifo' \in {fifo} \cup (IF fifo = <<>> THEN {} ELSE {Tail(fifo)})
    /\ Return(Failure("HAL_CALL_FAILED"))
    /\ UNCHANGED <<wire, pending, from, history>>

\* Wrong on purpose: the message number is not compared.
HeaderErrorOfAnyNumber(h) ==
    IF h[3] # 0 THEN Nack(h[3])
    ELSE IF h[1] # op THEN Failure("COMMAND")
    ELSE NoResult

\* Wrong on purpose: the command is not compared.
HeaderErrorOfAnyCommand(h) ==
    IF h[3] # 0 THEN Nack(h[3])
    ELSE IF h[2] # Number THEN Failure("MESSAGE_NUMBER")
    ELSE NoResult

\* Each test of the header overrides the ones before it.
HeaderError(h) ==
    IF h[3] # 0 THEN Nack(h[3])
    ELSE IF h[2] # Number THEN Failure("MESSAGE_NUMBER")
    ELSE IF h[1] # op THEN Failure("COMMAND")
    ELSE NoResult

\* Wrong on purpose: the length is left as the caller gave it.
ShorterIsRoom(a, b) == b

\* len: the header's, if that is shorter than the caller's.
Shorter(a, b) == IF a < b THEN a ELSE b

\* The rest of the header. A payload too long for the caller is drained, one of
\* a faulty header is not read at all.
ReadHeader ==
    /\ pc = "header"
    /\ Len(fifo) >= 4
    /\ hdr' = Values(SubSeq(fifo, 1, 4))
    /\ fifo' = SubSeq(fifo, 5, Len(fifo))
    /\ ret_value' = HeaderError(hdr')
    /\ len' = Shorter(hdr'[4], len)
    /\ pc' = IF hdr'[4] > len THEN "drain"
             ELSE IF ret_value' = NoResult /\ len' > 0 THEN "payload"
             ELSE "checksum"
    /\ UNCHANGED <<message_num, op, buf, result, wire, pending, from, history>>

\* transport_read consumes what there is before it fails.
HeaderTimeout ==
    /\ pc = "header"
    /\ Len(fifo) < 4
    /\ TimesOut
    /\ fifo' = <<>>
    /\ Return(Failure("HEADER"))
    /\ UNCHANGED <<wire, pending, from, history>>

\* Bytes are read until none comes for three seconds.
Drain ==
    /\ pc = "drain"
    /\ fifo # <<>>
    /\ fifo' = <<>>
    /\ UNCHANGED <<pc, hostVars, wire, pending, from, history>>

DrainEnds ==
    /\ pc = "drain"
    /\ fifo = <<>>
    /\ TimesOut
    /\ Return(Failure("BUFFER_TOO_SMALL"))
    /\ UNCHANGED <<lineVars, from, history>>

ReadPayload ==
    /\ pc = "payload"
    /\ Len(fifo) >= len
    /\ buf' = Values(SubSeq(fifo, 1, len))
    /\ fifo' = SubSeq(fifo, len + 1, Len(fifo))
    /\ pc' = "checksum"
    /\ UNCHANGED <<message_num, op, len, hdr, ret_value, result, wire, pending,
                   from, history>>

\* The result of this transport_read is not looked at.
PayloadTimeout ==
    /\ pc = "payload"
    /\ Len(fifo) < len
    /\ TimesOut
    /\ fifo' = <<>>
    /\ pc' = "checksum"
    /\ UNCHANGED <<hostVars, wire, pending, from, history>>

\* What the host computes the checksum over, the caller's buffer included when
\* the payload was not read into it.
Payload == IF len = 0 THEN <<>> ELSE buf
Computed == hdr \o Payload

Verdict == IF ret_value = NoResult THEN Success(Payload) ELSE ret_value

ReadChecksum ==
    /\ pc = "checksum"
    /\ Len(fifo) >= 2
    /\ fifo' = SubSeq(fifo, 3, Len(fifo))
    /\ from' = fifo[1].id
    /\ Return(IF fifo[1].sum = <<Computed, 1>> /\ fifo[2].sum = <<Computed, 2>>
              THEN Verdict ELSE Failure("CHECKSUM"))
    /\ UNCHANGED <<wire, pending, history>>

\* Nor is the result of this one: the two bytes compared are then whatever the
\* stack held.
ChecksumTimeout ==
    /\ pc = "checksum"
    /\ Len(fifo) < 2
    /\ TimesOut
    /\ fifo' = <<>>
    /\ \E r \in {Verdict, Failure("CHECKSUM")} : Return(r)
    /\ guessed' = TRUE
    /\ UNCHANGED <<wire, pending, from, calls, boots, in_sync, twin, answer>>

-----------------------------------------------------------------------------
(* The module and the UART *)

\* The module answers its oldest command; the answer arrives in one piece, or
\* cut after its first k bytes.
Answer(a, p) ==
    /\ pending # <<>>
    /\ wire = <<>>
    /\ LET c == Head(pending)
           f == Frame(c, a, p)
       IN  /\ \E k \in {Len(f)} \cup (CutPoints \cap 1 .. Len(f)) :
                 /\ fifo' = fifo \o SubSeq(f, 1, k)
                 /\ wire' = SubSeq(f, k + 1, Len(f))
           /\ answer' = IF c.op \in Ops /\ c.id = calls
                        THEN [ack |-> a, payload |-> p, sent |-> TRUE,
                              whole |-> wire' = <<>>]
                        ELSE answer
    /\ pending' = Tail(pending)
    /\ UNCHANGED <<pc, hostVars, calls, from, boots, in_sync, twin, guessed>>

NoReply ==
    /\ "lose" \in Faults
    /\ pending # <<>>
    /\ pending' = Tail(pending)
    /\ UNCHANGED <<pc, hostVars, fifo, wire, from, history>>

\* The rest of a cut answer arrives, or does not.
Arrive ==
    /\ wire # <<>>
    /\ fifo' \in {fifo \o wire, fifo}
    /\ wire' = <<>>
    /\ UNCHANGED <<pc, hostVars, pending, from, history>>

-----------------------------------------------------------------------------

Init ==
    /\ pc = "idle"
    /\ message_num = 0
    /\ op \in Ops
    /\ len = 0
    /\ hdr = NoHeader
    /\ ret_value = NoResult
    /\ buf = Stale
    /\ result = NoResult
    /\ fifo = <<>>
    /\ wire = <<>>
    /\ pending = <<>>
    /\ calls = 0
    /\ from = 0
    /\ boots = 0
    /\ in_sync = TRUE
    /\ twin = FALSE
    /\ answer = NoAnswer
    /\ guessed = FALSE

Host ==
    \/ ScanByte \/ ScanTimeout
    \/ ReadHeader \/ HeaderTimeout
    \/ Drain \/ DrainEnds
    \/ ReadPayload \/ PayloadTimeout
    \/ ReadChecksum \/ ChecksumTimeout

Module ==
    \/ \E p \in AckPayloads : Answer(0, p)
    \/ \E a \in Nacks : \E p \in NackPayloads : Answer(a, p)
    \/ NoReply
    \/ Arrive

Next ==
    \/ BadParameter
    \/ \E o \in Ops : Call(o)
    \/ BootloaderMode
    \/ ResetState
    \/ Host
    \/ ScanClockFails
    \/ HangsUp
    \/ Spins
    \/ Module

Spec == Init /\ [][Next]_vars

\* The host runs on once called; the clock need not fail and the terminal need
\* not hang up. A module that got a command answers it or drops it, and the UART
\* delivers or drops the bytes.
FairSpec == Spec /\ WF_vars(Host) /\ WF_vars(Module)

-----------------------------------------------------------------------------
(* Properties *)

Codes == {"NONE", "OK", "NACK", "TIMEOUT", "HEADER", "COMMAND", "MESSAGE_NUMBER",
          "CHECKSUM", "BUFFER_TOO_SMALL", "INCORRECT_PARAMETER",
          "RESPONSE_LENGTH", "HAL_CALL_FAILED"}

\* The host is at a place of recv_packet, its counter counts the calls that
\* returned, and the call's buffer is never overrun.
TypeOK ==
    /\ pc \in {"idle", "scan", "header", "payload", "checksum", "drain", "hung"}
    /\ message_num \in 0 .. calls
    /\ calls \in 0 .. MaxCalls
    /\ result.code \in Codes /\ ret_value.code \in Codes
    /\ pc \in {"payload", "checksum"} => len <= OutLen[op]
    /\ from \in 0 .. calls
    /\ boots \in 0 .. MaxBoots
    /\ \A k \in DOMAIN pending : pending[k].id \in 0 .. calls

\* A call that succeeds, its checksum bytes read, returns a positive answer of
\* the module; and the one to this very call, payload and length, however many
\* answers to earlier calls came late, in pieces or not at all, unless a command
\* with its opcode and number was in flight when it began. (Such a call may be
\* handed the answer to that command, ll_reset_state having been called.)
SuccessIsTheAnswer ==
    pc = "idle" /\ result.code = "OK" /\ ~ guessed =>
        /\ result.data \in AckPayloads
        /\ ~ twin => /\ from = calls
                     /\ answer.sent /\ answer.ack = 0
                     /\ result.data = answer.payload

\* What the caller should be told of answer a.
Expected(a) ==
    IF Len(a.payload) > OutLen[op] THEN Failure("BUFFER_TOO_SMALL")
    ELSE IF a.ack # 0 THEN Nack(a.ack)
    ELSE Exact(Success(a.payload))

\* A call made with nothing in flight is told what the module answered, or that
\* time ran out or the clock failed; unless it gave up waiting, it leaves
\* nothing in flight for the next call. Only a cut answer can do otherwise.
InSyncCallIsFaithful ==
    [][ pc # "idle" /\ pc' = "idle" /\ in_sync =>
          \/ result'.code \in {"TIMEOUT", "HAL_CALL_FAILED"}
          \/ answer.sent /\ ~ answer.whole
          \/ /\ answer.sent
             /\ result' = Expected(answer)
             /\ fifo' = <<>> /\ wire' = <<>> /\ pending' = <<>> ]_vars

\* The calls as CommandChannel sees them. A verdict over bytes that were not
\* read is a failure there, whatever it is called here.
Channel == INSTANCE CommandChannel WITH
    Cmds <- Ops \cup {Bootloader},
    Payloads <- AckPayloads,
    NackCodes <- Nacks,
    busy <- pc # "idle",
    doubt <- twin,
    queue <- [k \in DOMAIN pending |->
                [cmd |-> pending[k].op,
                 mine |-> pending[k].op \in Ops /\ pending[k].id = calls]],
    reply <- [given |-> answer.sent, nack |-> answer.ack,
              data |-> IF answer.ack = 0 THEN answer.payload ELSE <<>>],
    outcome <- CASE result.code = "NONE" -> [status |-> "none", data |-> <<>>]
                 [] result.code = "OK" /\ ~ guessed ->
                      [status |-> "ok", data |-> result.data]
                 [] OTHER -> [status |-> "failed", data |-> <<>>]

\* hal_read_write implements the channel its callers rely on: late, cut and
\* stale answers, timeouts and number mismatches included, a call hands over the
\* module's answer to its own command or fails; or, begun while the answer to a
\* command with its opcode and number was in flight, a positive answer.
ImplementsChannel == Channel!Spec

\* A message number that is not the expected one is reported as such (-103, the
\* comment above recv_packet): a NACK that is reported came with the call's.
NackIsOfThisCall ==
    [][ pc = "checksum" /\ pc' = "idle" /\ result'.code = "NACK"
          => hdr[2] = Number ]_vars

\* Every call returns, whatever the module and the UART do, unless the terminal
\* hangs up under it. The module sends at most one answer to a command, so that
\* the line falls silent in the end.
CallReturns == pc # "idle" ~> pc \in {"idle", "hung"}
=============================================================================
