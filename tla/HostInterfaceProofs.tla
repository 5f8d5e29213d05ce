------------------------ MODULE HostInterfaceProofs ------------------------
(***************************************************************************)
(* What the results of hal_read_write mean, proved for any commands, any   *)
(* payloads, any number of calls and any way to cut an answer.             *)
(*                                                                         *)
(* Nothing empties the FIFO before a command, so the proof is about the    *)
(* bytes in flight: ChecksumsAreOurs says which answer a checksum byte     *)
(* that fits the running call belongs to, wherever in the FIFO it lies.    *)
(***************************************************************************)
EXTENDS HostInterface, TLAPS

-----------------------------------------------------------------------------
(* Sequences *)

LEMMA ElementOf ==
    ASSUME NEW S, NEW s \in Seq(S), NEW k \in 1 .. Len(s)
    PROVE  s[k] \in S /\ s[k] \in Range(s)
  BY DEF Range

LEMMA RestOf ==
    ASSUME NEW S, NEW s \in Seq(S), NEW n \in 0 .. Len(s)
    PROVE  /\ SubSeq(s, n + 1, Len(s)) \in Seq(S)
           /\ Range(SubSeq(s, n + 1, Len(s))) \subseteq Range(s)
  BY DEF Range

LEMMA FirstOf ==
    ASSUME NEW S, NEW s \in Seq(S), NEW n \in 0 .. Len(s)
    PROVE  /\ SubSeq(s, 1, n) \in Seq(S)
           /\ Len(SubSeq(s, 1, n)) = n
           /\ Range(SubSeq(s, 1, n)) \subseteq Range(s)
  BY DEF Range

LEMMA TailOf ==
    ASSUME NEW S, NEW s \in Seq(S), s # <<>>
    PROVE  Tail(s) \in Seq(S) /\ Range(Tail(s)) \subseteq Range(s) /\ Head(s) \in S
  BY DEF Range

LEMMA ConcatOf ==
    ASSUME NEW S, NEW s \in Seq(S), NEW t \in Seq(S)
    PROVE  s \o t \in Seq(S) /\ Range(s \o t) = Range(s) \cup Range(t)
<1>1. s \o t \in Seq(S) /\ Len(s \o t) = Len(s) + Len(t)
  OBVIOUS
<1>2. ASSUME NEW x \in Range(s \o t)
      PROVE  x \in Range(s) \cup Range(t)
  BY <1>2 DEF Range
<1>3. ASSUME NEW x \in Range(s)
      PROVE  x \in Range(s \o t)
  BY <1>3 DEF Range
<1>4. ASSUME NEW x \in Range(t)
      PROVE  x \in Range(s \o t)
  <2>1. PICK k \in 1 .. Len(t) : x = t[k]
    BY <1>4 DEF Range
  <2>2. Len(s) + k \in DOMAIN (s \o t) /\ (s \o t)[Len(s) + k] = x
    BY <2>1
  <2> QED
    BY <2>2 DEF Range
<1> QED
  BY <1>1, <1>2, <1>3, <1>4

LEMMA ConcatAt ==
    ASSUME NEW S, NEW s \in Seq(S), NEW p \in Seq(S)
    PROVE  /\ Len(s \o p) = Len(s) + Len(p)
           /\ \A k \in 1 .. Len(s) : (s \o p)[k] = s[k]
           /\ \A k \in 1 .. Len(p) : (s \o p)[Len(s) + k] = p[k]
  OBVIOUS

\* Equal sequences that begin with equally many elements each go on alike.
LEMMA SameRest ==
    ASSUME NEW S, NEW s \in Seq(S), NEW t \in Seq(S), NEW p \in Seq(S),
           NEW q \in Seq(S)
    PROVE  Len(s) = Len(t) /\ s \o p = t \o q
           => p = q /\ \A k \in 1 .. Len(s) : s[k] = t[k]
<1> DEFINE At(u, f, r) ==
        /\ Len(u) = Len(f) + Len(r)
        /\ \A k \in 1 .. Len(f) : u[k] = f[k]
        /\ \A k \in 1 .. Len(r) : u[Len(f) + k] = r[k]
<1>1. At(s \o p, s, p) /\ At(t \o q, t, q)
  BY ConcatAt
<1>2. ASSUME NEW u, At(u, s, p), At(u, t, q), Len(s) = Len(t)
      PROVE  p = q /\ \A k \in 1 .. Len(s) : s[k] = t[k]
  <2>1. Len(p) = Len(q)
    BY <1>2
  <2>2. \A k \in 1 .. Len(p) : p[k] = q[k]
    BY <1>2, <2>1
  <2>3. p = q
    BY <2>1, <2>2
  <2> QED
    BY <1>2, <2>3
<1> HIDE DEF At
<1> QED
  BY <1>1, <1>2, Zenon

-----------------------------------------------------------------------------
(* Types *)

\* A byte of a checksum, and what the checksum was computed over.
IsCheck(b) == b.sum # <<>>
Covered(b) == b.sum[1]

Bytes == [val : Nat, sum : {<<>>} \cup (Seq(Nat) \X {1, 2}), id : Nat]
PendingCommands == [op : Nat, num : Nat, id : Nat]
Results == [code : Codes, nack : Nat, data : Seq(Nat)]
Answers == [ack : Nat, payload : Seq(Nat), sent : BOOLEAN, whole : BOOLEAN]

InFlight == Range(fifo) \cup Range(wire)

HostTypes ==
    /\ pc \in {"idle", "scan", "header", "payload", "checksum", "drain", "hung"}
    /\ message_num \in Nat
    /\ op \in Ops
    /\ len \in 0 .. OutLen[op]
    /\ hdr \in Seq(Nat) /\ Len(hdr) = 4
    /\ ret_value \in Results
    /\ buf \in Seq(Nat)
    /\ result \in Results

LineTypes ==
    /\ fifo \in Seq(Bytes)
    /\ wire \in Seq(Bytes)
    /\ pending \in Seq(PendingCommands)

\* The counters: each call that returned was counted, and ids are those of calls.
CountTypes ==
    /\ calls \in 0 .. MaxCalls
    /\ message_num <= calls
    /\ pc # "idle" => message_num < calls
    /\ from \in 0 .. calls
    /\ boots \in 0 .. MaxBoots
    /\ twin \in BOOLEAN
    /\ answer \in Answers
    /\ \A b \in InFlight : b.id <= calls
    /\ \A k \in DOMAIN pending : pending[k].id <= calls

Types == HostTypes /\ LineTypes /\ CountTypes

LEMMA Constants ==
    /\ Ops \subseteq Nat
    /\ OutLen \in [Ops -> Nat]
    /\ Bootloader \in Nat /\ Bootloader \notin Ops
    /\ Nacks \subseteq Nat /\ 0 \notin Nacks
    /\ NumMod \in Nat \ {0}
    /\ MaxCalls \in Nat /\ MaxBoots \in Nat
    /\ SOF \in Nat
    /\ AckPayloads \subseteq Seq(Nat) /\ NackPayloads \subseteq Seq(Nat)
  BY CommandsAssumption

LEMMA NumberIsNat ==
    ASSUME message_num \in Nat
    PROVE  Number \in Nat
<1>1. NumMod \in Nat \ {0}
  BY Constants
<1> QED
  BY <1>1, Z3 DEF Number

LEMMA ResultTypes ==
    /\ \A c \in Codes : Failure(c) \in Results
    /\ \A a \in Nat : Nack(a) \in Results
    /\ \A p \in Seq(Nat) : Success(p) \in Results
    /\ NoResult \in Results
  BY DEF Failure, Nack, Success, NoResult, Results, Codes

\* What a byte of an answer is.
LEMMA FrameTypes ==
    ASSUME NEW c \in PendingCommands, NEW a \in Nat, NEW p \in Seq(Nat)
    PROVE  /\ Frame(c, a, p) \in Seq(Bytes)
           /\ \A b \in Range(Frame(c, a, p)) :
                 /\ b.id = c.id
                 /\ IsCheck(b) => Covered(b) = Header(c.op, c.num, a, p) \o p
<1> DEFINE s == Header(c.op, c.num, a, p) \o p
           t == <<SOF>> \o s
           plain == [k \in 1 .. Len(s) + 1 |-> Plain(t[k], c.id)]
           checks == <<Check(s, 1, c.id), Check(s, 2, c.id)>>
<1>1. Header(c.op, c.num, a, p) \in Seq(Nat)
  BY DEF Header, PendingCommands
<1>2. s \in Seq(Nat) /\ t \in Seq(Nat) /\ Len(t) = Len(s) + 1
  BY <1>1, Constants
<1> HIDE DEF t
<1>3. /\ plain \in Seq(Bytes)
      /\ \A b \in Range(plain) : b.id = c.id /\ ~ IsCheck(b)
  <2>1. \A k \in 1 .. Len(s) + 1 : t[k] \in Nat
    BY <1>2
  <2>2. \A k \in 1 .. Len(s) + 1 : Plain(t[k], c.id) \in Bytes
    BY <2>1 DEF Plain, Bytes, PendingCommands
  <2>3. plain \in Seq(Bytes)
    <3> HIDE DEF s
    <3> QED
      BY <1>2, <2>2
  <2> QED
    BY <1>2, <2>3 DEF Range, Plain, IsCheck
<1> HIDE DEF s
<1>4. /\ checks \in Seq(Bytes)
      /\ \A b \in Range(checks) : b.id = c.id /\ Covered(b) = s
  BY <1>2 DEF Check, Bytes, PendingCommands, Range, Covered
<1>5. Frame(c, a, p) = plain \o checks
  BY DEF Frame, s, t
<1> HIDE DEF plain, checks
<1>6. \A b \in Range(Frame(c, a, p)) : b.id = c.id /\ (IsCheck(b) => Covered(b) = s)
  BY <1>3, <1>4, <1>5, ConcatOf
<1> QED
  BY <1>3, <1>4, <1>5, <1>6, ConcatOf DEF s

LEMMA TypesInit == Init => Types
<1> SUFFICES ASSUME Init PROVE Types
  OBVIOUS
<1>1. HostTypes
  BY Constants, ResultTypes DEF Init, HostTypes, NoHeader, Stale
<1>2. LineTypes
  BY DEF Init, LineTypes
<1>3. CountTypes
  <2>1. calls \in 0 .. MaxCalls /\ boots \in 0 .. MaxBoots /\ from \in 0 .. calls
    <3>1. calls = 0 /\ boots = 0 /\ from = 0
      BY DEF Init
    <3> QED
      BY <3>1, Constants
  <2>2. InFlight = {} /\ answer \in Answers
    BY DEF Init, InFlight, Range, Answers, NoAnswer
  <2>3. pc = "idle" /\ message_num = 0 /\ calls = 0 /\ twin = FALSE /\ DOMAIN pending = {}
    BY DEF Init
  <2>4. /\ message_num <= calls
        /\ pc # "idle" => message_num < calls
    BY <2>3
  <2>5. twin \in BOOLEAN
    BY <2>3
  <2>6. /\ \A b \in InFlight : b.id <= calls
        /\ \A k \in DOMAIN pending : pending[k].id <= calls
    BY <2>2, <2>3
  <2> QED
    BY <2>1, <2>2, <2>4, <2>5, <2>6 DEF CountTypes
<1> QED
  BY <1>1, <1>2, <1>3 DEF Types

\* The end of a call, whatever it returns.
LEMMA ReturnTypes ==
    ASSUME HostTypes, NEW r \in Results, Return(r)
    PROVE  HostTypes'
<1>1. Exact(r) \in Results
  BY ResultTypes DEF Exact, Codes
<1> QED
  BY <1>1, Constants, ResultTypes DEF HostTypes, Return, NoHeader, Stale

\* A step that takes bytes from the line and adds none keeps the line's types.
Takes ==
    /\ fifo' \in Seq(Bytes)
    /\ Range(fifo') \subseteq Range(fifo)
    /\ UNCHANGED <<wire, pending, calls, boots, twin, answer>>

LEMMA TakesTypes ==
    ASSUME Types, Takes, from' \in 0 .. calls,
           message_num' = message_num \/ (message_num' = message_num + 1 /\ pc # "idle"),
           pc' # "idle" => message_num' = message_num /\ pc # "idle"
    PROVE  LineTypes' /\ CountTypes'
<1>1. LineTypes'
  BY DEF Types, LineTypes, Takes
<1>2. InFlight' \subseteq InFlight
  BY DEF InFlight, Takes
<1> QED
  BY <1>1, <1>2 DEF Types, HostTypes, CountTypes, Takes

\* What hal_read_write finds wrong with a header is a result.
LEMMA HeaderErrorTypes ==
    ASSUME NEW h \in Seq(Nat), Len(h) = 4
    PROVE  HeaderError(h) \in Results
<1>1. 3 \in 1 .. Len(h)
  OBVIOUS
<1>2. h[3] \in Nat
  BY <1>1, ElementOf
<1> QED
  BY <1>2, ResultTypes DEF HeaderError, Codes

LEMMA ValuesTypes ==
    ASSUME NEW s \in Seq(Bytes)
    PROVE  /\ Values(s) \in Seq(Nat)
           /\ Len(Values(s)) = Len(s)
<1>1. \A k \in 1 .. Len(s) : s[k].val \in Nat
  <2>1. \A b \in Bytes : b.val \in Nat
    BY DEF Bytes
  <2> QED
    BY <2>1, ElementOf
<1>2. Values(s) = [k \in 1 .. Len(s) |-> s[k].val]
  BY DEF Values
<1> DEFINE v == [k \in 1 .. Len(s) |-> s[k].val]
<1>3. v \in Seq(Nat) /\ Len(v) = Len(s)
  BY <1>1
<1> QED
  BY <1>2, <1>3

\* All that a step of hal_read_write does to the line.
LEMMA HostTakes ==
    ASSUME Types, Host \/ ScanClockFails
    PROVE  /\ Takes
           /\ from' \in 0 .. calls
           /\ pc # "idle" /\ UNCHANGED <<op, in_sync>>
<1> USE DEF Takes, HostTypes, hostVars, lineVars, history
<1>t. /\ fifo \in Seq(Bytes) /\ from \in 0 .. calls /\ calls \in Nat
      /\ len \in Nat
      /\ <<>> \in Seq(Bytes) /\ Range(<<>>) \subseteq Range(fifo)
  BY Constants DEF Types, LineTypes, CountTypes, Range
<1>1. CASE ScanByte
  BY <1>1, <1>t, TailOf DEF ScanByte, Return
<1>2. CASE ScanTimeout \/ DrainEnds
  BY <1>2, <1>t DEF ScanTimeout, DrainEnds, Return
<1>3. CASE ScanClockFails
  <2>1. fifo' = fifo \/ (fifo # <<>> /\ fifo' = Tail(fifo))
    BY <1>3 DEF ScanClockFails
  <2>2. fifo' \in Seq(Bytes) /\ Range(fifo') \subseteq Range(fifo)
    BY <1>t, <2>1, TailOf
  <2> QED
    BY <1>3, <1>t, <2>2 DEF ScanClockFails, Return
<1>4. CASE ReadHeader
  BY <1>4, <1>t, RestOf DEF ReadHeader
<1>5. CASE HeaderTimeout \/ Drain \/ PayloadTimeout \/ ChecksumTimeout
  BY <1>5, <1>t DEF HeaderTimeout, Drain, PayloadTimeout, ChecksumTimeout, Return
<1>6. CASE ReadPayload
  BY <1>6, <1>t, RestOf DEF ReadPayload
<1>7. CASE ReadChecksum
  <2>1. 1 \in 1 .. Len(fifo)
    BY <1>7, <1>t DEF ReadChecksum
  <2>2. fifo[1] \in Bytes /\ fifo[1] \in InFlight
    BY <1>t, <2>1, ElementOf DEF InFlight
  <2>3. fifo[1].id \in 0 .. calls
    BY <1>t, <2>2 DEF Types, CountTypes, Bytes
  <2>4. from' \in 0 .. calls
    BY <1>7, <2>3 DEF ReadChecksum
  <2> QED
    BY <1>7, <1>t, <2>4, RestOf DEF ReadChecksum, Return
<1> QED
  BY <1>1, <1>2, <1>3, <1>4, <1>5, <1>6, <1>7 DEF Host

LEMMA HostStepTypes ==
    ASSUME Types, Host \/ ScanClockFails
    PROVE  Types'
<1> USE DEF hostVars
<1>c. \A c \in Codes : Failure(c) \in Results
  BY ResultTypes
<1>f. fifo \in Seq(Bytes) /\ len \in Nat /\ len <= OutLen[op] /\ OutLen[op] \in Nat
  BY Constants DEF Types, LineTypes, HostTypes
<1>r. ASSUME NEW r \in Results, Return(r)
      PROVE  Types'
  <2>1. HostTypes'
    BY <1>r, ReturnTypes DEF Types
  <2>2. LineTypes' /\ CountTypes'
    BY <1>r, HostTakes, TakesTypes DEF Return
  <2> QED
    BY <2>1, <2>2 DEF Types
<1>s. ASSUME HostTypes', message_num' = message_num
      PROVE  Types'
  <2>1. LineTypes' /\ CountTypes'
    BY <1>s, HostTakes, TakesTypes
  <2> QED
    BY <1>s, <2>1 DEF Types
<1>v. Verdict \in Results
  <2>1. Payload \in Seq(Nat)
    BY DEF Payload, Types, HostTypes
  <2> QED
    BY <2>1, ResultTypes DEF Verdict, Types, HostTypes
<1>1. CASE ScanByte
  <2>1. CASE pc' \in {"header", "scan"} /\ UNCHANGED hostVars
    <3>1. HostTypes'
      BY <2>1 DEF Types, HostTypes
    <3> QED
      BY <1>s, <2>1, <3>1
  <2>2. CASE Return(Failure("TIMEOUT"))
    BY <1>r, <1>c, <2>2 DEF Codes
  <2> QED
    BY <1>1, <2>1, <2>2 DEF ScanByte
<1>2. CASE ScanTimeout \/ ScanClockFails \/ HeaderTimeout \/ DrainEnds
  BY <1>2, <1>r, <1>c DEF ScanTimeout, ScanClockFails, HeaderTimeout, DrainEnds, Codes
<1>3. CASE ReadHeader
  <2>1. hdr' \in Seq(Nat) /\ Len(hdr') = 4
    <3> DEFINE h == SubSeq(fifo, 1, 4)
    <3>1. h \in Seq(Bytes) /\ Len(h) = 4
      BY <1>3, <1>f, FirstOf DEF ReadHeader
    <3> HIDE DEF h
    <3>2. Values(h) \in Seq(Nat) /\ Len(Values(h)) = 4
      BY <3>1, ValuesTypes
    <3> QED
      BY <1>3, <3>2 DEF ReadHeader, h
  <2>2. ret_value' \in Results
    BY <1>3, <2>1, HeaderErrorTypes DEF ReadHeader
  <2>3. len' \in 0 .. OutLen[op]
    BY <1>3, <1>f, <2>1 DEF ReadHeader, Shorter
  <2>4. HostTypes'
    BY <1>3, <2>1, <2>2, <2>3 DEF ReadHeader, Types, HostTypes
  <2> QED
    BY <1>3, <1>s, <2>4 DEF ReadHeader
<1>4. CASE Drain \/ PayloadTimeout
  BY <1>4, <1>s DEF Drain, PayloadTimeout, Types, HostTypes
<1>5. CASE ReadPayload
  <2>1. buf' \in Seq(Nat)
    <3> DEFINE h == SubSeq(fifo, 1, len)
    <3>1. h \in Seq(Bytes)
      BY <1>5, <1>f, FirstOf DEF ReadPayload
    <3> HIDE DEF h
    <3>2. Values(h) \in Seq(Nat)
      BY <3>1, ValuesTypes
    <3> QED
      BY <1>5, <3>2 DEF ReadPayload, h
  <2>2. HostTypes'
    BY <1>5, <2>1 DEF ReadPayload, Types, HostTypes
  <2> QED
    BY <1>5, <1>s, <2>2 DEF ReadPayload
<1>6. CASE ReadChecksum
  BY <1>6, <1>r, <1>c, <1>v DEF ReadChecksum, Codes
<1>7. CASE ChecksumTimeout
  BY <1>7, <1>r, <1>c, <1>v DEF ChecksumTimeout, Codes
<1> QED
  BY <1>1, <1>2, <1>3, <1>4, <1>5, <1>6, <1>7 DEF Host

\* A hung call stays as it is.
LEMMA HungTypes ==
    ASSUME Types, HangsUp
    PROVE  Types'
  BY DEF HangsUp, hostVars, lineVars, history, Types, HostTypes, LineTypes, CountTypes,
     InFlight

LEMMA IdsAreCalls ==
    ASSUME Types
    PROVE  /\ calls \in Nat
           /\ \A b \in InFlight : b \in Bytes /\ b.id \in 0 .. calls
           /\ \A k \in DOMAIN pending :
                 pending[k] \in PendingCommands /\ pending[k].id \in 0 .. calls
<1>1. calls \in Nat
  BY Constants DEF Types, CountTypes
<1>2. \A b \in InFlight : b \in Bytes
  BY DEF Types, LineTypes, InFlight, Range
<1>3. \A k \in DOMAIN pending : pending[k] \in PendingCommands
  BY DEF Types, LineTypes
<1>4. \A b \in Bytes : b.id \in Nat
  BY DEF Bytes
<1>5. \A c \in PendingCommands : c.id \in Nat
  BY DEF PendingCommands
<1>6. /\ \A b \in InFlight : b.id <= calls
      /\ \A k \in DOMAIN pending : pending[k].id <= calls
  BY DEF Types, CountTypes
<1> QED
  BY <1>1, <1>2, <1>3, <1>4, <1>5, <1>6

LEMMA EmptyOf ==
    ASSUME NEW S
    PROVE  <<>> \in Seq(S) /\ Range(<<>>) = {}
  BY DEF Range

\* What an answer puts on the line, and whose it is.
LEMMA AnswerPuts ==
    ASSUME Types, NEW a \in Nat, NEW p \in Seq(Nat), Answer(a, p)
    PROVE  /\ pending # <<>> /\ Head(pending) \in PendingCommands
           /\ Head(pending) = pending[1] /\ Head(pending).id <= calls
           /\ fifo' \in Seq(Bytes) /\ wire' \in Seq(Bytes)
           /\ pending' = Tail(pending)
           /\ InFlight' \subseteq InFlight \cup Range(Frame(Head(pending), a, p))
           /\ answer' \in Answers
<1> DEFINE f == Frame(Head(pending), a, p)
<1>1. /\ pending # <<>> /\ Head(pending) \in PendingCommands
      /\ Head(pending) = pending[1] /\ Head(pending).id <= calls
  <2>1. pending # <<>> /\ pending \in Seq(PendingCommands)
    BY DEF Answer, Types, LineTypes
  <2>2. Head(pending) = pending[1] /\ 1 \in DOMAIN pending
    BY <2>1
  <2> QED
    BY <2>1, <2>2 DEF Types, CountTypes
<1>2. f \in Seq(Bytes)
  BY <1>1, FrameTypes
<1>3. PICK k \in 0 .. Len(f) : /\ fifo' = fifo \o SubSeq(f, 1, k)
                               /\ wire' = SubSeq(f, k + 1, Len(f))
  <2>1. Len(f) \in Nat
    BY <1>2
  <2>2. PICK k \in {Len(f)} \cup (CutPoints \cap 1 .. Len(f)) :
           /\ fifo' = fifo \o SubSeq(f, 1, k)
           /\ wire' = SubSeq(f, k + 1, Len(f))
    BY DEF Answer
  <2> HIDE DEF f
  <2>3. k \in 0 .. Len(f)
    BY <2>1, <2>2
  <2> QED
    BY <2>2, <2>3, Zenon
<1>4. answer' \in Answers
  <2> DEFINE given == [ack |-> a, payload |-> p, sent |-> TRUE, whole |-> wire' = <<>>]
  <2>1. given \in Answers
    BY DEF Answers
  <2>2. answer' = given \/ answer' = answer
    BY DEF Answer
  <2> HIDE DEF given
  <2> QED
    BY <2>1, <2>2 DEF Types, CountTypes
<1> HIDE DEF f
<1>5. /\ SubSeq(f, 1, k) \in Seq(Bytes) /\ Range(SubSeq(f, 1, k)) \subseteq Range(f)
      /\ wire' \in Seq(Bytes) /\ Range(wire') \subseteq Range(f)
  BY <1>2, <1>3, FirstOf, RestOf
<1>6. fifo' \in Seq(Bytes) /\ Range(fifo') = Range(fifo) \cup Range(SubSeq(f, 1, k))
  <2> DEFINE g == SubSeq(f, 1, k)
  <2>1. fifo \in Seq(Bytes) /\ g \in Seq(Bytes) /\ fifo' = fifo \o g
    BY <1>3, <1>5 DEF Types, LineTypes
  <2> HIDE DEF g
  <2>2. fifo \o g \in Seq(Bytes) /\ Range(fifo \o g) = Range(fifo) \cup Range(g)
    BY <2>1, ConcatOf, Zenon
  <2> QED
    BY <2>1, <2>2, Zenon DEF g
<1>7. InFlight' \subseteq InFlight \cup Range(f)
  BY <1>5, <1>6 DEF InFlight
<1>8. pending' = Tail(pending)
  BY DEF Answer
<1> QED
  BY <1>1, <1>4, <1>5, <1>6, <1>7, <1>8 DEF f

\* The rest of an answer, or nothing, joins the FIFO.
LEMMA ArriveMoves ==
    ASSUME Types, Arrive
    PROVE  /\ fifo' \in Seq(Bytes) /\ wire' \in Seq(Bytes)
           /\ InFlight' \subseteq InFlight
<1>1. wire' = <<>> /\ (fifo' = fifo \/ fifo' = fifo \o wire)
  BY DEF Arrive
<1>2. fifo \o wire \in Seq(Bytes) /\ Range(fifo \o wire) = InFlight
  BY ConcatOf DEF Types, LineTypes, InFlight
<1> QED
  BY <1>1, <1>2, EmptyOf DEF Types, LineTypes, InFlight

\* A command more waits for the module.
LEMMA AppendTypes ==
    ASSUME Types, NEW c \in PendingCommands, pending' = Append(pending, c)
    PROVE  /\ pending' \in Seq(PendingCommands)
           /\ DOMAIN pending' = 1 .. Len(pending) + 1
           /\ \A k \in 1 .. Len(pending) : pending'[k] = pending[k]
           /\ pending'[Len(pending) + 1] = c
  BY DEF Types, LineTypes

\* The oldest command waits no more.
LEMMA TailTypes ==
    ASSUME Types, pending # <<>>, pending' = Tail(pending)
    PROVE  /\ pending' \in Seq(PendingCommands)
           /\ \A k \in DOMAIN pending' : k + 1 \in DOMAIN pending /\ k + 1 # 1
                                         /\ pending'[k] = pending[k + 1]
<1>1. pending \in Seq(PendingCommands)
  BY DEF Types, LineTypes
<1>2. pending' \in Seq(PendingCommands) /\ Len(pending') = Len(pending) - 1
  BY <1>1
<1>3. \A k \in 1 .. Len(pending) - 1 : pending'[k] = pending[k + 1]
  BY <1>1
<1> QED
  BY <1>1, <1>2, <1>3

-----------------------------------------------------------------------------
(* The type invariant *)

LEMMA ModuleStepTypes ==
    ASSUME Types, Module
    PROVE  Types'
<1> USE DEF hostVars, history
<1>h. HostTypes' /\ UNCHANGED <<pc, message_num, calls, from, boots, twin>>
  <2>1. UNCHANGED <<pc, hostVars, calls, from, boots, twin>>
    BY DEF Module, Answer, NoReply, Arrive
  <2> QED
    BY <2>1 DEF Types, HostTypes
<1>1. ASSUME NEW a \in Nat, NEW p \in Seq(Nat), Answer(a, p)
      PROVE  Types'
  <2> USE <1>1
  <2>1. pending' = Tail(pending) /\ pending # <<>>
    BY AnswerPuts
  <2>2. LineTypes'
    BY <2>1, AnswerPuts, TailTypes DEF LineTypes
  <2>3. \A k \in DOMAIN pending' : pending'[k].id <= calls
    BY <2>1, TailTypes DEF Types, CountTypes
  <2>4. \A b \in InFlight' : b.id <= calls
    <3>1. \A b \in Range(Frame(Head(pending), a, p)) : b.id <= calls
      <4>1. Head(pending) \in PendingCommands /\ Head(pending).id <= calls
        BY AnswerPuts
      <4> DEFINE c == Head(pending)
      <4> HIDE DEF c
      <4>2. \A b \in Range(Frame(c, a, p)) : b.id = c.id
        BY <4>1, FrameTypes DEF c
      <4> QED
        BY <4>1, <4>2 DEF c
    <3>2. InFlight' \subseteq InFlight \cup Range(Frame(Head(pending), a, p))
      BY AnswerPuts
    <3> QED
      BY <3>1, <3>2 DEF Types, CountTypes
  <2>5. answer' \in Answers
    BY AnswerPuts
  <2>6. CountTypes'
    BY <1>h, <2>3, <2>4, <2>5 DEF Types, CountTypes
  <2> QED
    BY <1>h, <2>2, <2>6 DEF Types
<1>2. CASE NoReply
  <2>1. pending' = Tail(pending) /\ pending # <<>>
    BY <1>2 DEF NoReply
  <2>2. UNCHANGED <<fifo, wire, answer>>
    BY <1>2 DEF NoReply
  <2>3. LineTypes'
    BY <2>1, <2>2, TailTypes DEF LineTypes, Types
  <2>4. \A k \in DOMAIN pending' : pending'[k].id <= calls
    BY <2>1, TailTypes DEF Types, CountTypes
  <2>5. CountTypes'
    BY <1>h, <2>2, <2>4 DEF Types, CountTypes, InFlight
  <2> QED
    BY <1>h, <2>3, <2>5 DEF Types
<1>3. CASE Arrive
  <2>1. UNCHANGED <<pending, answer>>
    BY <1>3 DEF Arrive
  <2>2. LineTypes' /\ InFlight' \subseteq InFlight
    BY <1>3, <2>1, ArriveMoves DEF Types, LineTypes
  <2>3. CountTypes'
    BY <1>h, <2>1, <2>2 DEF Types, CountTypes
  <2> QED
    BY <1>h, <2>2, <2>3 DEF Types
<1> QED
  BY <1>1, <1>2, <1>3, Constants DEF Module

LEMMA CallTypes ==
    ASSUME Types, NEW o \in Ops, Call(o)
    PROVE  Types'
<1> DEFINE c == [op |-> o, num |-> Number, id |-> calls + 1]
<1>0. /\ pc = "idle" /\ pc' = "scan" /\ op' = o /\ len' = OutLen[o]
      /\ result' = NoResult /\ UNCHANGED <<hdr, ret_value, buf, message_num, fifo, wire>>
      /\ calls < MaxCalls /\ calls' = calls + 1 /\ from' = 0 /\ boots' = boots
      /\ answer' = NoAnswer
  BY DEF Call
<1>t. twin' \in BOOLEAN
  <2>1. HasTwin(o) \in BOOLEAN
    BY DEF HasTwin
  <2>2. twin' = HasTwin(o)
    BY DEF Call
  <2> QED
    BY <2>1, <2>2
<1>1. HostTypes'
  BY <1>0, Constants, ResultTypes DEF Types, HostTypes
<1>2. c \in PendingCommands
  BY Constants, NumberIsNat, IdsAreCalls DEF PendingCommands, Types, HostTypes
<1>3. pending' = Append(pending, c) \/ pending' = pending
  BY DEF Call
<1> HIDE DEF c
<1>4. pending' \in Seq(PendingCommands)
  BY <1>2, <1>3, AppendTypes DEF Types, LineTypes
<1>5. \A k \in DOMAIN pending' : pending'[k].id <= calls + 1
  <2>1. c.id <= calls + 1
    BY DEF c, Types, CountTypes
  <2>2. \A k \in DOMAIN pending : pending[k].id <= calls + 1
    BY IdsAreCalls
  <2>3. DOMAIN pending = 1 .. Len(pending) /\ Len(pending) \in Nat
    BY DEF Types, LineTypes
  <2>4. CASE pending' = Append(pending, c)
    <3>1. ASSUME NEW k \in 1 .. Len(pending) + 1
          PROVE  k \in 1 .. Len(pending) \/ k = Len(pending) + 1
      BY <2>3
    <3> QED
      BY <1>2, <2>1, <2>2, <2>3, <2>4, <3>1, AppendTypes
  <2> QED
    BY <1>3, <2>2, <2>4
<1>6. LineTypes'
  BY <1>0, <1>4 DEF Types, LineTypes
<1>7. \A b \in InFlight' : b.id <= calls + 1
  BY <1>0, IdsAreCalls DEF InFlight
<1>8. NoAnswer \in Answers
  BY DEF Answers, NoAnswer
<1>9. CountTypes'
  BY <1>0, <1>t, <1>5, <1>7, <1>8, Constants DEF Types, CountTypes, HostTypes
<1> QED
  BY <1>1, <1>6, <1>9 DEF Types

\* ll_bootloader_mode adds a command that is no call's, or nothing.
LEMMA BootloaderAdds ==
    ASSUME Types, BootloaderMode
    PROVE  /\ pending' \in Seq(PendingCommands)
           /\ \A k \in DOMAIN pending' :
                 \/ k \in DOMAIN pending /\ pending'[k] = pending[k]
                 \/ pending'[k].op \notin Ops /\ pending'[k].id = 0
           /\ \A k \in DOMAIN pending : k \in DOMAIN pending' /\ pending'[k] = pending[k]
<1> DEFINE c == [op |-> Bootloader, num |-> Number, id |-> 0]
<1>1. c \in PendingCommands /\ c.op \notin Ops /\ c.id = 0
  BY Constants, NumberIsNat DEF PendingCommands, Types, HostTypes
<1>2. pending' = Append(pending, c) \/ pending' = pending
  BY DEF BootloaderMode
<1> HIDE DEF c
<1>3. pending \in Seq(PendingCommands) /\ DOMAIN pending = 1 .. Len(pending)
      /\ Len(pending) \in Nat
  BY DEF Types, LineTypes
<1>4. CASE pending' = Append(pending, c)
  <2>1. /\ pending' \in Seq(PendingCommands)
        /\ DOMAIN pending' = 1 .. Len(pending) + 1
        /\ \A k \in 1 .. Len(pending) : pending'[k] = pending[k]
        /\ pending'[Len(pending) + 1] = c
    BY <1>1, <1>4, AppendTypes
  <2>2. \A n \in Nat : \A k \in 1 .. n + 1 : k \in 1 .. n \/ k = n + 1
    OBVIOUS
  <2>3. \A n \in Nat : \A k \in 1 .. n : k \in 1 .. n + 1
    OBVIOUS
  <2> QED
    BY <1>1, <1>3, <2>1, <2>2, <2>3
<1> QED
  BY <1>2, <1>3, <1>4

LEMMA BootloaderTypes ==
    ASSUME Types, BootloaderMode
    PROVE  Types'
<1>1. /\ boots < MaxBoots /\ boots' = boots + 1
      /\ UNCHANGED <<pc, hostVars, fifo, wire, calls, from, twin, answer>>
  BY DEF BootloaderMode
<1>2. HostTypes'
  BY <1>1 DEF Types, HostTypes, hostVars
<1>3. LineTypes'
  BY <1>1, BootloaderAdds DEF Types, LineTypes
<1>4. \A k \in DOMAIN pending' : pending'[k].id <= calls
  BY BootloaderAdds, IdsAreCalls
<1>5. boots' \in 0 .. MaxBoots
  BY <1>1, Constants DEF Types, CountTypes
<1>6. CountTypes'
  BY <1>1, <1>4, <1>5 DEF Types, CountTypes, InFlight, hostVars
<1> QED
  BY <1>2, <1>3, <1>6 DEF Types

LEMMA TypesStep == Types /\ [Next]_vars => Types'
<1> SUFFICES ASSUME Types, [Next]_vars PROVE Types'
  OBVIOUS
<1> USE DEF hostVars, lineVars, history
<1>1. CASE BadParameter
  <2>1. result' \in Results
    BY <1>1, ResultTypes DEF BadParameter, Codes
  <2> QED
    BY <1>1, <2>1 DEF BadParameter, Types, HostTypes, LineTypes, CountTypes, InFlight
<1>2. CASE \E o \in Ops : Call(o)
  BY <1>2, CallTypes
<1>3. CASE BootloaderMode
  BY <1>3, BootloaderTypes
<1>4. CASE ResetState
  <2>1. LineTypes' /\ CountTypes'
    BY <1>4 DEF ResetState, Types, HostTypes, LineTypes, CountTypes, InFlight
  <2>2. HostTypes'
    BY <1>4, ResultTypes DEF ResetState, Types, HostTypes
  <2> QED
    BY <2>1, <2>2 DEF Types
<1>5. CASE Host \/ ScanClockFails
  BY <1>5, HostStepTypes
<1>6. CASE Module
  BY <1>6, ModuleStepTypes
<1>7. CASE Spins \/ UNCHANGED vars
  BY <1>7 DEF vars, Spins, Types, HostTypes, LineTypes, CountTypes, InFlight
<1> QED
  BY <1>1, <1>2, <1>3, <1>4, <1>5, <1>6, <1>7, HungTypes DEF Next

LEMMA AlwaysTypes == Spec => []Types
  BY TypesInit, TypesStep, PTL DEF Spec

\* TypeOK: the counter counts the calls that returned, and the length handed to
\* the second transport_read is within the caller's buffer.
THEOREM TypeCorrect == Spec => []TypeOK
<1>1. ASSUME Types
      PROVE  TypeOK
  <2>1. result.code \in Codes /\ ret_value.code \in Codes
    BY <1>1 DEF Types, HostTypes, Results
  <2>2. \A k \in DOMAIN pending : pending[k].id \in 0 .. calls
    BY <1>1, IdsAreCalls
  <2> QED
    BY <1>1, <2>1, <2>2, Constants DEF Types, HostTypes, CountTypes, TypeOK
<1> QED
  BY <1>1, AlwaysTypes, PTL

-----------------------------------------------------------------------------
(* What a success means *)

\* What the checksum of the module's answer to the running call covers.
TheAnswer == Header(op, Number, answer.ack, answer.payload) \o answer.payload

\* A checksum byte that recv_packet may take for one of the running call's.
Fits(b) == IsCheck(b) /\ Covered(b)[1] = op /\ Covered(b)[2] = Number

\* Wherever it is in flight, such a byte belongs to the answer to this call,
\* nothing having looked like the call's when it began.
ChecksumsAreOurs ==
    pc # "idle" /\ ~ twin => \A b \in InFlight :
        Fits(b) => b.id = calls /\ answer.sent /\ Covered(b) = TheAnswer

\* s is what the checksum of an answer covers, one the module may give.
IsAnswer(s) ==
    \E o, n, a \in Nat : \E p \in Seq(Nat) :
        s = Header(o, n, a, p) \o p /\ (a = 0 => p \in AckPayloads)

\* Whosoever the answer is, it is one of the module's.
ChecksumsAreAnswers == \A b \in InFlight : IsCheck(b) => IsAnswer(Covered(b))

\* The command of the last call waits at most once, and only unanswered; while
\* the call runs, begun without a twin, no other command with its opcode and
\* number waits.
PendingIsOurs ==
    /\ \A k \in DOMAIN pending :
          pending[k].op \in Ops /\ pending[k].id = calls =>
              /\ ~ answer.sent
              /\ \A j \in DOMAIN pending :
                    pending[j].op \in Ops /\ pending[j].id = calls => j = k
    /\ pc # "idle" /\ ~ twin =>
          \A k \in DOMAIN pending :
              pending[k].op = op /\ pending[k].num = Number => pending[k].id = calls

\* A header found faultless is one of this command; an error is no success.
HeaderIsOurs ==
    /\ ret_value.code # "OK"
    /\ pc \in {"payload", "checksum"} /\ ret_value = NoResult =>
          hdr[1] = op /\ hdr[2] = Number /\ hdr[3] = 0

Honest ==
    /\ ChecksumsAreOurs
    /\ ChecksumsAreAnswers
    /\ PendingIsOurs
    /\ HeaderIsOurs
    /\ SuccessIsTheAnswer

LEMMA HonestInit == Init => Honest
<1> SUFFICES ASSUME Init PROVE Honest
  OBVIOUS
<1>1. pc = "idle" /\ pending = <<>> /\ InFlight = {}
  BY DEF Init, InFlight, Range
<1> QED
  BY <1>1 DEF Init, Honest, ChecksumsAreOurs, ChecksumsAreAnswers, PendingIsOurs,
     HeaderIsOurs, SuccessIsTheAnswer, NoResult, Failure

\* Bytes and commands that leave, while the call stays the one it is.
LEMMA HonestLess ==
    ASSUME Types, Honest, InFlight' \subseteq InFlight,
           UNCHANGED <<op, answer, calls, twin>>,
           pc' # "idle" => pc # "idle" /\ message_num' = message_num
    PROVE  ChecksumsAreOurs' /\ ChecksumsAreAnswers' /\ (pending' = pending => PendingIsOurs')
<1>0. ChecksumsAreAnswers'
  BY DEF Honest, ChecksumsAreAnswers
<1>1. CASE pc' = "idle"
  BY <1>0, <1>1 DEF Honest, ChecksumsAreOurs, PendingIsOurs
<1>2. CASE pc' # "idle"
  <2>1. pc # "idle" /\ Number' = Number
    BY <1>2 DEF Number
  <2>2. ChecksumsAreOurs'
    BY <2>1 DEF Honest, ChecksumsAreOurs, Fits, TheAnswer
  <2>3. pending' = pending => PendingIsOurs'
    BY <2>1 DEF Honest, PendingIsOurs
  <2> QED
    BY <1>0, <2>2, <2>3
<1> QED
  BY <1>1, <1>2

\* A call that ends with an error, or with a verdict over bytes not read.
LEMMA FailureIsHonest ==
    ASSUME NEW r, Return(r), r.code # "OK" \/ guessed'
    PROVE  SuccessIsTheAnswer'
<1>1. result' = Exact(r) /\ pc' = "idle"
  BY DEF Return
<1>2. Exact(r) = r \/ Exact(r) = Failure("RESPONSE_LENGTH")
  BY DEF Exact
<1>3. Failure("RESPONSE_LENGTH").code # "OK"
  BY DEF Failure
<1> QED
  BY <1>1, <1>2, <1>3 DEF SuccessIsTheAnswer

\* The checksum fits the header and the payload read: both are the answer's.
LEMMA ReadChecksumIsHonest ==
    ASSUME Types, Honest, ReadChecksum
    PROVE  SuccessIsTheAnswer'
<1> DEFINE r == IF fifo[1].sum = <<Computed, 1>> /\ fifo[2].sum = <<Computed, 2>>
                THEN Verdict ELSE Failure("CHECKSUM")
<1>1. /\ Return(r) /\ pc = "checksum" /\ Len(fifo) >= 2 /\ from' = fifo[1].id
      /\ UNCHANGED <<calls, twin, answer, guessed>>
  BY DEF ReadChecksum, history
<1>2. CASE r.code # "OK"
  <2> HIDE DEF r
  <2> QED
    BY <1>1, <1>2, FailureIsHonest
<1>3. CASE r.code = "OK"
  <2>1. r = Verdict /\ fifo[1].sum = <<Computed, 1>>
    BY <1>3 DEF Failure
  <2>2. ret_value = NoResult /\ Verdict = Success(Payload)
    BY <1>3, <2>1 DEF Verdict, Honest, HeaderIsOurs
  <2>3. hdr[1] = op /\ hdr[2] = Number /\ hdr[3] = 0
    BY <1>1, <2>2 DEF Honest, HeaderIsOurs
  <2>4. hdr \in Seq(Nat) /\ Len(hdr) = 4 /\ Payload \in Seq(Nat)
    BY DEF Types, HostTypes, Payload
  <2>5. Computed[1] = op /\ Computed[2] = Number
    <3>1. \A k \in 1 .. Len(hdr) : Computed[k] = hdr[k]
      BY <2>4, ConcatAt DEF Computed
    <3>2. 1 \in 1 .. Len(hdr) /\ 2 \in 1 .. Len(hdr)
      BY <2>4
    <3>3. Computed[1] = hdr[1] /\ Computed[2] = hdr[2]
      BY <3>1, <3>2
    <3> QED
      BY <2>3, <3>3
  <2>6. fifo[1] \in InFlight
    <3>1. 1 \in 1 .. Len(fifo) /\ fifo \in Seq(Bytes)
      BY <1>1 DEF Types, LineTypes
    <3> QED
      BY <3>1, ElementOf DEF InFlight
  <2>7. Covered(fifo[1]) = Computed /\ IsCheck(fifo[1])
    BY <2>1 DEF Covered, IsCheck
  <2>8. ASSUME ~ twin
        PROVE  fifo[1].id = calls /\ answer.sent /\ Computed = TheAnswer
    BY <1>1, <2>5, <2>6, <2>7, <2>8 DEF Honest, ChecksumsAreOurs, Fits
  <2>9. ASSUME ~ twin
        PROVE  Payload = answer.payload /\ answer.ack = 0
    <3> DEFINE h == Header(op, Number, answer.ack, answer.payload)
               q == answer.payload
               x == Payload
    <3>1. q \in Seq(Nat) /\ answer.ack \in Nat
      BY DEF Types, CountTypes, Answers
    <3>2. h \in Seq(Nat) /\ Len(h) = 4 /\ h[3] = answer.ack
      BY <3>1, Constants, NumberIsNat DEF Header, Types, HostTypes
    <3>3. hdr \o x = h \o q
      BY <2>8, <2>9 DEF Computed, TheAnswer
    <3> HIDE DEF h, q, x
    <3>4. x = q /\ hdr[3] = h[3]
      <4>1. hdr \in Seq(Nat) /\ Len(hdr) = 4 /\ x \in Seq(Nat)
        BY <2>4 DEF x
      <4> DEFINE N == Nat
      <4>2. hdr \in Seq(N) /\ x \in Seq(N) /\ h \in Seq(N) /\ q \in Seq(N)
        BY <3>1, <3>2, <4>1
      <4>3. Len(hdr) = Len(h)
        BY <3>2, <4>1
      <4> HIDE DEF N
      <4>4. x = q
        BY <3>3, <4>2, <4>3, SameRest, Zenon
      <4>5. \A k \in 1 .. Len(hdr) : hdr[k] = h[k]
        BY <3>3, <4>2, <4>3, SameRest, SMT
      <4> QED
        BY <4>1, <4>4, <4>5
    <3> QED
      BY <2>3, <3>2, <3>4 DEF q, x
  <2>9a. Payload \in AckPayloads
    <3>1. PICK o, n, a \in Nat : \E p \in Seq(Nat) :
              Computed = Header(o, n, a, p) \o p /\ (a = 0 => p \in AckPayloads)
      BY <2>6, <2>7 DEF Honest, ChecksumsAreAnswers, IsAnswer
    <3>2. PICK q \in Seq(Nat) :
              Computed = Header(o, n, a, q) \o q /\ (a = 0 => q \in AckPayloads)
      BY <3>1
    <3> DEFINE h == Header(o, n, a, q)
               x == Payload
    <3>3. h \in Seq(Nat) /\ Len(h) = 4 /\ h[3] = a
      BY DEF Header
    <3>4. hdr \o x = h \o q
      BY <3>2 DEF Computed
    <3> HIDE DEF h, x
    <3>5. x = q /\ hdr[3] = h[3]
      <4>1. hdr \in Seq(Nat) /\ Len(hdr) = 4 /\ x \in Seq(Nat)
        BY <2>4 DEF x
      <4> DEFINE N == Nat
      <4>2. hdr \in Seq(N) /\ x \in Seq(N) /\ h \in Seq(N) /\ q \in Seq(N)
        BY <3>3, <4>1
      <4>3. Len(hdr) = Len(h)
        BY <3>3, <4>1
      <4> HIDE DEF N
      <4>4. x = q
        BY <3>4, <4>2, <4>3, SameRest, Zenon
      <4>5. \A k \in 1 .. Len(hdr) : hdr[k] = h[k]
        BY <3>4, <4>2, <4>3, SameRest, SMT
      <4> QED
        BY <4>1, <4>4, <4>5
    <3> QED
      BY <2>3, <3>2, <3>3, <3>5 DEF x
  <2>10. Exact(r) = r \/ Exact(r).code # "OK"
    BY DEF Exact, Failure
  <2>11. r.data = Payload
    BY <2>1, <2>2 DEF Success
  <2> HIDE DEF r
  <2>12. result' = Exact(r)
    BY <1>1 DEF Return
  <2> QED
    BY <1>1, <2>8, <2>9, <2>9a, <2>10, <2>11, <2>12 DEF SuccessIsTheAnswer
<1> QED
  BY <1>2, <1>3

LEMMA HostStepIsHonest ==
    ASSUME Types, Honest, Host \/ ScanClockFails
    PROVE  Honest'
<1> USE DEF hostVars
<1>1. /\ InFlight' \subseteq InFlight
      /\ UNCHANGED <<op, answer, calls, pending, twin>>
      /\ pc # "idle"
  BY HostTakes DEF Takes, InFlight
<1>2. pc' # "idle" => message_num' = message_num
  BY DEF Host, ScanByte, ScanTimeout, ScanClockFails, ReadHeader, HeaderTimeout,
     Drain, DrainEnds, ReadPayload, PayloadTimeout, ReadChecksum, ChecksumTimeout,
     Return
<1>3. ChecksumsAreOurs' /\ ChecksumsAreAnswers' /\ PendingIsOurs'
  BY <1>1, <1>2, HonestLess
<1>r. ASSUME NEW r, Return(r)
      PROVE  HeaderIsOurs'
  BY <1>r DEF Return, HeaderIsOurs, NoResult, Failure
<1>f. ASSUME NEW c \in Codes, c # "OK", Return(Failure(c))
      PROVE  HeaderIsOurs' /\ SuccessIsTheAnswer'
  BY <1>r, <1>f, FailureIsHonest DEF Failure
<1>4. CASE ScanTimeout \/ ScanClockFails \/ HeaderTimeout \/ DrainEnds
  BY <1>3, <1>4, <1>f DEF ScanTimeout, ScanClockFails, HeaderTimeout, DrainEnds,
     Codes, Honest
<1>5. CASE ScanByte
  <2>1. CASE pc' \in {"header", "scan"} /\ UNCHANGED hostVars
    BY <1>3, <2>1 DEF Honest, HeaderIsOurs, SuccessIsTheAnswer
  <2>2. CASE Return(Failure("TIMEOUT"))
    BY <1>3, <2>2, <1>f DEF Codes, Honest
  <2> QED
    BY <1>5, <2>1, <2>2 DEF ScanByte
<1>6. CASE ReadHeader
  <2>1. ret_value' = HeaderError(hdr') /\ Number' = Number /\ op' = op
    BY <1>6 DEF ReadHeader, Number
  <2>2. ret_value'.code # "OK"
    BY <2>1 DEF HeaderError, Nack, NoResult, Failure
  <2>3. ret_value' = NoResult => hdr'[1] = op /\ hdr'[2] = Number /\ hdr'[3] = 0
    BY <2>1 DEF HeaderError, Nack, NoResult, Failure
  <2>4. HeaderIsOurs'
    BY <2>1, <2>2, <2>3 DEF HeaderIsOurs
  <2>5. SuccessIsTheAnswer'
    BY <1>6 DEF ReadHeader, SuccessIsTheAnswer
  <2> QED
    BY <1>3, <2>4, <2>5 DEF Honest
<1>7. CASE Drain \/ ReadPayload \/ PayloadTimeout
  <2>1. /\ pc' # "idle" /\ UNCHANGED <<hdr, ret_value, op, message_num>>
        /\ pc' \in {"payload", "checksum"} => pc = "payload"
    BY <1>7 DEF Drain, ReadPayload, PayloadTimeout
  <2>2. HeaderIsOurs'
    BY <2>1 DEF Honest, HeaderIsOurs, Number
  <2> QED
    BY <1>3, <2>1, <2>2 DEF Honest, SuccessIsTheAnswer
<1>8. CASE ReadChecksum
  BY <1>3, <1>8, <1>r, ReadChecksumIsHonest DEF ReadChecksum, Honest
<1>9. CASE ChecksumTimeout
  <2>1. PICK r : Return(r) /\ guessed'
    BY <1>9 DEF ChecksumTimeout
  <2> QED
    BY <1>3, <1>r, <2>1, FailureIsHonest DEF Honest
<1> QED
  BY <1>3, <1>4, <1>5, <1>6, <1>7, <1>8, <1>9 DEF Host, Honest

\* The module answers: if the running call, then for the first time.
LEMMA AnswerIsHonest ==
    ASSUME Types, Honest, NEW a \in Nat, NEW p \in Seq(Nat), Answer(a, p),
           a = 0 => p \in AckPayloads
    PROVE  Honest'
<1> DEFINE c == Head(pending)
           mine == c.op \in Ops /\ c.id = calls
<1>1. /\ c \in PendingCommands /\ c = pending[1] /\ pending # <<>>
      /\ pending' = Tail(pending)
      /\ InFlight' \subseteq InFlight \cup Range(Frame(c, a, p))
  BY AnswerPuts
<1>2. UNCHANGED <<pc, message_num, op, hdr, ret_value, result, calls, from, guessed,
                  twin>>
  BY DEF Answer, hostVars
<1>3. /\ mine => answer'.ack = a /\ answer'.payload = p /\ answer'.sent
      /\ ~ mine => answer' = answer
  BY DEF Answer
<1>4. 1 \in DOMAIN pending
  <2>1. pending \in Seq(PendingCommands)
    BY DEF Types, LineTypes
  <2> QED
    BY <1>1, <2>1
<1> HIDE DEF c
<1>5. mine => ~ answer.sent
  BY <1>1, <1>4 DEF Honest, PendingIsOurs
<1>6. PendingIsOurs'
  <2>1. \A k \in DOMAIN pending' : k + 1 \in DOMAIN pending /\ k + 1 # 1
                                   /\ pending'[k] = pending[k + 1]
    BY <1>1, TailTypes
  <2>2. ASSUME NEW k \in DOMAIN pending', pending'[k].op \in Ops,
               pending'[k].id = calls
        PROVE  ~ mine
    BY <1>1, <1>4, <2>1, <2>2 DEF Honest, PendingIsOurs
  <2>3. ASSUME NEW k \in DOMAIN pending', pending'[k].op \in Ops,
               pending'[k].id = calls,
               NEW j \in DOMAIN pending', pending'[j].op \in Ops,
               pending'[j].id = calls
        PROVE  j = k
    <3>1. k + 1 \in DOMAIN pending /\ j + 1 \in DOMAIN pending
          /\ pending[k + 1].op \in Ops /\ pending[k + 1].id = calls
          /\ pending[j + 1].op \in Ops /\ pending[j + 1].id = calls
      BY <2>1, <2>3
    <3>2. j + 1 = k + 1
      BY <3>1 DEF Honest, PendingIsOurs
    <3>3. k \in Nat /\ j \in Nat
      BY <1>1, TailTypes, <2>3
    <3> QED
      BY <3>2, <3>3
  <2>4. ASSUME NEW k \in DOMAIN pending', pending'[k].op \in Ops,
               pending'[k].id = calls
        PROVE  ~ answer'.sent
    BY <1>3, <2>1, <2>2, <2>4 DEF Honest, PendingIsOurs
  <2>5. pc # "idle" /\ ~ twin => \A k \in DOMAIN pending' :
            pending'[k].op = op /\ pending'[k].num = Number => pending'[k].id = calls
    BY <2>1 DEF Honest, PendingIsOurs
  <2>6. Number' = Number
    BY <1>2 DEF Number
  <2> QED
    BY <1>2, <2>3, <2>4, <2>5, <2>6 DEF PendingIsOurs
<1>7. ChecksumsAreOurs'
  <2> SUFFICES ASSUME pc # "idle", ~ twin, NEW b \in InFlight', Fits(b)
               PROVE  b.id = calls /\ answer'.sent /\ Covered(b) = TheAnswer'
    <3>1. Number' = Number
      BY <1>2 DEF Number
    <3> QED
      BY <1>2, <3>1 DEF ChecksumsAreOurs, Fits
  <2>1. Number' = Number /\ op' = op
    BY <1>2 DEF Number
  <2>2. CASE b \in InFlight
    <3>1. b.id = calls /\ answer.sent /\ Covered(b) = TheAnswer
      BY <2>2 DEF Honest, ChecksumsAreOurs
    <3>2. answer' = answer
      BY <1>3, <1>5, <3>1
    <3> QED
      BY <2>1, <3>1, <3>2 DEF TheAnswer
  <2>3. CASE b \in Range(Frame(c, a, p))
    <3>1. b.id = c.id /\ Covered(b) = Header(c.op, c.num, a, p) \o p
      <4>1. IsCheck(b)
        BY DEF Fits
      <4>2. c \in PendingCommands
        BY <1>1
      <4> DEFINE whole == Header(c.op, c.num, a, p) \o p
      <4>3. \A x \in Range(Frame(c, a, p)) :
               x.id = c.id /\ (IsCheck(x) => Covered(x) = whole)
        BY <4>2, FrameTypes
      <4> HIDE DEF whole
      <4>4. b.id = c.id /\ Covered(b) = whole
        BY <2>3, <4>1, <4>3
      <4> QED
        BY <4>4 DEF whole
    <3>2. Covered(b)[1] = c.op /\ Covered(b)[2] = c.num
      <4> DEFINE h == Header(c.op, c.num, a, p)
      <4>1. h \in Seq(Nat) /\ Len(h) = 4 /\ h[1] = c.op /\ h[2] = c.num
        BY <1>1 DEF Header, PendingCommands
      <4> HIDE DEF h
      <4>2. \A k \in 1 .. Len(h) : (h \o p)[k] = h[k]
        BY <4>1, ConcatAt
      <4>3. 1 \in 1 .. Len(h) /\ 2 \in 1 .. Len(h)
        BY <4>1
      <4>4. (h \o p)[1] = c.op /\ (h \o p)[2] = c.num
        BY <4>1, <4>2, <4>3
      <4> QED
        BY <3>1, <4>4 DEF h
    <3>3. c.op = op /\ c.num = Number
      BY <3>2 DEF Fits
    <3>4. c.id = calls /\ op \in Ops
      BY <1>1, <1>4, <3>3 DEF Honest, PendingIsOurs, Types, HostTypes
    <3>5. answer'.ack = a /\ answer'.payload = p /\ answer'.sent
      BY <1>3, <3>3, <3>4
    <3> QED
      BY <2>1, <3>1, <3>3, <3>4, <3>5 DEF TheAnswer
  <2> QED
    BY <1>1, <2>2, <2>3
<1>8. HeaderIsOurs'
  BY <1>2 DEF Honest, HeaderIsOurs, Number
<1>9. SuccessIsTheAnswer'
  BY <1>2, <1>3, <1>5 DEF Honest, SuccessIsTheAnswer
<1>10. ChecksumsAreAnswers'
  <2> SUFFICES ASSUME NEW b \in Range(Frame(c, a, p)), IsCheck(b)
               PROVE  IsAnswer(Covered(b))
    BY <1>1 DEF Honest, ChecksumsAreAnswers
  <2>1. c.op \in Nat /\ c.num \in Nat
    BY <1>1 DEF PendingCommands
  <2> DEFINE whole == Header(c.op, c.num, a, p) \o p
  <2>2. \A x \in Range(Frame(c, a, p)) : IsCheck(x) => Covered(x) = whole
    BY <1>1, FrameTypes
  <2>3. IsAnswer(whole)
    BY <2>1 DEF IsAnswer
  <2> HIDE DEF whole
  <2> QED
    BY <2>2, <2>3
<1> QED
  BY <1>6, <1>7, <1>8, <1>9, <1>10 DEF Honest

LEMMA ModuleStepIsHonest ==
    ASSUME Types, Honest, Module
    PROVE  Honest'
<1> USE DEF hostVars, history
<1>1. CASE NoReply
  <2>1. /\ pending' = Tail(pending) /\ pending # <<>>
        /\ UNCHANGED <<pc, hostVars, fifo, wire, from, history>>
    BY <1>1 DEF NoReply
  <2>2. \A k \in DOMAIN pending' : k + 1 \in DOMAIN pending /\ k \in Nat
                                   /\ pending'[k] = pending[k + 1]
    BY <2>1, TailTypes
  <2>3. PendingIsOurs'
    <3>1. ASSUME NEW k \in DOMAIN pending', NEW j \in DOMAIN pending',
                 k + 1 = j + 1
          PROVE  k = j
      BY <2>2, <3>1
    <3> QED
      BY <2>1, <2>2, <3>1 DEF Honest, PendingIsOurs, Number
  <2>4. ChecksumsAreOurs' /\ ChecksumsAreAnswers'
    BY <2>1, HonestLess DEF InFlight
  <2> QED
    BY <2>1, <2>3, <2>4 DEF Honest, HeaderIsOurs, SuccessIsTheAnswer, Number
<1>2. CASE Arrive
  <2>1. UNCHANGED <<pc, hostVars, pending, from, history>>
    BY <1>2 DEF Arrive
  <2>2. ChecksumsAreOurs' /\ ChecksumsAreAnswers' /\ PendingIsOurs'
    BY <1>2, <2>1, ArriveMoves, HonestLess
  <2> QED
    BY <2>1, <2>2 DEF Honest, HeaderIsOurs, SuccessIsTheAnswer, Number
<1>3. ASSUME NEW p \in AckPayloads, Answer(0, p)
      PROVE  Honest'
  BY <1>3, AnswerIsHonest, Constants
<1>4. ASSUME NEW a \in Nacks, NEW p \in NackPayloads, Answer(a, p)
      PROVE  Honest'
  BY <1>4, AnswerIsHonest, Constants
<1> QED
  BY <1>1, <1>2, <1>3, <1>4 DEF Module

\* Without a twin, nothing in flight fits the call about to be made.
LEMMA CallIsHonest ==
    ASSUME Types, Honest, NEW o \in Ops, Call(o)
    PROVE  Honest'
<1> DEFINE c == [op |-> o, num |-> Number, id |-> calls + 1]
<1>1. /\ pc = "idle" /\ pc' = "scan" /\ op' = o /\ result' = NoResult
      /\ UNCHANGED <<hdr, ret_value, buf, message_num, fifo, wire>>
      /\ calls' = calls + 1 /\ answer' = NoAnswer /\ twin' = HasTwin(o)
      /\ pending' = Append(pending, c) \/ pending' = pending
  BY DEF Call
<1>2. c \in PendingCommands /\ c.op = o /\ c.id = calls + 1
  BY Constants, NumberIsNat, IdsAreCalls DEF PendingCommands, Types, HostTypes
<1> HIDE DEF c
<1>3. Number' = Number
  BY <1>1 DEF Number
<1>4. ChecksumsAreOurs'
  <2> SUFFICES ASSUME ~ HasTwin(o), NEW b \in InFlight, IsCheck(b), Covered(b)[1] = o,
                      Covered(b)[2] = Number
               PROVE  FALSE
    BY <1>1, <1>3 DEF ChecksumsAreOurs, Fits, InFlight
  <2> DEFINE line == fifo \o wire
  <2>1. line \in Seq(Bytes) /\ Range(line) = InFlight
    BY ConcatOf DEF Types, LineTypes, InFlight
  <2>2. \A k \in DOMAIN line :
           line[k].sum # <<>> => line[k].sum[1][2] # Number \/ line[k].sum[1][1] # o
    BY DEF HasTwin
  <2> HIDE DEF line
  <2>3. PICK k \in DOMAIN line : line[k] = b
    BY <2>1 DEF Range
  <2> QED
    BY <2>2, <2>3 DEF IsCheck, Covered
<1>5. PendingIsOurs'
  <2>1. \A k \in DOMAIN pending :
           /\ pending[k].id # calls + 1
           /\ ~ HasTwin(o) => pending[k].op # o \/ pending[k].num # Number
    BY <1>1, IdsAreCalls DEF HasTwin
  <2>2. ~ NoAnswer.sent
    BY DEF NoAnswer
  <2>3. CASE pending' = pending
    BY <1>1, <1>3, <2>1, <2>3 DEF PendingIsOurs
  <2>4. CASE pending' = Append(pending, c)
    <3>1. DOMAIN pending = 1 .. Len(pending) /\ Len(pending) \in Nat
      BY DEF Types, LineTypes
    <3>2. /\ DOMAIN pending' = 1 .. Len(pending) + 1
          /\ \A k \in 1 .. Len(pending) : pending'[k] = pending[k]
          /\ pending'[Len(pending) + 1] = c
      BY <1>2, <2>4, AppendTypes
    <3>3. \A k \in DOMAIN pending' : k \in DOMAIN pending \/ k = Len(pending) + 1
      BY <3>1, <3>2
    <3>4. \A k \in DOMAIN pending :
             /\ pending'[k].id # calls + 1
             /\ ~ HasTwin(o) => pending'[k].op # o \/ pending'[k].num # Number
      BY <2>1, <3>1, <3>2
    <3>5. \A k \in DOMAIN pending' : pending'[k].id = calls + 1 => k = Len(pending) + 1
      BY <3>3, <3>4
    <3>6. ~ HasTwin(o) => \A k \in DOMAIN pending' : pending'[k].op = o /\ pending'[k].num = Number
                                     => pending'[k].id = calls + 1
      BY <1>2, <3>2, <3>3, <3>4
    <3> QED
      BY <1>1, <1>3, <2>2, <3>5, <3>6 DEF PendingIsOurs
  <2> QED
    BY <1>1, <2>3, <2>4
<1>6. HeaderIsOurs' /\ SuccessIsTheAnswer' /\ ChecksumsAreAnswers'
  BY <1>1 DEF Honest, HeaderIsOurs, SuccessIsTheAnswer, ChecksumsAreAnswers, InFlight
<1> QED
  BY <1>4, <1>5, <1>6 DEF Honest

LEMMA HonestStep == Types /\ Honest /\ [Next]_vars => Honest'
<1> SUFFICES ASSUME Types, Honest, [Next]_vars PROVE Honest'
  OBVIOUS
<1> USE DEF hostVars, lineVars, history
<1>1. CASE BadParameter \/ ResetState
  <2>1. /\ pc = "idle" /\ pc' = "idle" /\ result'.code # "OK"
        /\ UNCHANGED <<ret_value, fifo, wire, pending, calls, answer>>
    BY <1>1 DEF BadParameter, ResetState, Failure, NoResult
  <2> QED
    BY <2>1 DEF Honest, ChecksumsAreOurs, ChecksumsAreAnswers, InFlight, PendingIsOurs,
       HeaderIsOurs, SuccessIsTheAnswer
<1>2. CASE \E o \in Ops : Call(o)
  BY <1>2, CallIsHonest
<1>3. CASE BootloaderMode
  <2>1. /\ pc = "idle" /\ UNCHANGED <<pc, hostVars, fifo, wire, calls, from, twin, answer,
                                      guessed>>
    BY <1>3 DEF BootloaderMode
  <2>2. \A k \in DOMAIN pending' :
           pending'[k].op \in Ops => k \in DOMAIN pending /\ pending'[k] = pending[k]
    BY <1>3, BootloaderAdds
  <2>3. PendingIsOurs'
    BY <2>1, <2>2 DEF Honest, PendingIsOurs
  <2> QED
    BY <2>1, <2>3 DEF Honest, ChecksumsAreOurs, ChecksumsAreAnswers, InFlight,
       HeaderIsOurs, SuccessIsTheAnswer
<1>4. CASE Host \/ ScanClockFails
  BY <1>4, HostStepIsHonest
<1>5. CASE Module
  BY <1>5, ModuleStepIsHonest
<1>6. CASE Spins \/ UNCHANGED vars
  BY <1>6 DEF vars, Spins, Honest, ChecksumsAreOurs, ChecksumsAreAnswers, PendingIsOurs,
     HeaderIsOurs, SuccessIsTheAnswer, InFlight, Fits, TheAnswer, Number
<1>7. CASE HangsUp
  <2>1. pc # "idle" /\ pc' = "hung" /\ UNCHANGED <<hostVars, lineVars, from, history>>
    BY <1>7 DEF HangsUp
  <2>2. ChecksumsAreOurs' /\ ChecksumsAreAnswers' /\ PendingIsOurs'
    BY <2>1, HonestLess DEF InFlight
  <2> QED
    BY <2>1, <2>2 DEF Honest, HeaderIsOurs, SuccessIsTheAnswer
<1> QED
  BY <1>1, <1>2, <1>3, <1>4, <1>5, <1>6, <1>7 DEF Next

\* SuccessIsTheAnswer: what a call hands over is a positive answer of the module,
\* provided the two bytes of the checksum were read; and the answer to this call,
\* whatever earlier calls left in the FIFO, provided no command with its opcode
\* and number was in flight when it began.
THEOREM SuccessIsEarned == Spec => []SuccessIsTheAnswer
<1>1. Honest => SuccessIsTheAnswer
  BY DEF Honest
<1> QED
  BY <1>1, AlwaysTypes, HonestInit, HonestStep, PTL DEF Spec

-----------------------------------------------------------------------------
(* hal_read_write implements CommandChannel. The steps that matter are those
   that return: a success is one of the channel by SuccessIsTheAnswer; a failure
   is one if the call returns anything at all, which needs ErrorsAreNamed. *)

(* Sequences mapped element by element *)

LEMMA TailOfMap ==
    ASSUME NEW S, NEW T, NEW f \in [S -> T], NEW s \in Seq(S), s # <<>>
    PROVE  LET m == [k \in DOMAIN s |-> f[s[k]]]
               n == [k \in DOMAIN Tail(s) |-> f[Tail(s)[k]]]
           IN  m # <<>> /\ n = Tail(m) /\ Head(m) = f[Head(s)]
<1> DEFINE m == [k \in DOMAIN s |-> f[s[k]]]
           n == [k \in DOMAIN Tail(s) |-> f[Tail(s)[k]]]
<1>1. /\ Len(s) \in Nat /\ Len(s) # 0 /\ DOMAIN s = 1 .. Len(s)
      /\ DOMAIN Tail(s) = 1 .. Len(s) - 1
      /\ \A k \in 1 .. Len(s) : s[k] \in S
      /\ \A k \in 1 .. Len(s) - 1 : Tail(s)[k] = s[k + 1]
      /\ Head(s) = s[1]
  OBVIOUS
<1>2. m \in Seq(T) /\ Len(m) = Len(s) /\ \A k \in 1 .. Len(s) : m[k] = f[s[k]]
  BY <1>1
<1>3. n \in Seq(T) /\ Len(n) = Len(s) - 1 /\ \A k \in 1 .. Len(s) - 1 : n[k] = m[k + 1]
  BY <1>1, <1>2
<1> HIDE DEF m, n
<1>4. m # <<>> /\ Head(m) = m[1]
  BY <1>1, <1>2
<1>5. n = Tail(m)
  BY <1>1, <1>2, <1>3
<1> QED
  BY <1>1, <1>2, <1>4, <1>5 DEF m, n

LEMMA AppendOfMap ==
    ASSUME NEW S, NEW T, NEW f \in [S -> T], NEW s \in Seq(S), NEW c \in S
    PROVE  LET m == [k \in DOMAIN s |-> f[s[k]]]
               n == [k \in DOMAIN Append(s, c) |-> f[Append(s, c)[k]]]
           IN  n = Append(m, f[c])
<1> DEFINE m == [k \in DOMAIN s |-> f[s[k]]]
           n == [k \in DOMAIN Append(s, c) |-> f[Append(s, c)[k]]]
<1>1. /\ Len(s) \in Nat /\ DOMAIN s = 1 .. Len(s)
      /\ DOMAIN Append(s, c) = 1 .. Len(s) + 1
      /\ \A k \in 1 .. Len(s) : s[k] \in S /\ Append(s, c)[k] = s[k]
      /\ Append(s, c)[Len(s) + 1] = c
  OBVIOUS
<1>2. m \in Seq(T) /\ Len(m) = Len(s) /\ \A k \in 1 .. Len(s) : m[k] = f[s[k]]
  BY <1>1
<1>3. /\ n \in Seq(T) /\ Len(n) = Len(s) + 1
      /\ \A k \in 1 .. Len(s) : n[k] = m[k]
      /\ n[Len(s) + 1] = f[c]
  BY <1>1, <1>2
<1> HIDE DEF m, n
<1>4. n = Append(m, f[c])
  BY <1>1, <1>2, <1>3
<1> QED
  BY <1>4 DEF m, n

-----------------------------------------------------------------------------
(* The channel's variables *)

\* The queue: commands s wait, and the last call is the i-th.
QueueOf(s, i) == [k \in DOMAIN s |->
    [cmd |-> s[k].op, mine |-> s[k].op \in Ops /\ s[k].id = i]]

ReplyOf(a) == [given |-> a.sent, nack |-> a.ack,
               data |-> IF a.ack = 0 THEN a.payload ELSE <<>>]

OutcomeOf(r, g) == CASE r.code = "NONE" -> [status |-> "none", data |-> <<>>]
                     [] r.code = "OK" /\ ~ g -> [status |-> "ok", data |-> r.data]
                     [] OTHER -> [status |-> "failed", data |-> <<>>]

Entries == [cmd : Nat, mine : BOOLEAN]
EntryOf(i) ==
    [c \in PendingCommands |-> [cmd |-> c.op, mine |-> c.op \in Ops /\ c.id = i]]

LEMMA QueueIsMapped ==
    ASSUME NEW s \in Seq(PendingCommands), NEW i
    PROVE  /\ QueueOf(s, i) = [k \in DOMAIN s |-> EntryOf(i)[s[k]]]
           /\ EntryOf(i) \in [PendingCommands -> Entries]
<1>1. \A k \in DOMAIN s : s[k] \in PendingCommands
  OBVIOUS
<1>2. EntryOf(i) \in [PendingCommands -> Entries]
  BY DEF EntryOf, Entries, PendingCommands
<1> QED
  BY <1>1, <1>2 DEF QueueOf, EntryOf

LEMMA QueueTail ==
    ASSUME NEW s \in Seq(PendingCommands), s # <<>>, NEW i
    PROVE  /\ QueueOf(s, i) # <<>> /\ QueueOf(Tail(s), i) = Tail(QueueOf(s, i))
           /\ Head(QueueOf(s, i)) = EntryOf(i)[Head(s)]
<1> DEFINE f == EntryOf(i)
<1>1. Tail(s) \in Seq(PendingCommands)
  OBVIOUS
<1>2. /\ QueueOf(s, i) = [k \in DOMAIN s |-> f[s[k]]]
      /\ QueueOf(Tail(s), i) = [k \in DOMAIN Tail(s) |-> f[Tail(s)[k]]]
      /\ f \in [PendingCommands -> Entries]
  BY <1>1, QueueIsMapped
<1> HIDE DEF f
<1> QED
  BY <1>2, TailOfMap DEF f

LEMMA QueueAppend ==
    ASSUME NEW s \in Seq(PendingCommands), NEW c \in PendingCommands, NEW i
    PROVE  QueueOf(Append(s, c), i) = Append(QueueOf(s, i), EntryOf(i)[c])
<1> DEFINE f == EntryOf(i)
<1>1. Append(s, c) \in Seq(PendingCommands)
  OBVIOUS
<1>2. /\ QueueOf(s, i) = [k \in DOMAIN s |-> f[s[k]]]
      /\ QueueOf(Append(s, c), i) = [k \in DOMAIN Append(s, c) |-> f[Append(s, c)[k]]]
      /\ f \in [PendingCommands -> Entries]
  BY <1>1, QueueIsMapped
<1> HIDE DEF f
<1> QED
  BY <1>2, AppendOfMap DEF f

\* Once another call is the last one, no command that waits is its.
LEMMA QueueOlder ==
    ASSUME NEW s \in Seq(PendingCommands), NEW i, NEW j,
           \A k \in DOMAIN s : s[k].id # j
    PROVE  QueueOf(s, j) = Channel!Older(QueueOf(s, i))
<1>1. DOMAIN QueueOf(s, i) = DOMAIN s
  BY DEF QueueOf
<1>2. \A k \in DOMAIN s : QueueOf(s, i)[k].cmd = s[k].op
  <2>1. \A c \in PendingCommands : EntryOf(i)[c].cmd = c.op
    BY DEF EntryOf
  <2>2. \A k \in DOMAIN s : s[k] \in PendingCommands
    OBVIOUS
  <2>3. \A k \in DOMAIN s : QueueOf(s, i)[k] = EntryOf(i)[s[k]]
    BY QueueIsMapped
  <2> QED
    BY <2>1, <2>2, <2>3
<1>3. QueueOf(s, j) = [k \in DOMAIN s |-> [cmd |-> s[k].op, mine |-> FALSE]]
  BY DEF QueueOf
<1> QED
  BY <1>1, <1>2, <1>3 DEF Channel!Older, Channel!Entry

-----------------------------------------------------------------------------
(* The actions of the channel *)

Busy == pc # "idle"
Queue == QueueOf(pending, calls)
Reply == ReplyOf(answer)
Outcome == OutcomeOf(result, guessed)

LEMMA CallCase ==
    ASSUME NEW c, ~ Busy, Busy',
           Queue' \in {Channel!Older(Queue),
                       Append(Channel!Older(Queue), Channel!Entry(c, TRUE))},
           answer' = NoAnswer, result' = NoResult, twin' \in BOOLEAN
    PROVE  Channel!Call(c)
<1>1. Reply' = Channel!NoReply
  BY DEF Reply, ReplyOf, NoAnswer, Channel!NoReply
<1>2. Outcome' = Channel!NoOutcome
  BY DEF Outcome, OutcomeOf, NoResult, Failure, Channel!NoOutcome
<1> QED
  BY <1>1, <1>2 DEF Channel!Call, Busy, Queue, QueueOf, Reply, ReplyOf, Outcome, OutcomeOf

LEMMA PostCase ==
    ASSUME NEW c, ~ Busy,
           Queue' \in {Queue, Append(Queue, Channel!Entry(c, FALSE))},
           UNCHANGED <<pc, answer, result, guessed, twin>>
    PROVE  Channel!Post(c)
  BY DEF Channel!Post, Busy, Queue, QueueOf

LEMMA RefuseCase ==
    ASSUME ~ Busy, UNCHANGED <<pc, pending, calls, answer, twin>>,
           result'.code # "OK"
    PROVE  Channel!Refuse
<1>1. Outcome' \in {Channel!Failed, Channel!NoOutcome}
  BY DEF Outcome, OutcomeOf, Channel!Failed, Channel!NoOutcome
<1> QED
  BY <1>1 DEF Channel!Refuse, Busy, Outcome, OutcomeOf

LEMMA FailCase ==
    ASSUME Busy, ~ Busy', UNCHANGED <<pending, calls, answer, twin>>,
           result'.code # "NONE", result'.code = "OK" => guessed'
    PROVE  Channel!Fail
<1>1. Outcome' = Channel!Failed
  BY DEF Outcome, OutcomeOf, Channel!Failed
<1> QED
  BY <1>1 DEF Channel!Fail, Busy, Outcome, OutcomeOf

LEMMA SucceedCase ==
    ASSUME Busy, ~ Busy', UNCHANGED <<pending, calls, answer, twin>>,
           result'.code = "OK", ~ guessed', answer.sent, answer.ack = 0,
           result'.data = answer.payload
    PROVE  Channel!Succeed
<1>1. Outcome' = Channel!Succeeded(answer.payload)
  BY DEF Outcome, OutcomeOf, Channel!Succeeded
<1> QED
  BY <1>1 DEF Channel!Succeed, Busy, Outcome, OutcomeOf

LEMMA DoubtCase ==
    ASSUME NEW p, Busy, ~ Busy', UNCHANGED <<pending, calls, answer, twin>>,
           result'.code = "OK", ~ guessed', twin, result'.data = p
    PROVE  Channel!SucceedInDoubt(p)
<1>1. Outcome' = Channel!Succeeded(p)
  BY DEF Outcome, OutcomeOf, Channel!Succeeded
<1> QED
  BY <1>1 DEF Channel!SucceedInDoubt, Busy, Outcome, OutcomeOf

LEMMA ExecuteCase ==
    ASSUME NEW a, Queue # <<>>, Queue' = Tail(Queue),
           Reply' = IF Head(Queue).mine THEN a ELSE Reply,
           UNCHANGED <<pc, result, guessed, twin>>
    PROVE  Channel!Execute(a)
  BY DEF Channel!Execute, Queue, QueueOf, Reply, ReplyOf

LEMMA DropCase ==
    ASSUME Queue # <<>>, Queue' = Tail(Queue),
           UNCHANGED <<pc, answer, result, guessed, twin>>
    PROVE  Channel!Drop
  BY DEF Channel!Drop, Queue, QueueOf

LEMMA StutterCase ==
    ASSUME UNCHANGED <<Busy, pending, calls, answer, result, guessed, twin>>
    PROVE  UNCHANGED Channel!vars
  BY DEF Channel!vars, Busy

-----------------------------------------------------------------------------
(* Every step is one of the channel *)

\* What recv_packet found wrong with a header has a name.
ErrorsAreNamed == ret_value.code = "NONE" => ret_value = NoResult

LEMMA ErrorsStayNamed == Types /\ ErrorsAreNamed /\ [Next]_vars => ErrorsAreNamed'
<1> SUFFICES ASSUME Types, ErrorsAreNamed, [Next]_vars PROVE ErrorsAreNamed'
  OBVIOUS
<1>1. ret_value' = ret_value \/ ret_value' = NoResult \/ ReadHeader
  BY DEF Next, vars, hostVars, BadParameter, Call, BootloaderMode, ResetState, Host,
     ScanByte, ScanTimeout, ScanClockFails, HeaderTimeout, Drain, DrainEnds,
     ReadPayload, PayloadTimeout, ReadChecksum, ChecksumTimeout, Return, HangsUp, Spins,
     Module, Answer, NoReply, Arrive
<1>2. CASE ReadHeader
  BY <1>2 DEF ReadHeader, HeaderError, Nack, Failure, NoResult, ErrorsAreNamed
<1> QED
  BY <1>1, <1>2 DEF ErrorsAreNamed

Known == Types /\ Honest /\ ErrorsAreNamed

LEMMA AlwaysKnown == Spec => []Known
<1>1. Init => Known
  BY TypesInit, HonestInit DEF Known, Init, ErrorsAreNamed
<1>2. Known /\ [Next]_vars => Known'
  BY TypesStep, HonestStep, ErrorsStayNamed DEF Known
<1> QED
  BY <1>1, <1>2, PTL DEF Spec

LEMMA HostStepIsOfChannel ==
    ASSUME Known, Known', Host \/ ScanClockFails
    PROVE  \/ Channel!Fail \/ Channel!Succeed
           \/ \E p \in AckPayloads : Channel!SucceedInDoubt(p)
           \/ UNCHANGED Channel!vars
<1> USE DEF hostVars, history
<1>1. Busy /\ UNCHANGED <<pending, calls, answer, twin>>
  BY HostTakes DEF Known, Takes, Busy
<1>2. CASE pc' # "idle"
  <2>1. UNCHANGED <<result, guessed>>
    BY <1>2 DEF Host, ScanByte, ScanTimeout, ScanClockFails, ReadHeader,
       HeaderTimeout, Drain, DrainEnds, ReadPayload, PayloadTimeout, ReadChecksum,
       ChecksumTimeout, Return
  <2> QED
    BY <1>1, <1>2, <2>1, StutterCase DEF Busy
<1>3. CASE pc' = "idle"
  <2>1. PICK r : Return(r) /\ r.code # "NONE"
    <3>1. \A c : c # "NONE" => Failure(c).code # "NONE"
      BY DEF Failure
    <3>2. Verdict.code # "NONE"
      BY DEF Known, ErrorsAreNamed, Verdict, Success
    <3>3. CASE ReadChecksum \/ ChecksumTimeout
      BY <3>1, <3>2, <3>3 DEF ReadChecksum, ChecksumTimeout
    <3>4. CASE ScanByte \/ ScanTimeout \/ ScanClockFails \/ HeaderTimeout \/ DrainEnds
      BY <1>3, <3>1, <3>4 DEF ScanByte, ScanTimeout, ScanClockFails, HeaderTimeout,
         DrainEnds
    <3>5. ~ (ReadHeader \/ Drain \/ ReadPayload \/ PayloadTimeout)
      BY <1>3 DEF ReadHeader, Drain, ReadPayload, PayloadTimeout
    <3> QED
      BY <3>3, <3>4, <3>5 DEF Host
  <2>2. result'.code # "NONE"
    BY <2>1 DEF Return, Exact, Failure
  <2>3. ~ Busy'
    BY <1>3 DEF Busy
  <2>4. CASE result'.code = "OK" => guessed'
    BY <1>1, <2>2, <2>3, <2>4, FailCase
  <2>5. CASE result'.code = "OK" /\ ~ guessed' /\ ~ twin
    <3>1. answer.sent /\ answer.ack = 0 /\ result'.data = answer.payload
      BY <1>1, <1>3, <2>5 DEF Known, Honest, SuccessIsTheAnswer
    <3> QED
      BY <1>1, <2>3, <2>5, <3>1, SucceedCase
  <2>6. CASE result'.code = "OK" /\ ~ guessed' /\ twin
    <3>1. result'.data \in AckPayloads
      BY <1>3, <2>6 DEF Known, Honest, SuccessIsTheAnswer
    <3> QED
      BY <1>1, <2>3, <2>6, <3>1, DoubtCase
  <2> QED
    BY <2>4, <2>5, <2>6
<1> QED
  BY <1>2, <1>3

LEMMA AnswerIsOfChannel ==
    ASSUME Known, NEW a \in Nat, NEW p \in Seq(Nat), Answer(a, p)
    PROVE  Channel!Execute(IF a = 0 THEN Channel!Acked(p) ELSE Channel!Nacked(a))
<1> DEFINE c == Head(pending)
           mine == c.op \in Ops /\ c.id = calls
           x == IF a = 0 THEN Channel!Acked(p) ELSE Channel!Nacked(a)
<1>1. /\ pending' = Tail(pending) /\ pending # <<>> /\ c \in PendingCommands
      /\ pending \in Seq(PendingCommands)
  BY AnswerPuts DEF Known, Types, LineTypes
<1>2. UNCHANGED <<pc, result, guessed, calls, twin>>
  BY DEF Answer, hostVars
<1>3. Queue # <<>> /\ Queue' = Tail(Queue) /\ Head(Queue) = EntryOf(calls)[c]
  BY <1>1, <1>2, QueueTail DEF Queue
<1>4. Head(Queue).mine = mine
  BY <1>1, <1>3 DEF EntryOf
<1>5. /\ mine => answer'.ack = a /\ answer'.payload = p /\ answer'.sent = TRUE
      /\ ~ mine => answer' = answer
  BY DEF Answer
<1>6. mine => Reply' = x
  BY <1>5 DEF Reply, ReplyOf, Channel!Acked, Channel!Nacked
<1>7. ~ mine => Reply' = Reply
  BY <1>5 DEF Reply
<1> HIDE DEF c, mine, x
<1>8. Reply' = IF Head(Queue).mine THEN x ELSE Reply
  BY <1>4, <1>6, <1>7
<1>9. Channel!Execute(x)
  BY <1>2, <1>3, <1>8, ExecuteCase
<1> QED
  BY <1>9 DEF x

LEMMA CallIsOfChannel ==
    ASSUME Known, NEW o \in Ops, Call(o)
    PROVE  Channel!Call(o)
<1> DEFINE c == [op |-> o, num |-> Number, id |-> calls + 1]
<1>1. /\ pc = "idle" /\ pc' = "scan" /\ answer' = NoAnswer /\ result' = NoResult
      /\ calls' = calls + 1 /\ twin' \in BOOLEAN
      /\ pending' = Append(pending, c) \/ pending' = pending
  BY DEF Call, HasTwin
<1>2. pending \in Seq(PendingCommands) /\ \A k \in DOMAIN pending : pending[k].id # calls + 1
  BY IdsAreCalls DEF Known, Types, LineTypes
<1>3. c \in PendingCommands /\ c.op = o /\ c.id = calls + 1
  BY Constants, NumberIsNat, IdsAreCalls DEF PendingCommands, Known, Types, HostTypes
<1> HIDE DEF c
<1>4. EntryOf(calls + 1)[c] = Channel!Entry(o, TRUE)
  BY <1>3 DEF EntryOf, Channel!Entry
<1>5. QueueOf(pending, calls + 1) = Channel!Older(Queue)
  BY <1>2, QueueOlder DEF Queue
<1>6. QueueOf(Append(pending, c), calls + 1)
      = Append(Channel!Older(Queue), Channel!Entry(o, TRUE))
  BY <1>2, <1>3, <1>4, <1>5, QueueAppend
<1>7. Queue' \in {Channel!Older(Queue),
                  Append(Channel!Older(Queue), Channel!Entry(o, TRUE))}
  BY <1>1, <1>5, <1>6 DEF Queue
<1> QED
  BY <1>1, <1>7, CallCase DEF Busy

LEMMA ChannelStep == Known /\ Known' /\ [Next]_vars => [Channel!Next]_(Channel!vars)
<1> SUFFICES ASSUME Known, Known', [Next]_vars
             PROVE  Channel!Next \/ UNCHANGED Channel!vars
  BY DEF Channel!vars
<1> USE DEF hostVars, lineVars, history
<1>t. pending \in Seq(PendingCommands)
  BY DEF Known, Types, LineTypes
<1>1. CASE BadParameter \/ ResetState
  <2>1. Channel!Refuse
    BY <1>1, RefuseCase DEF BadParameter, ResetState, Failure, NoResult, Busy
  <2> QED
    BY <2>1 DEF Channel!Next
<1>2. CASE \E o \in Ops : Call(o)
  BY <1>2, CallIsOfChannel DEF Channel!Next
<1>3. CASE BootloaderMode
  <2> DEFINE c == [op |-> Bootloader, num |-> Number, id |-> 0]
  <2>1. /\ pending' = Append(pending, c) \/ pending' = pending
        /\ ~ Busy /\ UNCHANGED <<pc, answer, result, guessed, calls, twin>>
    BY <1>3 DEF BootloaderMode, Busy
  <2>2. c \in PendingCommands /\ c.op = Bootloader /\ Bootloader \notin Ops
    BY Constants, NumberIsNat DEF PendingCommands, Known, Types, HostTypes
  <2> HIDE DEF c
  <2>3. EntryOf(calls)[c] = Channel!Entry(Bootloader, FALSE)
    BY <2>2 DEF EntryOf, Channel!Entry
  <2>4. Queue' \in {Queue, Append(Queue, Channel!Entry(Bootloader, FALSE))}
    <3>1. QueueOf(Append(pending, c), calls)
          = Append(Queue, Channel!Entry(Bootloader, FALSE))
      BY <1>t, <2>2, <2>3, QueueAppend DEF Queue
    <3> QED
      BY <2>1, <3>1 DEF Queue
  <2>5. Channel!Post(Bootloader)
    BY <2>1, <2>4, PostCase
  <2> QED
    BY <2>5 DEF Channel!Next
<1>4. CASE Host \/ ScanClockFails
  BY <1>4, HostStepIsOfChannel DEF Channel!Next
<1>5. ASSUME NEW p \in AckPayloads, Answer(0, p)
      PROVE  Channel!Next
  <2>1. Channel!Execute(Channel!Acked(p))
    BY <1>5, AnswerIsOfChannel, Constants
  <2> QED
    BY <2>1 DEF Channel!Next
<1>6. ASSUME NEW a \in Nacks, NEW p \in NackPayloads, Answer(a, p)
      PROVE  Channel!Next
  <2>1. Channel!Execute(Channel!Nacked(a))
    BY <1>6, AnswerIsOfChannel, Constants
  <2> QED
    BY <2>1 DEF Channel!Next
<1>7. CASE NoReply
  <2>1. /\ pending # <<>> /\ pending' = Tail(pending)
        /\ UNCHANGED <<pc, answer, result, guessed, calls, twin>>
    BY <1>7 DEF NoReply
  <2>2. Queue # <<>> /\ Queue' = Tail(Queue)
    BY <1>t, <2>1, QueueTail DEF Queue
  <2>3. Channel!Drop
    BY <2>1, <2>2, DropCase
  <2> QED
    BY <2>3 DEF Channel!Next
<1>8. CASE Arrive
  BY <1>8, StutterCase DEF Arrive, Busy
<1>9. CASE HangsUp \/ Spins \/ UNCHANGED vars
  BY <1>9, StutterCase DEF HangsUp, Spins, vars, Busy
<1> QED
  BY <1>1, <1>2, <1>3, <1>4, <1>5, <1>6, <1>7, <1>8, <1>9 DEF Next, Module

LEMMA ChannelInit == Init => Channel!Init
  BY DEF Init, Channel!Init, NoAnswer, NoResult, Failure, Channel!NoReply,
     Channel!NoOutcome

\* ImplementsChannel: whatever comes late, in pieces or not at all, and whatever
\* lies in the FIFO, a call of hal_read_write hands over the module's answer to
\* its own command or fails; or, begun with a command of its opcode and number in
\* flight, a positive answer of the module.
THEOREM HostImplementsChannel == Spec => ImplementsChannel
<1>1. Init /\ [][Next]_vars /\ []Known => Channel!Init /\ [][Channel!Next]_(Channel!vars)
  BY ChannelInit, ChannelStep, PTL
<1> QED
  BY <1>1, AlwaysKnown, PTL DEF Spec, ImplementsChannel, Channel!Spec

-----------------------------------------------------------------------------
(* A call made with nothing in flight *)

\* A header with a NACK ends the frame: recv_packet does not read a payload after
\* it, but goes on to the checksum.
NacksAreBare == NackPayloads \subseteq {<<>>}

Cmd == [op |-> op, num |-> Number, id |-> calls]
TheFrame == Frame(Cmd, answer.ack, answer.payload)
TheHeader == Header(op, Number, answer.ack, answer.payload)

\* s is f, l bytes long, less its first n bytes; so is the FIFO the answer.
Rests(s, f, n, l) ==
    /\ Len(s) + n = l
    /\ \A k \in 1 .. Len(s) : s[k] = f[n + k]

Left(n) == Rests(fifo, TheFrame, n, Len(answer.payload) + 7)

\* How far the host is in a whole answer.
Underway ==
    /\ answer.ack # 0 => answer.payload = <<>>
    /\ pc \in {"scan", "header"} => len = OutLen[op]
    /\ pc = "scan" => Left(0)
    /\ pc = "header" => Left(1)
    /\ pc \in {"payload", "checksum"} =>
          /\ hdr = TheHeader
          /\ len = Len(answer.payload) /\ len <= OutLen[op]
          /\ ret_value = IF answer.ack # 0 THEN Nack(answer.ack) ELSE NoResult
    /\ pc = "payload" => Left(5)
    /\ pc = "checksum" => Left(len + 5) /\ Payload = answer.payload
    /\ pc = "drain" => Len(answer.payload) > OutLen[op]

\* Until its answer comes, a call in step waits with an empty line; then nothing
\* else is in flight.
SyncInv ==
    pc \notin {"idle", "hung"} /\ in_sync =>
        IF answer.sent
        THEN pending = <<>> /\ (answer.whole => wire = <<>> /\ Underway)
        ELSE /\ pc = "scan" /\ len = OutLen[op]
             /\ fifo = <<>> /\ wire = <<>> /\ pending \in {<<>>, <<Cmd>>}

\* What is where in an answer.
FrameLayout(c, a, p) ==
    LET f == Frame(c, a, p)
        n == Len(p)
        s == Header(c.op, c.num, a, p) \o p
    IN  /\ f \in Seq(Bytes) /\ Len(f) = n + 7
        /\ f[1].val = SOF
        /\ f[2].val = c.op /\ f[3].val = c.num /\ f[4].val = a /\ f[5].val = n
        /\ \A k \in 1 .. n : f[k + 5].val = p[k]
        /\ f[n + 6].sum = <<s, 1>> /\ f[n + 7].sum = <<s, 2>>

LEMMA FrameIs ==
    ASSUME NEW c \in PendingCommands, NEW a \in Nat, NEW p \in Seq(Nat)
    PROVE  FrameLayout(c, a, p)
<1> DEFINE h == Header(c.op, c.num, a, p)
           s == h \o p
           t == <<SOF>> \o s
           plain == [k \in 1 .. Len(s) + 1 |-> Plain(t[k], c.id)]
           checks == <<Check(s, 1, c.id), Check(s, 2, c.id)>>
           n == Len(p)
<1> DEFINE f == Frame(c, a, p)
<1> HIDE DEF h, s, t, plain, checks, n, f
<1>1. /\ h \in Seq(Nat) /\ Len(h) = 4 /\ p \in Seq(Nat) /\ n \in Nat /\ n = Len(p)
      /\ h[1] = c.op /\ h[2] = c.num /\ h[3] = a /\ h[4] = n
  BY DEF Header, PendingCommands, h, n
<1>2. /\ s \in Seq(Nat) /\ Len(s) = n + 4
      /\ \A k \in 1 .. 4 : s[k] = h[k]
      /\ \A k \in 1 .. n : s[4 + k] = p[k]
  <2>1. s \in Seq(Nat)
    BY <1>1 DEF s
  <2>2. /\ Len(s) = Len(h) + Len(p)
        /\ \A k \in 1 .. Len(h) : s[k] = h[k]
        /\ \A k \in 1 .. Len(p) : s[Len(h) + k] = p[k]
    <3>1. h \in Seq(Nat) /\ p \in Seq(Nat)
      BY <1>1
    <3> QED
      BY <3>1 DEF s
  <2> QED
    BY <1>1, <2>1, <2>2
<1>3. /\ t \in Seq(Nat) /\ Len(t) = n + 5 /\ t[1] = SOF
      /\ \A k \in 1 .. n + 4 : t[k + 1] = s[k]
  BY <1>1, <1>2, Constants DEF t
<1>4. /\ Len(plain) = n + 5 /\ DOMAIN plain = 1 .. n + 5
      /\ \A k \in 1 .. n + 5 : plain[k] = Plain(t[k], c.id)
  <2>1. Len(s) + 1 = n + 5 /\ n + 5 \in Nat
    BY <1>1, <1>2
  <2> QED
    BY <2>1 DEF plain
<1>5. f = plain \o checks /\ f \in Seq(Bytes)
  BY FrameTypes DEF Frame, s, t, h, plain, checks, f
<1>6. plain \in Seq(Bytes) /\ checks \in Seq(Bytes)
  <2>1. \A k \in 1 .. n + 5 : t[k] \in Nat
    BY <1>1, <1>3
  <2>2. \A k \in 1 .. n + 5 : Plain(t[k], c.id) \in Bytes
    BY <2>1 DEF Plain, Bytes, PendingCommands
  <2>3. plain \in Seq(Bytes)
    <3>1. Len(s) + 1 \in Nat /\ \A k \in 1 .. Len(s) + 1 : Plain(t[k], c.id) \in Bytes
      BY <1>1, <1>2, <2>2
    <3> QED
      BY <3>1 DEF plain
  <2>4. checks \in Seq(Bytes)
    BY <1>2 DEF Check, Bytes, PendingCommands, checks
  <2> QED
    BY <2>3, <2>4
<1>7. Len(checks) = 2 /\ checks[1].sum = <<s, 1>> /\ checks[2].sum = <<s, 2>>
  BY DEF Check, checks
<1>8. /\ Len(f) = n + 7
      /\ \A k \in 1 .. n + 5 : f[k] = plain[k]
      /\ \A k \in 1 .. 2 : f[n + 5 + k] = checks[k]
  <2>1. /\ Len(f) = Len(plain) + Len(checks)
        /\ \A k \in 1 .. Len(plain) : f[k] = plain[k]
        /\ \A k \in 1 .. Len(checks) : f[Len(plain) + k] = checks[k]
    BY <1>5, <1>6, ConcatAt
  <2> QED
    BY <1>1, <1>4, <1>7, <2>1
<1>9. f \in Seq(Bytes)
  BY <1>5
<1>10. \A k \in 1 .. n + 5 : f[k].val = t[k]
  BY <1>4, <1>8 DEF Plain
<1>11. f[1].val = SOF
  <2>1. 1 \in 1 .. n + 5
    BY <1>1
  <2> QED
    BY <1>3, <1>10, <2>1
<1>12. /\ f[2].val = c.op /\ f[3].val = c.num /\ f[4].val = a /\ f[5].val = n
  <2>1. \A k \in 1 .. 4 : k \in 1 .. n + 4 /\ k + 1 \in 1 .. n + 5
    BY <1>1
  <2>2. \A k \in 1 .. 4 : f[k + 1].val = h[k]
    BY <1>2, <1>3, <1>10, <2>1
  <2>3. f[1 + 1].val = h[1] /\ f[2 + 1].val = h[2] /\ f[3 + 1].val = h[3]
        /\ f[4 + 1].val = h[4]
    BY <2>2
  <2> QED
    BY <1>1, <2>3
<1>13. \A k \in 1 .. n : f[k + 5].val = p[k]
  <2> SUFFICES ASSUME NEW k \in 1 .. n PROVE f[k + 5].val = p[k]
    OBVIOUS
  <2>1. 4 + k \in 1 .. n + 4 /\ (4 + k) + 1 = k + 5 /\ k + 5 \in 1 .. n + 5
    BY <1>1
  <2> QED
    BY <1>2, <1>3, <1>10, <2>1
<1>14. f[n + 6].sum = <<s, 1>> /\ f[n + 7].sum = <<s, 2>>
  <2>1. n + 5 + 1 = n + 6 /\ n + 5 + 2 = n + 7
    BY <1>1
  <2> QED
    BY <1>7, <1>8, <2>1
<1> QED
  BY <1>8, <1>9, <1>11, <1>12, <1>13, <1>14 DEF f, s, h, n, FrameLayout

\* What is left of an answer after m bytes more were read.
LEMMA LeftAfter ==
    ASSUME NEW s \in Seq(Bytes), NEW f, NEW n \in Nat, NEW l \in Nat,
           NEW m \in 0 .. Len(s), Rests(s, f, n, l)
    PROVE  Rests(SubSeq(s, m + 1, Len(s)), f, n + m, l)
<1> DEFINE r == SubSeq(s, m + 1, Len(s))
<1>1. Len(r) = Len(s) - m /\ \A k \in 1 .. Len(r) : r[k] = s[m + k]
  OBVIOUS
<1> HIDE DEF r
<1>2. Len(r) \in Nat /\ Len(r) + (n + m) = l
  <2>1. Len(s) + n = l /\ Len(s) \in Nat /\ Len(r) = Len(s) - m
    BY <1>1 DEF Rests
  <2>2. \A x \in Nat : \A y \in 0 .. x : x - y \in Nat /\ (x - y) + (n + y) = x + n
    OBVIOUS
  <2> QED
    BY <2>1, <2>2
<1>3. ASSUME NEW k \in 1 .. Len(r)
      PROVE  r[k] = f[(n + m) + k]
  <2>1. m + k \in 1 .. Len(s) /\ n + (m + k) = (n + m) + k
    BY <1>1
  <2>2. s[m + k] = f[n + (m + k)]
    BY <2>1 DEF Rests
  <2> QED
    BY <1>1, <2>1, <2>2
<1> QED
  BY <1>2, <1>3 DEF r, Rests

LEMMA TailIs ==
    ASSUME NEW S, NEW s \in Seq(S), s # <<>>
    PROVE  /\ Len(s) \in Nat /\ 1 <= Len(s) /\ Head(s) = s[1]
           /\ Tail(s) = SubSeq(s, 2, Len(s))
  OBVIOUS

\* Of the running call's answer.
LEMMA TheFrameIs ==
    ASSUME Types
    PROVE  LET n == Len(answer.payload) IN
           /\ n \in Nat /\ answer.payload \in Seq(Nat) /\ answer.ack \in Nat
           /\ TheFrame[1].val = SOF
           /\ TheFrame[2].val = op /\ TheFrame[3].val = Number
           /\ TheFrame[4].val = answer.ack /\ TheFrame[5].val = n
           /\ \A k \in 1 .. n : TheFrame[k + 5].val = answer.payload[k]
           /\ TheFrame[n + 6].sum = <<TheHeader \o answer.payload, 1>>
           /\ TheFrame[n + 7].sum = <<TheHeader \o answer.payload, 2>>
<1>1. Cmd \in PendingCommands
  BY NumberIsNat, Constants DEF Types, HostTypes, CountTypes, Cmd, PendingCommands
<1>2. answer.payload \in Seq(Nat) /\ answer.ack \in Nat
  BY DEF Types, CountTypes, Answers
<1>3. Len(answer.payload) \in Nat
  BY <1>2
<1>4. Cmd.op = op /\ Cmd.num = Number
  BY DEF Cmd
<1>5. TheHeader = Header(Cmd.op, Cmd.num, answer.ack, answer.payload)
  BY <1>4 DEF TheHeader
<1>6. TheFrame = Frame(Cmd, answer.ack, answer.payload)
  BY DEF TheFrame
<1>7. FrameLayout(Cmd, answer.ack, answer.payload)
  BY <1>1, <1>2, FrameIs
<1> QED
  BY <1>2, <1>3, <1>4, <1>5, <1>6, <1>7 DEF FrameLayout

\* The bytes transport_read has for the header are the header.
LEMMA HeaderIsRead ==
    ASSUME Types, Left(1)
    PROVE  /\ Len(fifo) >= 6
           /\ Values(SubSeq(fifo, 1, 4)) = TheHeader
<1> DEFINE n == Len(answer.payload)
<1>1. n \in Nat /\ fifo \in Seq(Bytes) /\ Len(fifo) \in Nat
  BY TheFrameIs DEF Types, LineTypes
<1>2. Len(fifo) = n + 6 /\ \A k \in 1 .. Len(fifo) : fifo[k] = TheFrame[1 + k]
  BY <1>1 DEF Left, Rests
<1>3. TheHeader = <<op, Number, answer.ack, n>>
  BY DEF TheHeader, Header
<1>4. /\ TheFrame[2].val = op /\ TheFrame[3].val = Number
      /\ TheFrame[4].val = answer.ack /\ TheFrame[5].val = n
  BY TheFrameIs
<1> HIDE DEF n
<1>5. Len(fifo) >= 6
  BY <1>1, <1>2
<1>6. \A k \in 1 .. 4 : fifo[k] = TheFrame[1 + k]
  BY <1>1, <1>2
<1>7. fifo[1].val = op /\ fifo[2].val = Number /\ fifo[3].val = answer.ack
      /\ fifo[4].val = n
  <2>1. fifo[1] = TheFrame[1 + 1] /\ fifo[2] = TheFrame[1 + 2]
        /\ fifo[3] = TheFrame[1 + 3] /\ fifo[4] = TheFrame[1 + 4]
    BY <1>6
  <2> QED
    BY <1>4, <2>1
<1> DEFINE q == SubSeq(fifo, 1, 4)
<1>8. DOMAIN q = 1 .. 4 /\ \A k \in 1 .. 4 : q[k] = fifo[k]
  BY <1>1, <1>5
<1> HIDE DEF q
<1>9. Values(q) = [k \in 1 .. 4 |-> fifo[k].val]
  BY <1>8 DEF Values
<1>10. [k \in 1 .. 4 |-> fifo[k].val] = <<fifo[1].val, fifo[2].val, fifo[3].val, fifo[4].val>>
  OBVIOUS
<1> QED
  BY <1>3, <1>5, <1>7, <1>9, <1>10 DEF q

\* And those for the payload are the payload.
LEMMA PayloadIsRead ==
    ASSUME Types, Left(5), len = Len(answer.payload)
    PROVE  /\ Len(fifo) >= len
           /\ Values(SubSeq(fifo, 1, len)) = answer.payload
<1>1. /\ len \in Nat /\ fifo \in Seq(Bytes) /\ Len(fifo) \in Nat
      /\ answer.payload \in Seq(Nat)
  BY TheFrameIs DEF Types, LineTypes
<1>2. Len(fifo) = len + 2 /\ \A k \in 1 .. Len(fifo) : fifo[k] = TheFrame[5 + k]
  BY <1>1 DEF Left, Rests
<1>3. \A k \in 1 .. len : TheFrame[k + 5].val = answer.payload[k]
  BY TheFrameIs
<1>4. \A k \in 1 .. len : fifo[k].val = answer.payload[k]
  <2> SUFFICES ASSUME NEW k \in 1 .. len PROVE fifo[k].val = answer.payload[k]
    OBVIOUS
  <2>1. k \in 1 .. Len(fifo) /\ 5 + k = k + 5
    BY <1>1, <1>2
  <2> QED
    BY <1>2, <1>3, <2>1
<1> DEFINE q == SubSeq(fifo, 1, len)
<1>5. DOMAIN q = 1 .. len /\ \A k \in 1 .. len : q[k] = fifo[k]
  BY <1>1, <1>2
<1> HIDE DEF q
<1>6. Values(q) = [k \in 1 .. len |-> answer.payload[k]]
  BY <1>4, <1>5 DEF Values
<1>7. answer.payload = [k \in 1 .. len |-> answer.payload[k]]
  BY <1>1
<1> QED
  <2>1. Len(fifo) >= len
    BY <1>1, <1>2
  <2>2. Values(q) = answer.payload
    BY <1>6, <1>7
  <2> QED
    BY <2>1, <2>2 DEF q

\* In step, what recv_packet finds wrong with the header is the NACK.
LEMMA HeaderErrorIs ==
    ASSUME Types
    PROVE  /\ HeaderError(TheHeader) =
                 IF answer.ack # 0 THEN Nack(answer.ack) ELSE NoResult
           /\ TheHeader[4] = Len(answer.payload)
           /\ answer.ack # 0 => Nack(answer.ack) # NoResult
  BY DEF HeaderError, TheHeader, Header, Nack, NoResult, Failure

\* What a step within a call leaves of it.
SameCall ==
    /\ UNCHANGED <<op, message_num, calls, in_sync, answer>>
    /\ UNCHANGED <<Number, TheFrame, TheHeader, Cmd>>

LEMMA HostWithin ==
    ASSUME Host, pc' # "idle"
    PROVE  SameCall /\ UNCHANGED <<wire, pending>>
<1>1. UNCHANGED <<op, message_num, calls, in_sync, answer, wire, pending>>
  BY DEF Host, ScanByte, ScanTimeout, ReadHeader, HeaderTimeout, Drain, DrainEnds,
         ReadPayload, PayloadTimeout, ReadChecksum, ChecksumTimeout, Return, hostVars,
         lineVars, history
<1>2. Number' = Number
  BY <1>1 DEF Number
<1> QED
  BY <1>1, <1>2 DEF SameCall, TheFrame, TheHeader, Cmd

\* The host reads on in a whole answer.
LEMMA HostUnderway ==
    ASSUME Types, Underway, Host, pc' # "idle"
    PROVE  Underway'
<1>1. SameCall
  BY HostWithin
<1>2. /\ fifo \in Seq(Bytes) /\ Len(fifo) \in Nat /\ len \in Nat
      /\ OutLen[op] \in Nat /\ len <= OutLen[op]
      /\ Len(answer.payload) \in Nat
  BY TheFrameIs, Constants DEF Types, LineTypes, HostTypes
<1>3. ASSUME NEW n \in Nat, NEW m \in 0 .. Len(fifo), Left(n),
             fifo' = SubSeq(fifo, m + 1, Len(fifo))
      PROVE  Left(n + m)'
  <2>1. Len(answer.payload) + 7 \in Nat
    BY <1>2
  <2>2. Rests(fifo', TheFrame, n + m, Len(answer.payload) + 7)
    BY <1>2, <1>3, <2>1, LeftAfter DEF Left
  <2> QED
    BY <1>1, <2>2 DEF Left, Rests, SameCall
<1>4. CASE ScanByte
  <2>1. /\ pc = "scan" /\ fifo # <<>> /\ fifo' = Tail(fifo)
        /\ pc' = IF Head(fifo).val = SOF THEN "header" ELSE "scan"
        /\ len' = len
    BY <1>4 DEF ScanByte, Return, hostVars
  <2>2. Left(0) /\ len = OutLen[op]
    BY <2>1 DEF Underway
  <2>3. /\ 1 <= Len(fifo) /\ Head(fifo) = fifo[1]
        /\ fifo' = SubSeq(fifo, 1 + 1, Len(fifo))
    BY <1>2, <2>1, TailIs
  <2>4. fifo[1] = TheFrame[0 + 1]
    BY <1>2, <2>2, <2>3 DEF Left, Rests
  <2>5. pc' = "header"
    BY <2>1, <2>3, <2>4, TheFrameIs
  <2>6. Left(0 + 1)'
    BY <1>2, <1>3, <2>2, <2>3
  <2> QED
    BY <1>1, <2>1, <2>2, <2>5, <2>6 DEF Underway, SameCall
<1>5. CASE ReadHeader
  <2>1. /\ pc = "header" /\ hdr' = Values(SubSeq(fifo, 1, 4))
        /\ fifo' = SubSeq(fifo, 4 + 1, Len(fifo))
        /\ ret_value' = HeaderError(hdr')
        /\ len' = Shorter(hdr'[4], len)
        /\ pc' = IF hdr'[4] > len THEN "drain"
                 ELSE IF ret_value' = NoResult /\ len' > 0 THEN "payload"
                 ELSE "checksum"
    BY <1>5 DEF ReadHeader
  <2>2. Left(1) /\ len = OutLen[op]
    BY <2>1 DEF Underway
  <2>3. hdr' = TheHeader /\ 4 \in 0 .. Len(fifo)
    BY <1>2, <2>1, <2>2, HeaderIsRead
  <2>4. /\ hdr'[4] = Len(answer.payload)
        /\ ret_value' = IF answer.ack # 0 THEN Nack(answer.ack) ELSE NoResult
        /\ answer.ack # 0 => ret_value' # NoResult
    BY <2>1, <2>3, HeaderErrorIs
  <2>5. Left(1 + 4)'
    BY <1>3, <2>1, <2>2, <2>3
  <2>6. CASE Len(answer.payload) > len
    BY <1>1, <2>1, <2>2, <2>4, <2>6 DEF Underway, SameCall
  <2>7. CASE ~ (Len(answer.payload) > len)
    <3>1. len' = Len(answer.payload)
      BY <1>2, <2>1, <2>4, <2>7 DEF Shorter
    <3>2. CASE pc' = "payload"
      BY <1>1, <1>2, <2>2, <2>3, <2>4, <2>5, <2>7, <3>1, <3>2 DEF Underway, SameCall
    <3>3. CASE pc' = "checksum"
      <4>1. answer.payload = <<>> /\ len' = 0
        <5>1. ret_value' # NoResult \/ ~ (len' > 0)
          BY <2>1, <3>3
        <5>2. answer.payload = <<>> \/ ~ (len' > 0)
          BY <2>4, <5>1 DEF Underway
        <5>3. answer.payload \in Seq(Nat)
          BY TheFrameIs
        <5> QED
          BY <1>2, <3>1, <5>2, <5>3
      <4>2. Payload' = answer'.payload
        BY <1>1, <4>1 DEF Payload, SameCall
      <4>3. Left(len + 5)'
        BY <2>5, <4>1
      <4> QED
        BY <1>1, <1>2, <2>2, <2>3, <2>4, <2>7, <3>1, <3>3, <4>2, <4>3 DEF Underway, SameCall
    <3> QED
      BY <2>1, <2>4, <2>7, <3>2, <3>3
  <2> QED
    BY <2>6, <2>7
<1>6. CASE ReadPayload
  <2>1. /\ pc = "payload" /\ pc' = "checksum" /\ buf' = Values(SubSeq(fifo, 1, len))
        /\ fifo' = SubSeq(fifo, len + 1, Len(fifo))
        /\ UNCHANGED <<len, hdr, ret_value>>
    BY <1>6 DEF ReadPayload
  <2>2. Left(5) /\ len = Len(answer.payload)
    BY <2>1 DEF Underway
  <2>3. buf' = answer.payload /\ len \in 0 .. Len(fifo)
    BY <1>2, <2>1, <2>2, PayloadIsRead
  <2>4. Left(5 + len)'
    BY <1>3, <2>1, <2>2, <2>3
  <2>5. Left(len + 5)'
    <3>1. 5 + len = len + 5 /\ len' = len
      BY <1>2, <2>1
    <3> QED
      BY <2>4, <3>1 DEF Left
  <2>6. Payload' = answer'.payload
    <3>1. answer.payload \in Seq(Nat) /\ (Len(answer.payload) = 0 => answer.payload = <<>>)
      BY TheFrameIs
    <3> QED
      BY <1>1, <2>1, <2>2, <2>3, <3>1 DEF Payload, SameCall
  <2> QED
    BY <1>1, <2>1, <2>5, <2>6 DEF Underway, SameCall
<1>7. CASE PayloadTimeout
  <2>1. pc = "payload" /\ Len(fifo) < len
    BY <1>7 DEF PayloadTimeout
  <2>2. Len(fifo) >= len
    BY <2>1, PayloadIsRead DEF Underway
  <2> QED
    BY <1>2, <2>1, <2>2
<1>8. CASE Drain
  BY <1>1, <1>8 DEF Drain, Underway, SameCall, hostVars
<1>9. CASE ScanTimeout \/ HeaderTimeout \/ DrainEnds \/ ReadChecksum \/ ChecksumTimeout
  BY <1>9 DEF ScanTimeout, HeaderTimeout, DrainEnds, ReadChecksum, ChecksumTimeout, Return
<1> QED
  BY <1>4, <1>5, <1>6, <1>7, <1>8, <1>9 DEF Host

\* A call in step ends as its answer says, or gives up waiting.
LEMMA HostEnds ==
    ASSUME Types, SyncInv, in_sync, Host \/ ScanClockFails, pc' = "idle"
    PROVE  \/ result'.code \in {"TIMEOUT", "HAL_CALL_FAILED"}
           \/ answer.sent /\ ~answer.whole
           \/ /\ answer.sent
              /\ result' = Expected(answer)
              /\ fifo' = <<>> /\ wire' = <<>> /\ pending' = <<>>
<1>1. pc # "idle" /\ UNCHANGED <<wire, pending>>
  BY HostTakes DEF Takes
<1>2. ASSUME NEW c, c # "OK", Return(Failure(c))
      PROVE  result' = Failure(c)
  BY <1>2 DEF Return, Exact, Failure
<1>3. /\ fifo \in Seq(Bytes) /\ Len(fifo) \in Nat /\ len \in Nat
      /\ Len(answer.payload) \in Nat
  BY TheFrameIs, Constants DEF Types, LineTypes, HostTypes
<1>4. CASE ScanByte \/ ScanTimeout \/ ScanClockFails
  <2>1. Return(Failure("TIMEOUT")) \/ Return(Failure("HAL_CALL_FAILED"))
    BY <1>1, <1>4 DEF ScanByte, ScanTimeout, ScanClockFails
  <2> QED
    BY <1>2, <2>1 DEF Failure
<1>5. CASE ~ (ScanByte \/ ScanTimeout \/ ScanClockFails) /\ ~ (answer.sent /\ ~ answer.whole)
  <2>1. pc \notin {"scan", "hung"}
    BY <1>5 DEF Host, ReadHeader, HeaderTimeout, Drain, DrainEnds, ReadPayload,
                PayloadTimeout, ReadChecksum, ChecksumTimeout
  <2>2. answer.sent /\ wire = <<>> /\ pending = <<>> /\ Underway
    BY <1>1, <1>5, <2>1 DEF SyncInv
  <2>3. CASE HeaderTimeout
    BY <1>3, <2>2, <2>3, HeaderIsRead DEF HeaderTimeout, Underway
  <2>4. CASE DrainEnds
    <3>1. pc = "drain" /\ fifo' = <<>> /\ Return(Failure("BUFFER_TOO_SMALL"))
      BY <2>4 DEF DrainEnds, lineVars
    <3>2. Len(answer.payload) > OutLen[op]
      BY <2>2, <3>1 DEF Underway
    <3> QED
      BY <1>1, <1>2, <2>2, <3>1, <3>2 DEF Expected
  <2>5. CASE ReadChecksum \/ ChecksumTimeout
    <3>1. pc = "checksum"
      BY <2>5 DEF ReadChecksum, ChecksumTimeout
    <3>2. /\ Left(len + 5) /\ Payload = answer.payload /\ hdr = TheHeader
          /\ len = Len(answer.payload) /\ len <= OutLen[op]
          /\ ret_value = IF answer.ack # 0 THEN Nack(answer.ack) ELSE NoResult
      BY <2>2, <3>1 DEF Underway
    <3>3. Len(fifo) = 2 /\ \A k \in 1 .. 2 : fifo[k] = TheFrame[(len + 5) + k]
      <4>1. Len(fifo) + (len + 5) = len + 7
        BY <3>2 DEF Left, Rests
      <4>2. \A x, y \in Nat : x + (y + 5) = y + 7 => x = 2
        OBVIOUS
      <4>3. Len(fifo) = 2
        BY <1>3, <4>1, <4>2
      <4> QED
        BY <3>2, <4>3 DEF Left, Rests
    <3>4. ReadChecksum
      BY <2>5, <3>3 DEF ChecksumTimeout
    <3>5. fifo[1].sum = <<Computed, 1>> /\ fifo[2].sum = <<Computed, 2>>
      <4>1. (len + 5) + 1 = len + 6 /\ (len + 5) + 2 = len + 7
        BY <1>3
      <4>2. fifo[1] = TheFrame[(len + 5) + 1] /\ fifo[2] = TheFrame[(len + 5) + 2]
        BY <3>3
      <4>3. fifo[1] = TheFrame[len + 6] /\ fifo[2] = TheFrame[len + 7]
        BY <4>1, <4>2
      <4>4. /\ TheFrame[len + 6].sum = <<TheHeader \o answer.payload, 1>>
            /\ TheFrame[len + 7].sum = <<TheHeader \o answer.payload, 2>>
        BY <3>2, TheFrameIs
      <4> QED
        BY <3>2, <4>3, <4>4 DEF Computed
    <3>6. fifo' = <<>>
      <4>1. fifo' = SubSeq(fifo, 3, Len(fifo))
        BY <3>4 DEF ReadChecksum
      <4> QED
        BY <1>3, <3>3, <4>1
    <3>7. Return(Verdict)
      BY <3>4, <3>5 DEF ReadChecksum
    <3>8. result' = Exact(Verdict) /\ ~ (Len(answer.payload) > OutLen[op])
      <4>1. OutLen[op] \in Nat
        BY Constants DEF Types, HostTypes
      <4>2. ~ (Len(answer.payload) > OutLen[op])
        BY <1>3, <3>2, <4>1
      <4> QED
        BY <3>7, <4>2 DEF Return
    <3>9. result' = Expected(answer)
      <4>1. CASE answer.ack # 0
        <5>1. Verdict = Nack(answer.ack)
          BY <3>2, <4>1, HeaderErrorIs DEF Verdict
        <5>2. Exact(Nack(answer.ack)) = Nack(answer.ack)
          BY DEF Exact, Nack
        <5> QED
          BY <3>8, <4>1, <5>1, <5>2 DEF Expected
      <4>2. CASE answer.ack = 0
        <5>1. Verdict = Success(answer.payload)
          BY <3>2, <4>2 DEF Verdict
        <5> QED
          BY <3>8, <4>2, <5>1 DEF Expected
      <4> QED
        BY <4>1, <4>2
    <3> QED
      BY <1>1, <2>2, <3>6, <3>9
  <2>6. CASE ReadHeader \/ Drain \/ ReadPayload \/ PayloadTimeout
    BY <1>1, <2>6 DEF ReadHeader, Drain, ReadPayload, PayloadTimeout
  <2> QED
    BY <1>5, <2>3, <2>4, <2>5, <2>6 DEF Host
<1> QED
  BY <1>4, <1>5

LEMMA SyncInit == Init => SyncInv
  BY DEF Init, SyncInv

LEMMA SyncHost ==
    ASSUME Types, SyncInv, Host \/ ScanClockFails
    PROVE  SyncInv'
<1>1. CASE pc' = "idle"
  BY <1>1 DEF SyncInv
<1>2. CASE pc' # "idle"
  <2>0. Host /\ pc \notin {"idle", "hung"}
    BY <1>2 DEF ScanClockFails, Return, Host, ScanByte, ScanTimeout, ReadHeader,
                HeaderTimeout, Drain, DrainEnds, ReadPayload, PayloadTimeout,
                ReadChecksum, ChecksumTimeout
  <2>1. Host
    BY <2>0
  <2>2. pc # "idle" /\ SameCall /\ UNCHANGED <<wire, pending>>
    BY <1>2, <2>1, HostWithin, HostTakes
  <2>3. ASSUME in_sync, ~ answer.sent
        PROVE  FALSE
    BY <1>2, <2>0, <2>1, <2>2, <2>3
    DEF SyncInv, Host, ScanByte, ScanTimeout, ReadHeader, HeaderTimeout, Drain,
        DrainEnds, ReadPayload, PayloadTimeout, ReadChecksum, ChecksumTimeout, Return
  <2>4. ASSUME in_sync, answer.sent, answer.whole
        PROVE  Underway'
    BY <1>2, <2>0, <2>1, <2>2, <2>4, HostUnderway DEF SyncInv
  <2> QED
    BY <2>0, <2>2, <2>3, <2>4 DEF SyncInv, SameCall
<1> QED
  BY <1>1, <1>2

\* The answer to a call in step is all there is on the line.
LEMMA SyncAnswer ==
    ASSUME Types, SyncInv, NEW a \in Nat, NEW p \in Seq(Nat), Answer(a, p),
           a # 0 => p = <<>>
    PROVE  SyncInv'
<1> SUFFICES ASSUME pc' \notin {"idle", "hung"}, in_sync' PROVE SyncInv'
  BY DEF SyncInv
<1>1. /\ UNCHANGED <<pc, hostVars, calls, in_sync>> /\ pending # <<>>
      /\ pending' = Tail(pending)
  BY DEF Answer
<1>2. ~ answer.sent /\ pc = "scan" /\ len = OutLen[op] /\ fifo = <<>> /\ pending = <<Cmd>>
  BY <1>1 DEF SyncInv
<1>3. Head(pending) = Cmd /\ pending' = <<>> /\ Cmd.op \in Ops /\ Cmd.id = calls
  BY <1>1, <1>2 DEF Cmd, Types, HostTypes
<1>4. /\ answer'.ack = a /\ answer'.payload = p /\ answer'.sent
      /\ answer'.whole = (wire' = <<>>)
  BY <1>3 DEF Answer
<1>5. TheFrame' = Frame(Cmd, a, p)
  BY <1>1, <1>4 DEF TheFrame, Cmd, Number, hostVars
<1>6. ASSUME wire' = <<>>
      PROVE  Left(0)'
  <2> DEFINE f == Frame(Cmd, a, p)
  <2>1. Cmd \in PendingCommands
    BY NumberIsNat, Constants DEF Types, HostTypes, CountTypes, Cmd, PendingCommands
  <2>2. f \in Seq(Bytes) /\ Len(f) = Len(p) + 7 /\ Len(f) \in Nat /\ Len(p) \in Nat
    <3>1. FrameLayout(Cmd, a, p)
      BY <2>1, FrameIs
    <3>2. f \in Seq(Bytes) /\ Len(f) = Len(p) + 7
      BY <3>1 DEF FrameLayout
    <3> HIDE DEF f
    <3> QED
      BY <3>2
  <2>3. PICK k \in {Len(f)} \cup (CutPoints \cap 1 .. Len(f)) :
            fifo' = fifo \o SubSeq(f, 1, k) /\ wire' = SubSeq(f, k + 1, Len(f))
    BY <1>3 DEF Answer
  <2> HIDE DEF f
  <2>4. k = Len(f)
    <3>1. k \in 0 .. Len(f)
      BY <2>2, <2>3
    <3>2. Len(SubSeq(f, k + 1, Len(f))) = Len(f) - k
      BY <2>2, <3>1
    <3>3. Len(f) - k = 0
      <4>1. Len(<<>>) = 0
        OBVIOUS
      <4>2. SubSeq(f, k + 1, Len(f)) = <<>>
        BY <1>6, <2>3
      <4> QED
        BY <3>2, <4>1, <4>2
    <3> QED
      BY <2>2, <3>1, <3>3
  <2>5. fifo' = f
    BY <1>2, <2>2, <2>3, <2>4
  <2>6. Rests(f, f, 0, Len(p) + 7)
    BY <2>2 DEF Rests
  <2> QED
    BY <1>4, <1>5, <2>5, <2>6 DEF Left, Rests, f
<1> QED
  BY <1>1, <1>2, <1>3, <1>4, <1>6 DEF SyncInv, Underway, hostVars

LEMMA SyncModule ==
    ASSUME NacksAreBare, Types, SyncInv, Module
    PROVE  SyncInv'
<1>1. CASE NoReply
  <2>1. /\ UNCHANGED <<pc, hostVars, fifo, wire, history>> /\ pending # <<>>
        /\ pending' = Tail(pending)
    BY <1>1 DEF NoReply
  <2>2. ASSUME pc \notin {"idle", "hung"}, in_sync
        PROVE  /\ ~ answer.sent /\ pc = "scan" /\ len = OutLen[op]
               /\ fifo = <<>> /\ wire = <<>> /\ pending' = <<>>
    <3>1. /\ ~ answer.sent /\ pc = "scan" /\ len = OutLen[op]
          /\ fifo = <<>> /\ wire = <<>> /\ pending = <<Cmd>>
      BY <2>1, <2>2 DEF SyncInv
    <3>2. Tail(<<Cmd>>) = <<>>
      OBVIOUS
    <3> QED
      BY <2>1, <3>1, <3>2
  <2> QED
    BY <2>1, <2>2 DEF SyncInv, hostVars, history
<1>2. CASE Arrive
  <2>1. UNCHANGED <<pc, hostVars, pending, history>> /\ wire # <<>>
    BY <1>2 DEF Arrive
  <2>2. ASSUME pc \notin {"idle", "hung"}, in_sync
        PROVE  answer.sent /\ pending = <<>> /\ ~ answer.whole
    BY <2>1, <2>2 DEF SyncInv
  <2> QED
    BY <2>1, <2>2 DEF SyncInv, hostVars, history
<1>3. ASSUME NEW p \in AckPayloads, Answer(0, p)
      PROVE  SyncInv'
  BY <1>3, SyncAnswer, Constants
<1>4. ASSUME NEW a \in Nacks, NEW p \in NackPayloads, Answer(a, p)
      PROVE  SyncInv'
  <2>1. a \in Nat /\ p \in Seq(Nat) /\ p = <<>>
    BY Constants DEF NacksAreBare
  <2> QED
    BY <1>4, <2>1, SyncAnswer
<1> QED
  BY <1>1, <1>2, <1>3, <1>4 DEF Module

LEMMA SyncCall ==
    ASSUME Types, NEW o \in Ops, Call(o)
    PROVE  SyncInv'
<1> SUFFICES ASSUME in_sync' PROVE SyncInv'
  BY DEF SyncInv
<1>1. /\ pc' = "scan" /\ op' = o /\ len' = OutLen[o] /\ calls' = calls + 1
      /\ answer' = NoAnswer /\ UNCHANGED <<message_num, fifo, wire>>
      /\ fifo = <<>> /\ wire = <<>> /\ pending = <<>>
  BY DEF Call
<1>2. Cmd' = [op |-> o, num |-> Number, id |-> calls + 1]
  BY <1>1 DEF Cmd, Number
<1>3. pending' = <<>> \/ pending' = Append(<<>>, Cmd')
  BY <1>1, <1>2 DEF Call
<1>4. pending' \in {<<>>, <<Cmd'>>}
  BY <1>3
<1> QED
  BY <1>1, <1>4 DEF SyncInv, NoAnswer

LEMMA SyncStep ==
    ASSUME NacksAreBare, Types, SyncInv, [Next]_vars
    PROVE  SyncInv'
<1>1. CASE BadParameter \/ BootloaderMode \/ ResetState \/ HangsUp \/ Spins
  BY <1>1 DEF BadParameter, BootloaderMode, ResetState, HangsUp, Spins, vars, SyncInv
<1>2. CASE UNCHANGED vars
  BY <1>2 DEF vars, SyncInv, Underway, Left, Rests, TheFrame, TheHeader, Cmd, Number, Payload
<1> QED
  BY <1>1, <1>2, SyncCall, SyncHost, SyncModule DEF Next

\* InSyncCallIsFaithful: a call made with nothing in flight is told what the
\* module answered, and leaves nothing in flight, unless it gave up waiting or the
\* clock failed or the answer was cut.
THEOREM InSyncCallsAreFaithful ==
    ASSUME NacksAreBare
    PROVE  Spec => InSyncCallIsFaithful
<1> DEFINE Told == \/ result'.code \in {"TIMEOUT", "HAL_CALL_FAILED"}
                   \/ answer.sent /\ ~answer.whole
                   \/ /\ answer.sent
                      /\ result' = Expected(answer)
                      /\ fifo' = <<>> /\ wire' = <<>> /\ pending' = <<>>
           Ends == pc # "idle" /\ pc' = "idle" /\ in_sync
<1>1. Types /\ SyncInv /\ [Next]_vars => SyncInv'
  BY SyncStep
<1>2. Spec => []SyncInv
  BY AlwaysTypes, SyncInit, <1>1, PTL DEF Spec
<1>3. Types /\ SyncInv /\ [Next]_vars => [Ends => Told]_vars
  <2> SUFFICES ASSUME Types, SyncInv, Next, Ends PROVE Told
    BY DEF vars
  <2>1. CASE Host \/ ScanClockFails
    BY <2>1, HostEnds
  <2>2. CASE ~ (Host \/ ScanClockFails)
    BY <2>2 DEF Next, BadParameter, Call, BootloaderMode, ResetState, HangsUp, Spins,
                Module, Answer, NoReply, Arrive, vars
  <2> QED
    BY <2>1, <2>2
<1> QED
  BY <1>2, <1>3, AlwaysTypes, PTL DEF Spec, InSyncCallIsFaithful
=============================================================================
