---------------------------- MODULE XmodemProofs ----------------------------
(***************************************************************************)
(* The upload proved for any number of blocks, of attempts and of packet   *)
(* numbers, and for all faults: where the host may stand, that success is  *)
(* only reported of firmware that was installed, that the module's image   *)
(* is a beginning of the payload, and that the offset does not run ahead.  *)
(*                                                                         *)
(* The last two are about the packets and answers in flight. A response    *)
(* makes the host send one packet, and a packet has one answer, so what is *)
(* on the line is bounded by the start bytes the module sent (BudgetInv).  *)
(* PacketsInv says of each packet in flight that the answers ahead of it   *)
(* and what the offset advanced since it was sent are within that bound,   *)
(* and AnswersInv says of each ACK in flight that the host may count it.   *)
(***************************************************************************)
EXTENDS Xmodem, SequenceTheorems, TLAPS

-----------------------------------------------------------------------------
(* Residues, and queues *)

\* Quotient and remainder, as the provers know them.
LEMMA Residue ==
    ASSUME NEW M \in Nat \ {0}, NEW a \in Nat
    PROVE  /\ a \div M \in Nat
           /\ a % M \in 0 .. M - 1
           /\ a = (a \div M) * M + (a % M)
<1>1. a \div M \in Nat
  OBVIOUS
<1>2. a % M \in 0 .. M - 1
  OBVIOUS
<1>3. a = (a \div M) * M + (a % M)
  OBVIOUS
<1> QED
  BY <1>1, <1>2, <1>3

LEMMA ResidueOf ==
    ASSUME NEW M \in Nat \ {0}, NEW q \in Nat, NEW r \in 0 .. M - 1
    PROVE  (q * M + r) % M = r
  OBVIOUS

\* Of numbers less than M apart the residue tells which it is.
LEMMA SameResidue ==
    ASSUME NEW M \in Nat \ {0}, NEW a \in Nat, NEW b \in Nat,
           a % M = b % M, a <= b, b < a + M
    PROVE  a = b
<1> DEFINE p == a \div M
           q == b \div M
           r == a % M
<1>1. p \in Nat /\ q \in Nat /\ r \in 0 .. M - 1 /\ a = p * M + r /\ b = q * M + r
  BY Residue
<1> HIDE DEF p, q, r
<1>2. CASE q < p
  <2>1. p * M >= (q + 1) * M /\ (q + 1) * M = q * M + M
    BY <1>1, <1>2
  <2> QED
    BY <1>1, <2>1
<1>3. CASE q > p
  <2>1. q * M >= (p + 1) * M /\ (p + 1) * M = p * M + M
    BY <1>1, <1>3
  <2> QED
    BY <1>1, <2>1
<1> QED
  BY <1>1, <1>2, <1>3

LEMMA NextResidue ==
    ASSUME NEW M \in Nat \ {0}, NEW a \in Nat
    PROVE  ((a % M) + 1) % M = (a + 1) % M
<1> DEFINE p == a \div M
           r == a % M
<1>1. p \in Nat /\ r \in 0 .. M - 1 /\ a = p * M + r
  BY Residue
<1> HIDE DEF p, r
<1>2. CASE r + 1 < M
  <2>1. r + 1 \in 0 .. M - 1
    BY <1>1, <1>2
  <2>2. (p * M + (r + 1)) % M = r + 1
    BY <1>1, <2>1, ResidueOf
  <2>3. (0 * M + (r + 1)) % M = r + 1
    BY <1>1, <2>1, ResidueOf
  <2>4. a + 1 = p * M + (r + 1) /\ r + 1 = 0 * M + (r + 1)
    BY <1>1
  <2> QED
    BY <2>2, <2>3, <2>4 DEF r
<1>3. CASE r + 1 = M
  <2>1. ((p + 1) * M + 0) % M = 0 /\ (1 * M + 0) % M = 0
    BY <1>1, ResidueOf
  <2>2. a + 1 = (p + 1) * M + 0 /\ r + 1 = 1 * M + 0
    BY <1>1, <1>3
  <2> QED
    BY <2>1, <2>2 DEF r
<1> QED
  BY <1>1, <1>2, <1>3

\* A queue without its head, with an element more, with others after it.
LEMMA Dropped ==
    ASSUME NEW S, NEW s \in Seq(S), s # <<>>
    PROVE  /\ Tail(s) \in Seq(S) /\ Len(s) \in Nat \ {0}
           /\ Len(Tail(s)) = Len(s) - 1
           /\ DOMAIN s = 1 .. Len(s)
           /\ Head(s) = s[1] /\ Head(s) \in S
           /\ \A k \in DOMAIN Tail(s) : k \in Nat /\ k + 1 \in DOMAIN s /\ Tail(s)[k] = s[k + 1]
  OBVIOUS

LEMMA Added ==
    ASSUME NEW S, NEW s \in Seq(S), NEW e \in S
    PROVE  /\ Append(s, e) \in Seq(S) /\ Len(s) \in Nat
           /\ Len(Append(s, e)) = Len(s) + 1
           /\ DOMAIN s = 1 .. Len(s)
           /\ DOMAIN Append(s, e) = 1 .. Len(s) + 1
           /\ \A k \in DOMAIN s : Append(s, e)[k] = s[k]
           /\ Append(s, e)[Len(s) + 1] = e
  OBVIOUS

LEMMA AddedOne ==
    ASSUME NEW S, NEW s \in Seq(S), NEW e \in S
    PROVE  s \o <<e>> = Append(s, e)
  BY AppendIsConcat

LEMMA AddedAll ==
    ASSUME NEW S, NEW s \in Seq(S), NEW t \in Seq(S)
    PROVE  /\ s \o t \in Seq(S)
           /\ \A k \in DOMAIN (s \o t) :
                 \/ k \in DOMAIN s /\ (s \o t)[k] = s[k]
                 \/ \E i \in DOMAIN t : (s \o t)[k] = t[i]
<1>1. s \o t \in Seq(S)
  OBVIOUS
<1>2. \A k \in DOMAIN (s \o t) :
                 \/ k \in DOMAIN s /\ (s \o t)[k] = s[k]
                 \/ k - Len(s) \in DOMAIN t /\ (s \o t)[k] = t[k - Len(s)]
  OBVIOUS
<1> QED
  BY <1>1, <1>2

-----------------------------------------------------------------------------
(* The inductive invariant *)

Places == {"prepare", "banner", "start", "send", "response", "eot",
           "eot_response", "report", "done"}

\* Before the end of the payload is reached the offset is short of it. TypeOK
\* says so of the places that send; the places before them lead there.
TypeInv ==
    /\ pc \in Places
    /\ acked \in 0 .. NumBlocks
    /\ pc \in {"prepare", "banner", "start", "send", "response"} => acked < NumBlocks
    /\ atmpt_num \in 0 .. MaxAttempts + 1
    /\ pc # "done" => atmpt_num <= MaxAttempts
    /\ chatter \in 0 .. MaxChatter
    /\ misreads \in 0 .. MaxMisreads

FlagInv == heard \in BOOLEAN

Message == [kind : {"u", "SOH", "EOT", "r"}, num : Nat, block : Nat, good : BOOLEAN]

\* The bytes the module sends, and its lines of text.
Words == {"ACK", "NAK", "CAN", "C", "NL", "downloaded", "verified", "activated", "failed"}

\* What is on the line, and what the module took and where it stands.
LineInv ==
    /\ up \in Seq(Message)
    /\ down \in Seq(Words)
    /\ image \in Seq(Nat)
    /\ module \in {"idle", "ready", "receiving", "ended"}

Active == module \in {"ready", "receiving"}

\* What may be on the line, by how far the host has come: nothing is sent before
\* the request, no packet before the start byte and no EOT before the last ACK.
PhaseInv ==
    /\ pc = "prepare" => up = <<>>
    /\ pc \in {"prepare", "banner", "start"} =>
          /\ acked = 0
          /\ module \in {"idle", "ready"}
          /\ \A k \in DOMAIN up : up[k].kind = "u"
          /\ \A k \in DOMAIN down : down[k] # "ACK"
    /\ pc \in {"send", "response"} => \A k \in DOMAIN up : up[k].kind = "SOH"
    /\ module = "idle" =>
          /\ pc \in {"prepare", "banner", "done"}
          /\ chatter = 0 /\ down = <<>> /\ Len(up) <= 1
    /\ module # "idle" => pc # "prepare" /\ \A k \in DOMAIN up : up[k].kind # "u"

\* A packet with a block of the payload under the block's number.
OfPayload(m) == m.block \in 1 .. NumBlocks /\ m.num = m.block % NumMod

\* The k-th packet on its way, the answers before it and the blocks the offset
\* went on by since it was sent are accounted for by bytes the module sent.
PacketsInv ==
    \A k \in DOMAIN up : up[k].kind = "SOH" =>
        /\ OfPayload(up[k])
        /\ up[k].block <= acked + 1
        /\ Active => Len(down) + k + acked + 2 <= chatter + up[k].block

\* When the k-th answer is an ACK the offset may advance for it, and for each
\* answer before it.
AnswersInv ==
    pc \in {"send", "response"} =>
        \A k \in DOMAIN down : down[k] = "ACK" => acked + k + 2 <= Len(image) + chatter

\* The packets and answers in flight are no more than the module's start bytes,
\* two of which the host took before it began to send.
BudgetInv ==
    /\ pc \in {"prepare", "banner"} => Len(down) <= chatter
    /\ pc = "start" => Len(down) + 1 <= chatter
    /\ pc = "send" => Len(down) + Len(up) + 2 <= chatter
    /\ pc = "response" => Len(down) + Len(up) + 1 <= chatter
    /\ pc \in {"send", "response"} => 2 <= chatter

\* The image, the packet number expected after it, and the host's offset.
ImageInv ==
    /\ \A k \in DOMAIN image : image[k] = k
    /\ Len(image) <= NumBlocks
    /\ Len(image) <= acked + 1
    /\ expect = (Len(image) + 1) % NumMod
    /\ acked <= Len(image) \/ acked + 2 <= Len(image) + chatter

UploadInv ==
    TypeInv /\ LineInv /\ PhaseInv /\ PacketsInv /\ AnswersInv /\ BudgetInv /\ ImageInv

\* Only an image that is whole was reported active, to a host that believes it.
ReportInv ==
    /\ down \in Seq(Words)
    /\ \A k \in DOMAIN down : down[k] = "activated" => installed
    /\ installed => image = Payload /\ module = "ended"
    /\ result = "OK" => installed

-----------------------------------------------------------------------------
(* Types *)

LEMMA InitTypes == Init => TypeInv
  BY UploadAssumption DEF Init, TypeInv, Places

LEMMA HostTypes ==
    ASSUME TypeInv, Host \/ WriteFails
    PROVE  TypeInv'
<1> USE UploadAssumption DEF TypeInv, Places, hostVars, eotVars, moduleVars
<1>1. CASE RequestUpload
  BY <1>1 DEF RequestUpload
<1>2. CASE WaitFor("banner", "NL", "start") \/ WaitFor("start", "C", "send")
  BY <1>2 DEF WaitFor
<1>3. CASE SendPacket \/ SendEot
  BY <1>3 DEF SendPacket, SendEot
<1>4. CASE RxAck
  BY <1>4 DEF RxAck, Response
<1>5. CASE RxNak
  BY <1>5 DEF RxNak, Response, Finish
<1>6. CASE RxCan \/ RxStart \/ RxEotResponse \/ EotMisread \/ SkipByte
  BY <1>6 DEF EotMisread, RxCan, RxStart, RxEotResponse, SkipByte, Response, Finish
<1>7. CASE Timeout \/ Report \/ WriteFails
  BY <1>7 DEF Timeout, Report, WriteFails, Finish
<1> QED
  BY <1>1, <1>2, <1>3, <1>4, <1>5, <1>6, <1>7 DEF Host

LEMMA ModuleTypes ==
    ASSUME TypeInv, Module \/ ModulePrompts
    PROVE  TypeInv'
<1> USE DEF TypeInv, hostVars, eotVars, moduleVars
<1>1. CASE ModuleChatters
  BY <1>1, UploadAssumption DEF ModuleChatters
<1>2. CASE ~ ModuleChatters
  BY <1>2 DEF Module, ModulePrompts, ModuleStarts, ModuleTakesPacket, ModuleRefusesPacket,
     ModuleGetsPacketAgain, ModuleCancels, ModuleGetsEot, ModuleIgnores
<1> QED
  BY <1>1, <1>2

-----------------------------------------------------------------------------
(* Steps keep the invariant *)

LEMMA LinesOfWords ==
    /\ <<"ACK", "NL">> \in Seq(Words)
    /\ <<"failed">> \in Seq(Words)
    /\ <<"downloaded", "failed">> \in Seq(Words)
    /\ <<"downloaded", "verified", "failed">> \in Seq(Words)
    /\ <<"downloaded", "verified", "activated">> \in Seq(Words)
<1>1. <<"ACK", "NL">> \in Seq(Words) /\ <<"failed">> \in Seq(Words)
  BY DEF Words
<1>2. <<"downloaded", "failed">> \in Seq(Words)
  BY DEF Words
<1>3. <<"downloaded", "verified", "failed">> \in Seq(Words)
  BY DEF Words
<1>4. <<"downloaded", "verified", "activated">> \in Seq(Words)
  BY DEF Words
<1> QED
  BY <1>1, <1>2, <1>3, <1>4

LEMMA UploadInit == Init => UploadInv /\ ReportInv
<1> SUFFICES ASSUME Init PROVE UploadInv /\ ReportInv
  OBVIOUS
<1>1. TypeInv
  BY InitTypes
<1>2. Len(<<>>) = 0 /\ DOMAIN <<>> = {}
  OBVIOUS
<1>3. LineInv /\ PhaseInv /\ PacketsInv /\ AnswersInv /\ BudgetInv
  BY <1>2 DEF Init, LineInv, PhaseInv, PacketsInv, AnswersInv, BudgetInv
<1>4. ImageInv
  BY <1>2, UploadAssumption DEF Init, ImageInv
<1>5. ReportInv
  BY <1>2, <1>3 DEF Init, ReportInv, LineInv
<1> QED
  BY <1>1, <1>3, <1>4, <1>5 DEF UploadInv

\* A step of the host that takes a byte off the line and sends nothing.
Reads == down # <<>> /\ down' = Tail(down) /\ up' = up /\ UNCHANGED moduleVars

LEMMA ReadKeepsUpload ==
    ASSUME UploadInv, Reads, TypeInv',
           UNCHANGED acked \/ (Head(down) = "ACK" /\ pc = "response" /\ acked' = acked + 1),
           \/ pc' \in {pc, "done"}
           \/ pc = "banner" /\ pc' = "start"
           \/ pc = "start" /\ pc' = "send"
           \/ pc = "response" /\ pc' \in {"send", "eot"}
           \/ pc = "eot_response" /\ pc' \in {"eot", "report"}
    PROVE  UploadInv'
<1> USE DEF UploadInv, Reads, moduleVars
<1>1. /\ Tail(down) \in Seq(Words) /\ Len(down) \in Nat \ {0}
      /\ Len(Tail(down)) = Len(down) - 1
      /\ DOMAIN down = 1 .. Len(down)
      /\ Head(down) = down[1]
      /\ \A k \in DOMAIN Tail(down) : k \in Nat /\ k + 1 \in DOMAIN down /\ Tail(down)[k] = down[k + 1]
  BY Dropped DEF LineInv
<1>2. LineInv'
  BY <1>1 DEF LineInv
<1>3. PhaseInv'
  BY <1>1 DEF PhaseInv, TypeInv, Places
<1>3a. /\ acked \in Nat /\ acked' \in Nat /\ chatter \in Nat /\ Len(image) \in Nat
       /\ up' = up /\ image' = image /\ chatter' = chatter /\ module' = module
       /\ expect' = expect /\ down' = Tail(down)
  BY UploadAssumption DEF TypeInv, LineInv
<1>4. PacketsInv'
  <2> SUFFICES ASSUME NEW k \in DOMAIN up, up[k].kind = "SOH"
               PROVE  /\ OfPayload(up[k])
                      /\ up[k].block <= acked' + 1
                      /\ Active => Len(Tail(down)) + k + acked' + 2 <= chatter + up[k].block
    BY <1>3a DEF PacketsInv, Active
  <2>1. /\ OfPayload(up[k])
        /\ up[k].block <= acked + 1
        /\ Active => Len(down) + k + acked + 2 <= chatter + up[k].block
    BY DEF PacketsInv
  <2>2. k \in Nat /\ up[k].block \in Nat
    BY <2>1, UploadAssumption DEF LineInv, OfPayload
  <2>3. acked' = acked \/ acked' = acked + 1
    OBVIOUS
  <2>4. Len(Tail(down)) \in Nat /\ Len(Tail(down)) + 1 = Len(down)
    BY <1>1
  <2>5. Active => Len(Tail(down)) + k + acked' + 2 <= chatter + up[k].block
    BY <2>1, <2>2, <2>3, <2>4, <1>3a
  <2> QED
    BY <2>1, <2>3, <2>5, <1>3a, <2>2
<1>5. AnswersInv'
  <2> SUFFICES ASSUME pc' \in {"send", "response"},
                      NEW k \in DOMAIN Tail(down), Tail(down)[k] = "ACK"
               PROVE  acked' + k + 2 <= Len(image) + chatter
    BY <1>3a DEF AnswersInv
  <2>1. k \in Nat /\ k + 1 \in DOMAIN down /\ down[k + 1] = "ACK"
    BY <1>1
  <2>2. pc \in {"send", "response"}
    BY <2>1 DEF PhaseInv
  <2>3. acked + (k + 1) + 2 <= Len(image) + chatter
    BY <2>1, <2>2 DEF AnswersInv
  <2>4. acked' = acked \/ acked' = acked + 1
    OBVIOUS
  <2> QED
    BY <2>1, <2>3, <2>4, <1>3a
<1>6. BudgetInv'
  <2>1. Len(up) \in Nat /\ Len(down) \in Nat \ {0} /\ Len(Tail(down)) = Len(down) - 1
    BY <1>1 DEF LineInv
  <2>2. pc = "start" => Len(down) + 1 <= chatter
    BY DEF BudgetInv
  <2>3. pc' \in {"send", "response"} => 2 <= chatter
    BY <1>3a, <2>1, <2>2 DEF BudgetInv
  <2>4. pc' = "send" => Len(Tail(down)) + Len(up) + 2 <= chatter
    <3>1. CASE pc = "start"
      <4>1. \A k \in DOMAIN up : up[k].kind = "u"
        BY <3>1 DEF PhaseInv
      <4>2. module # "idle" => up = <<>>
        BY <4>1 DEF PhaseInv, LineInv
      <4>3. module # "idle"
        BY <3>1 DEF PhaseInv
      <4>4. Len(up) = 0
        BY <4>2, <4>3
      <4> QED
        BY <1>3a, <2>1, <2>2, <3>1, <4>4
    <3>2. CASE pc \in {"send", "response"}
      BY <1>3a, <2>1, <3>2 DEF BudgetInv
    <3>3. pc' = "send" => pc \in {"start", "send", "response"}
      OBVIOUS
    <3> QED
      BY <3>1, <3>2, <3>3
  <2>5. pc' = "response" => Len(Tail(down)) + Len(up) + 1 <= chatter
    BY <1>3a, <2>1 DEF BudgetInv
  <2>6. /\ pc' \in {"prepare", "banner"} => Len(Tail(down)) <= chatter
        /\ pc' = "start" => Len(Tail(down)) + 1 <= chatter
    BY <1>3a, <2>1 DEF BudgetInv
  <2> QED
    BY <1>3a, <2>3, <2>4, <2>5, <2>6 DEF BudgetInv
<1>7. ImageInv'
  <2>1. CASE acked' = acked
    BY <2>1, <1>3a DEF ImageInv
  <2>2. CASE acked' = acked + 1 /\ down[1] = "ACK" /\ pc = "response"
    <3>1. 1 \in DOMAIN down
      BY <1>1
    <3>2. acked + 1 + 2 <= Len(image) + chatter
      BY <2>2, <3>1 DEF AnswersInv
    <3> QED
      BY <2>2, <3>2, <1>3a DEF ImageInv
  <2> QED
    BY <2>1, <2>2, <1>1
<1> QED
  BY <1>2, <1>3, <1>4, <1>5, <1>6, <1>7

LEMMA ReadingKeepsUpload ==
    ASSUME UploadInv, TypeInv',
           WaitFor("banner", "NL", "start") \/ WaitFor("start", "C", "send")
             \/ RxAck \/ RxNak \/ RxCan \/ RxStart \/ RxEotResponse \/ SkipByte
    PROVE  UploadInv'
<1>1. acked \in Nat
  BY UploadAssumption DEF UploadInv, TypeInv
<1> USE DEF hostVars, eotVars
<1>2. CASE WaitFor("banner", "NL", "start") \/ WaitFor("start", "C", "send")
  BY <1>2, ReadKeepsUpload DEF WaitFor, Reads
<1>3. CASE RxAck
  BY <1>3, ReadKeepsUpload DEF RxAck, Response, Reads
<1>4. CASE RxNak \/ RxCan \/ RxStart
  BY <1>4, ReadKeepsUpload DEF RxNak, RxCan, RxStart, Response, Finish, Reads
<1>5. CASE RxEotResponse \/ SkipByte
  BY <1>5, ReadKeepsUpload DEF RxEotResponse, SkipByte, Reads
<1> QED
  BY <1>2, <1>3, <1>4, <1>5

\* A step of the host that ends the upload or sends m, or what m stands for.
Sends(m) == up' \in {up, Append(up, m)} /\ UNCHANGED <<acked, moduleVars>>

LEMMA SendKeepsUpload ==
    ASSUME UploadInv, TypeInv', NEW m \in Message, Sends(m), down' \in {down, <<>>},
           \/ pc = "prepare" /\ pc' = "banner" /\ m.kind = "u"
           \/ /\ pc = "send" /\ pc' = "response" /\ down' = down
              /\ m.kind = "SOH" /\ m.block = acked + 1
              /\ m.num = m.block % NumMod
           \/ pc = "eot" /\ pc' = "eot_response" /\ m.kind = "EOT"
           \/ pc = "report" /\ pc' = "done" /\ m.kind = "r"
    PROVE  UploadInv'
<1> USE DEF UploadInv, Sends, moduleVars
<1>1. /\ Append(up, m) \in Seq(Message) /\ Len(up) \in Nat
      /\ Len(Append(up, m)) = Len(up) + 1
      /\ DOMAIN up = 1 .. Len(up)
      /\ DOMAIN Append(up, m) = 1 .. Len(up) + 1
      /\ \A k \in DOMAIN up : Append(up, m)[k] = up[k]
      /\ Append(up, m)[Len(up) + 1] = m
  BY Added DEF LineInv
<1>2. /\ acked \in Nat /\ chatter \in Nat /\ Len(image) \in Nat /\ Len(down) \in Nat
      /\ acked' = acked /\ image' = image /\ chatter' = chatter /\ module' = module
      /\ expect' = expect
      /\ Len(<<>>) = 0 /\ DOMAIN <<>> = {} /\ <<>> \in Seq(Words)
  BY UploadAssumption DEF TypeInv, LineInv
<1>3. LineInv'
  BY <1>1, <1>2 DEF LineInv
<1>4. PhaseInv'
  <2>1. DOMAIN down' \subseteq DOMAIN down
    BY <1>2
  <2> QED
  BY <1>1, <1>2, <2>1 DEF PhaseInv
<1>5. PacketsInv'
  <2> SUFFICES ASSUME NEW k \in DOMAIN up', up'[k].kind = "SOH"
               PROVE  /\ OfPayload(up'[k])
                      /\ up'[k].block <= acked + 1
                      /\ Active => Len(down') + k + acked + 2 <= chatter + up'[k].block
    BY <1>2 DEF PacketsInv, Active
  <2>1. CASE k \in DOMAIN up /\ up'[k] = up[k]
    <3>1. /\ OfPayload(up[k])
          /\ up[k].block <= acked + 1
          /\ Active => Len(down) + k + acked + 2 <= chatter + up[k].block
      BY <2>1 DEF PacketsInv
    <3>2. k \in Nat /\ up[k].block \in Nat /\ Len(down') \in Nat /\ Len(down') <= Len(down)
      BY <2>1, <3>1, <1>2, UploadAssumption DEF OfPayload, LineInv
    <3> QED
      BY <2>1, <3>1, <3>2, <1>2
  <2>2. CASE k = Len(up) + 1 /\ up'[k] = m
    <3>1. pc = "send" /\ m.block = acked + 1 /\ m.num = m.block % NumMod /\ down' = down
      BY <2>2
    <3>2. Len(down) + Len(up) + 2 <= chatter /\ acked + 1 \in 1 .. NumBlocks
      BY <3>1, UploadAssumption DEF BudgetInv, TypeInv
    <3>3. OfPayload(m)
      BY <3>1, <3>2 DEF OfPayload
    <3>4. m.block = acked + 1 /\ down' = down
      BY <3>1
    <3> QED
      BY <2>2, <3>2, <3>3, <3>4, <1>1, <1>2
  <2> QED
    BY <2>1, <2>2, <1>1
<1>6. AnswersInv'
  BY <1>2 DEF AnswersInv
<1>7. BudgetInv'
  BY <1>1, <1>2 DEF BudgetInv
<1>8. ImageInv'
  BY <1>2 DEF ImageInv
<1> QED
  BY <1>3, <1>4, <1>5, <1>6, <1>7, <1>8

LEMMA HostKeepsUpload ==
    ASSUME UploadInv, Host \/ WriteFails
    PROVE  UploadInv'
<1>1. TypeInv /\ TypeInv'
  BY HostTypes DEF UploadInv
<1>2. acked \in Nat
  BY <1>1, UploadAssumption DEF TypeInv
<1>3. CASE RequestUpload
  <2>1. UploadRequest \in Message /\ UploadRequest.kind = "u"
    BY DEF UploadRequest, Message
  <2> QED
    BY <1>1, <1>3, <2>1, SendKeepsUpload DEF RequestUpload, Sends
<1>4. CASE SendPacket
  <2> PICK good \in BOOLEAN : Write(Packet(good))
    BY <1>4 DEF SendPacket
  <2> DEFINE m == Packet(good)
  <2>1. m.block = acked + 1 /\ m.kind = "SOH" /\ m.num = m.block % NumMod
    BY DEF Packet, PacketNumber
  <2>2. m \in Message
    BY <1>2, UploadAssumption, Residue DEF Packet, PacketNumber, Message
  <2>3. up' \in {up, Append(up, m)}
    BY DEF Write
  <2> HIDE DEF m
  <2>4. Sends(m)
    BY <1>4, <2>3 DEF SendPacket, Sends
  <2> QED
    BY <1>1, <1>4, <2>1, <2>2, <2>4, SendKeepsUpload DEF SendPacket
<1>5. CASE SendEot
  <2>1. Eot \in Message /\ Eot.kind = "EOT"
    BY DEF Eot, Message
  <2> QED
    BY <1>1, <1>5, <2>1, SendKeepsUpload DEF SendEot, Sends, Write
<1>6. CASE Report
  <2>1. Reboot \in Message /\ Reboot.kind = "r"
    BY DEF Reboot, Message
  <2> QED
    BY <1>1, <1>6, <2>1, SendKeepsUpload DEF Report, Sends, Finish
<1>7. CASE (Timeout \/ WriteFails) /\ down' = down
  BY <1>1, <1>7 DEF UploadInv, Timeout, WriteFails, Finish, moduleVars, LineInv, PhaseInv,
     PacketsInv, AnswersInv, BudgetInv, ImageInv, Active
<1>7a. CASE EotMisread
  <2>1. /\ pc = "eot_response" /\ pc' = "eot" /\ acked' = acked /\ up' = up /\ down' = down
        /\ UNCHANGED moduleVars
    BY <1>7a DEF EotMisread
  <2> QED
    BY <1>1, <2>1 DEF UploadInv, moduleVars, LineInv, PhaseInv, PacketsInv, AnswersInv, BudgetInv,
       ImageInv, Active
<1>8. CASE Timeout /\ down # <<>> /\ down' = Tail(down)
  BY <1>1, <1>8, ReadKeepsUpload DEF Timeout, Finish, Reads
<1> QED
  BY <1>1, <1>3, <1>4, <1>5, <1>6, <1>7, <1>7a, <1>8, ReadingKeepsUpload
     DEF Host, Timeout, WriteFails

\* The banner and the start bytes are no more than there are packet numbers, of
\* which the code has 256. Each of them may have a packet sent once more, and
\* with more copies in flight the numbers would come round: TLC finds a wrong
\* image for MaxChatter = 5 and NumMod = 4.
FewStartBytes == MaxChatter <= NumMod

\* The module takes a packet for the block after its image only if it is, and for
\* the last block of its image only if it is.
LEMMA NumberNamesBlock ==
    ASSUME UploadInv, FewStartBytes, ModuleGets("SOH")
    PROVE  /\ Head(up) = up[1] /\ OfPayload(up[1]) /\ up[1].block \in Nat
           /\ up[1].block <= acked + 1
           /\ Len(down) + acked + 3 <= chatter + up[1].block
           /\ up[1].num = expect => up[1].block = Len(image) + 1
           /\ (up[1].num + 1) % NumMod = expect => up[1].block = Len(image)
<1> DEFINE b == up[1].block
           n == Len(image)
<1>1. /\ Head(up) = up[1] /\ 1 \in DOMAIN up /\ up[1].kind = "SOH" /\ Active
  BY Dropped DEF UploadInv, LineInv, ModuleGets, Active
<1>2. /\ OfPayload(up[1]) /\ b <= acked + 1 /\ Len(down) + 1 + acked + 2 <= chatter + b
  BY <1>1 DEF UploadInv, PacketsInv
<1>3. /\ b \in Nat /\ n \in Nat /\ acked \in Nat /\ Len(down) \in Nat
      /\ chatter \in Nat /\ chatter <= NumMod /\ NumMod \in Nat \ {0}
  BY <1>2, UploadAssumption DEF OfPayload, UploadInv, LineInv, TypeInv, FewStartBytes
<1>4. /\ expect = (n + 1) % NumMod /\ n <= acked + 1
      /\ acked <= n \/ acked + 2 <= n + chatter
  BY DEF UploadInv, ImageInv
<1>5. up[1].num = b % NumMod
  BY <1>2 DEF OfPayload
<1> HIDE DEF b, n
<1>6. ASSUME up[1].num = expect PROVE b = n + 1
  <2>1. b < n + 1 + NumMod /\ n + 1 < b + NumMod
    BY <1>2, <1>3, <1>4
  <2>2. b % NumMod = (n + 1) % NumMod /\ n + 1 \in Nat
    BY <1>3, <1>4, <1>5, <1>6
  <2>3. CASE b <= n + 1
    BY <1>3, <2>1, <2>2, <2>3, SameResidue
  <2>4. CASE n + 1 <= b
    BY <1>3, <2>1, <2>2, <2>4, SameResidue
  <2> QED
    BY <1>3, <2>3, <2>4
<1>7. ASSUME (up[1].num + 1) % NumMod = expect PROVE b = n
  <2>1. b + 1 < n + 1 + NumMod /\ n + 1 < b + 1 + NumMod
    BY <1>2, <1>3, <1>4
  <2>2. (b + 1) % NumMod = (n + 1) % NumMod /\ n + 1 \in Nat /\ b + 1 \in Nat
    <3>1. ((b % NumMod) + 1) % NumMod = (b + 1) % NumMod
      BY <1>3, NextResidue
    <3>2. ((b % NumMod) + 1) % NumMod = (n + 1) % NumMod
      BY <1>4, <1>5, <1>7, Zenon
    <3>3. n + 1 \in Nat /\ b + 1 \in Nat
      BY <1>3
    <3> QED
      BY <3>1, <3>2, <3>3, Zenon
  <2>3. CASE b + 1 <= n + 1
    <3>1. b + 1 = n + 1
      BY <1>3, <2>1, <2>2, <2>3, SameResidue
    <3> QED
      BY <1>3, <3>1
  <2>4. CASE n + 1 <= b + 1
    <3>1. b + 1 = n + 1
      BY <1>3, <2>1, <2>2, <2>4, SameResidue
    <3> QED
      BY <1>3, <3>1
  <2> QED
    BY <1>3, <2>3, <2>4
<1> QED
  BY <1>1, <1>2, <1>3, <1>6, <1>7 DEF b, n

\* The module takes a packet off the line and answers with s, if it is not lost.
LEMMA AnswerKeepsUpload ==
    ASSUME UploadInv, FewStartBytes, ModuleGets("SOH"), NEW s \in Words,
           down' \in {down, Append(down, s)},
           UNCHANGED <<hostVars, chatter>>,
           module' \in {module, "receiving", "ended"},
           image' \in Seq(Nat), Len(image) <= Len(image'), ImageInv',
           s = "ACK" => up[1].block <= Len(image')
    PROVE  UploadInv'
<1> USE DEF hostVars, eotVars
<1>1. /\ Tail(up) \in Seq(Message) /\ Len(up) \in Nat \ {0}
      /\ Len(Tail(up)) = Len(up) - 1
      /\ \A k \in DOMAIN Tail(up) : k \in Nat /\ k + 1 \in DOMAIN up /\ Tail(up)[k] = up[k + 1]
  BY Dropped DEF UploadInv, LineInv, ModuleGets
<1>2. up' = Tail(up) /\ Active /\ up # <<>>
  BY DEF ModuleGets, Active
<1>3. /\ Append(down, s) \in Seq(Words) /\ Len(down) \in Nat
      /\ Len(Append(down, s)) = Len(down) + 1
      /\ DOMAIN down = 1 .. Len(down)
      /\ DOMAIN Append(down, s) = 1 .. Len(down) + 1
      /\ \A k \in DOMAIN down : Append(down, s)[k] = down[k]
      /\ Append(down, s)[Len(down) + 1] = s
  BY Added DEF UploadInv, LineInv
<1>4. Len(down) \in Nat /\ Len(down') \in Nat /\ Len(down') <= Len(down) + 1
  BY <1>3
<1>5. /\ acked \in Nat /\ chatter \in Nat /\ Len(image) \in Nat /\ Len(image') \in Nat
      /\ acked' = acked /\ chatter' = chatter /\ pc' = pc
  BY UploadAssumption DEF UploadInv, TypeInv, LineInv
<1>6. /\ 1 \in DOMAIN up /\ up[1].kind = "SOH"
      /\ up[1].block \in Nat
      /\ Len(down) + acked + 3 <= chatter + up[1].block
  BY NumberNamesBlock, Dropped DEF UploadInv, LineInv, ModuleGets
<1>7. pc \notin {"prepare", "banner", "start"}
  BY <1>6 DEF UploadInv, PhaseInv
<1>8. LineInv'
  BY <1>1, <1>2, <1>3 DEF UploadInv, LineInv
<1>9. PhaseInv'
  BY <1>1, <1>2, <1>5, <1>7 DEF UploadInv, PhaseInv, Active
<1>10. PacketsInv'
  <2> SUFFICES ASSUME NEW k \in DOMAIN Tail(up), Tail(up)[k].kind = "SOH"
               PROVE  /\ OfPayload(Tail(up)[k])
                      /\ Tail(up)[k].block <= acked + 1
                      /\ Len(down') + k + acked + 2 <= chatter + Tail(up)[k].block
    BY <1>2, <1>5 DEF PacketsInv
  <2>1. k \in Nat /\ k + 1 \in DOMAIN up /\ Tail(up)[k] = up[k + 1]
    BY <1>1
  <2>2. /\ OfPayload(up[k + 1])
        /\ up[k + 1].block <= acked + 1
        /\ Len(down) + (k + 1) + acked + 2 <= chatter + up[k + 1].block
    BY <1>2, <2>1 DEF UploadInv, PacketsInv
  <2>3. up[k + 1].block \in Nat
    BY <2>2, UploadAssumption DEF OfPayload
  <2>4. Len(down') + k + acked + 2 <= chatter + up[k + 1].block
    BY <1>4, <1>5, <2>1, <2>2, <2>3
  <2> QED
    BY <2>1, <2>2, <2>4
<1>11. AnswersInv'
  <2> SUFFICES ASSUME pc \in {"send", "response"}, NEW k \in DOMAIN down', down'[k] = "ACK"
               PROVE  acked + k + 2 <= Len(image') + chatter
    BY <1>5 DEF AnswersInv
  <2>1. CASE k \in DOMAIN down /\ down'[k] = down[k]
    <3>1. acked + k + 2 <= Len(image) + chatter /\ k \in Nat
      BY <1>3, <2>1 DEF UploadInv, AnswersInv
    <3> QED
      BY <1>5, <3>1
  <2>2. CASE k = Len(down) + 1 /\ s = "ACK"
    BY <1>3, <1>5, <1>6, <2>2
  <2> QED
    BY <2>1, <2>2, <1>3
<1>12. BudgetInv'
  BY <1>1, <1>2, <1>3, <1>4, <1>5, <1>7 DEF UploadInv, BudgetInv
<1>13. TypeInv'
  BY <1>5 DEF UploadInv, TypeInv
<1> QED
  BY <1>8, <1>9, <1>10, <1>11, <1>12, <1>13 DEF UploadInv

LEMMA ModuleKeepsUpload ==
    ASSUME UploadInv, FewStartBytes, Module \/ ModulePrompts
    PROVE  UploadInv'
<1>1. TypeInv /\ TypeInv'
  BY ModuleTypes DEF UploadInv
<1>2. /\ up \in Seq(Message) /\ down \in Seq(Words) /\ image \in Seq(Nat)
      /\ Len(image) \in Nat /\ Len(down) \in Nat
      /\ acked \in Nat /\ chatter \in Nat
  BY <1>1, UploadAssumption DEF UploadInv, LineInv, TypeInv
<1>2a. Len(image) \in Nat /\ Len(down) \in Nat /\ acked \in Nat /\ chatter \in Nat
  BY <1>2
<1>2b. "ACK" \in Words /\ "NAK" \in Words /\ "CAN" \in Words /\ "NL" \in Words /\ "C" \in Words
  BY DEF Words
<1>3. up # <<>> =>
        /\ Tail(up) \in Seq(Message) /\ Len(up) \in Nat \ {0}
        /\ Len(Tail(up)) = Len(up) - 1 /\ DOMAIN Tail(up) = 1 .. Len(up) - 1
        /\ 1 \in DOMAIN up /\ Head(up) = up[1]
        /\ \A k \in DOMAIN Tail(up) : k \in Nat /\ k + 1 \in DOMAIN up /\ Tail(up)[k] = up[k + 1]
  BY <1>2, Dropped
<1>4. CASE ModuleStarts
  <2>1. /\ module = "idle" /\ module' = "ready" /\ up # <<>> /\ up' = Tail(up)
        /\ down' = down /\ pc' = pc /\ acked' = acked /\ chatter' = chatter
        /\ image' = image /\ expect' = expect
    BY <1>4 DEF ModuleStarts, hostVars, eotVars
  <2>2. down = <<>> /\ Len(up) <= 1 /\ pc \in {"prepare", "banner", "done"} /\ pc # "prepare"
    BY <2>1 DEF UploadInv, PhaseInv
  <2>3. DOMAIN Tail(up) = {} /\ DOMAIN down = {} /\ Len(down) = 0
    BY <1>3, <2>1, <2>2
  <2>4. LineInv' /\ PhaseInv' /\ PacketsInv' /\ AnswersInv' /\ BudgetInv' /\ ImageInv'
    BY <1>2, <1>3, <2>1, <2>2, <2>3
       DEF UploadInv, LineInv, PhaseInv, PacketsInv, AnswersInv, BudgetInv, ImageInv
  <2> QED
    BY <1>1, <2>4 DEF UploadInv
<1>5. CASE ModuleChatters
  <2> PICK b \in {"NL", "C"} : down' = Append(down, b)
    BY <1>5 DEF ModuleChatters
  <2>1. /\ module = "ready" /\ module' = module /\ up' = up
        /\ pc' = pc /\ acked' = acked /\ chatter' = chatter + 1
        /\ image' = image /\ expect' = expect
    BY <1>5 DEF ModuleChatters, hostVars, eotVars
  <2>2. /\ down' \in Seq(Words)
        /\ Len(down') = Len(down) + 1
        /\ DOMAIN down = 1 .. Len(down)
        /\ DOMAIN down' = 1 .. Len(down) + 1
        /\ \A k \in DOMAIN down : down'[k] = down[k]
        /\ down'[Len(down) + 1] = b
    <3>1. b \in Words
      BY <1>2b
    <3> QED
      BY <1>2, <3>1, Added
  <2>3. LineInv'
    BY <2>1, <2>2 DEF UploadInv, LineInv
  <2>4. PhaseInv'
    BY <2>1, <2>2 DEF UploadInv, PhaseInv
  <2>5. PacketsInv'
    <3> SUFFICES ASSUME NEW k \in DOMAIN up, up[k].kind = "SOH"
                 PROVE  /\ OfPayload(up[k])
                        /\ up[k].block <= acked + 1
                        /\ Len(down') + k + acked + 2 <= chatter' + up[k].block
      BY <2>1 DEF PacketsInv
    <3>1. /\ OfPayload(up[k])
          /\ up[k].block <= acked + 1
          /\ Len(down) + k + acked + 2 <= chatter + up[k].block
      BY <2>1 DEF UploadInv, PacketsInv, Active
    <3>2. k \in Nat /\ up[k].block \in Nat
      <4>1. k \in Nat
        BY <1>2
      <4>2. up[k].block \in Nat
        BY <3>1, UploadAssumption DEF OfPayload
      <4> QED
        BY <4>1, <4>2
    <3>3. Len(down') = Len(down) + 1 /\ chatter' = chatter + 1
      BY <2>1, <2>2
    <3>4. Len(down') + k + acked + 2 <= chatter' + up[k].block
      BY <1>2a, <3>1, <3>2, <3>3
    <3> QED
      BY <3>1, <3>4
  <2>6. AnswersInv'
    <3> SUFFICES ASSUME pc \in {"send", "response"}, NEW k \in DOMAIN down', down'[k] = "ACK"
                 PROVE  acked + k + 2 <= Len(image) + chatter'
      BY <2>1 DEF AnswersInv
    <3>1. k \in DOMAIN down /\ down[k] = "ACK" /\ k \in Nat
      BY <1>2, <2>2
    <3>2. acked + k + 2 <= Len(image) + chatter
      BY <3>1 DEF UploadInv, AnswersInv
    <3> QED
      BY <1>2, <2>1, <3>1, <3>2
  <2>7. BudgetInv'
    BY <1>2, <2>1, <2>2 DEF UploadInv, BudgetInv, LineInv
  <2>8. ImageInv'
    BY <1>2, <2>1 DEF UploadInv, ImageInv
  <2> QED
    BY <1>1, <2>3, <2>4, <2>5, <2>6, <2>7, <2>8 DEF UploadInv
<1>6. CASE ModuleTakesPacket
  <2> DEFINE b == up[1].block
             n == Len(image)
  <2>1. /\ ModuleGets("SOH") /\ up # <<>> /\ UNCHANGED <<hostVars, chatter>>
        /\ Head(up).num = expect /\ image' = Append(image, Head(up).block)
        /\ expect' = (expect + 1) % NumMod /\ module' = "receiving"
    BY <1>6 DEF ModuleTakesPacket, ModuleGets
  <2>2. down' \in {down, Append(down, "ACK")}
    <3>1. down \o <<"ACK">> = Append(down, "ACK")
      BY <1>2, AddedOne
    <3> QED
      BY <1>6, <3>1 DEF ModuleTakesPacket, Say
  <2>3. b = n + 1 /\ b <= acked + 1 /\ OfPayload(up[1]) /\ image' = Append(image, b)
    BY <2>1, NumberNamesBlock
  <2>4. b \in Nat /\ b <= NumBlocks
    BY <2>3, UploadAssumption DEF OfPayload
  <2> HIDE DEF b
  <2>5. /\ image' \in Seq(Nat) /\ Len(image') = n + 1
        /\ DOMAIN image = 1 .. n
        /\ DOMAIN image' = 1 .. n + 1
        /\ \A k \in DOMAIN image : image'[k] = image[k]
        /\ image'[n + 1] = b
    BY <1>2, <2>3, <2>4, Added
  <2>6. ImageInv'
    <3> HIDE DEF n
    <3>1. \A k \in DOMAIN image' : image'[k] = k
      BY <1>2, <2>3, <2>5 DEF UploadInv, ImageInv, n
    <3>2. expect' = ((n + 1) + 1) % NumMod
      <4>1. expect = (n + 1) % NumMod
        BY DEF UploadInv, ImageInv, n
      <4>2. n + 1 \in Nat /\ NumMod \in Nat \ {0}
        BY <1>2, UploadAssumption DEF n
      <4>3. (((n + 1) % NumMod) + 1) % NumMod = ((n + 1) + 1) % NumMod
        BY <4>2, NextResidue
      <4> QED
        BY <2>1, <4>1, <4>3, Zenon
    <3>3. Len(image') <= NumBlocks /\ Len(image') <= acked + 1
      BY <2>3, <2>4, <2>5
    <3>4. acked <= Len(image') \/ acked + 2 <= Len(image') + chatter
      <4>1. acked <= n \/ acked + 2 <= n + chatter
        BY DEF UploadInv, ImageInv, n
      <4>2. n \in Nat
        BY <1>2 DEF n
      <4> QED
        BY <1>2, <2>5, <4>1, <4>2
    <3>5. expect' = (Len(image') + 1) % NumMod
      BY <2>5, <3>2, Zenon
    <3> QED
      BY <2>1, <3>1, <3>3, <3>4, <3>5 DEF ImageInv, hostVars, eotVars
  <2>7. Len(image) <= Len(image') /\ up[1].block <= Len(image')
    BY <1>2, <2>3, <2>4, <2>5 DEF b
  <2> QED
    BY <1>2b, <2>1, <2>2, <2>5, <2>6, <2>7, AnswerKeepsUpload
<1>7. CASE ModuleRefusesPacket
  <2>1. down \o <<"NAK">> = Append(down, "NAK")
    BY <1>2, AddedOne
  <2>2. ImageInv'
    BY <1>7 DEF ModuleRefusesPacket, UploadInv, ImageInv, hostVars, eotVars, moduleVars
  <2>3. /\ down' \in {down, Append(down, "NAK")} /\ ModuleGets("SOH")
        /\ UNCHANGED <<hostVars, chatter>> /\ module' = module /\ image' = image
        /\ Len(image) <= Len(image')
    BY <1>2a, <1>7, <2>1 DEF ModuleRefusesPacket, Say, moduleVars
  <2> QED
    BY <1>2, <1>2b, <2>2, <2>3, AnswerKeepsUpload
<1>8. CASE ModuleGetsPacketAgain
  <2>1. down \o <<"ACK">> = Append(down, "ACK")
    BY <1>2, AddedOne
  <2>2. ImageInv'
    BY <1>8 DEF ModuleGetsPacketAgain, UploadInv, ImageInv, hostVars, eotVars, moduleVars
  <2>3. up[1].block = Len(image)
    BY <1>8, NumberNamesBlock DEF ModuleGetsPacketAgain
  <2>4. /\ down' \in {down, Append(down, "ACK")} /\ ModuleGets("SOH")
        /\ UNCHANGED <<hostVars, chatter>> /\ module' = module /\ image' = image
        /\ Len(image) <= Len(image') /\ up[1].block <= Len(image')
    BY <1>2a, <1>8, <2>1, <2>3 DEF ModuleGetsPacketAgain, Say, moduleVars
  <2> QED
    BY <1>2, <1>2b, <2>2, <2>4, AnswerKeepsUpload
<1>9. CASE ModuleCancels
  <2>1. down \o <<"CAN">> = Append(down, "CAN")
    BY <1>2, AddedOne
  <2>2. ImageInv'
    BY <1>9 DEF ModuleCancels, UploadInv, ImageInv, hostVars, eotVars
  <2>3. /\ down' \in {down, Append(down, "CAN")} /\ ModuleGets("SOH")
        /\ UNCHANGED <<hostVars, chatter>> /\ module' = "ended" /\ image' = image
        /\ Len(image) <= Len(image')
    BY <1>2a, <1>9, <2>1 DEF ModuleCancels, Say
  <2> QED
    BY <1>2, <1>2b, <2>2, <2>3, AnswerKeepsUpload
<1>10. CASE ModuleGetsEot
  <2>1. /\ up # <<>> /\ up' = Tail(up) /\ Head(up).kind = "EOT" /\ module' = "ended"
        /\ module # "idle"
        /\ pc' = pc /\ acked' = acked /\ chatter' = chatter
        /\ image' = image /\ expect' = expect
    BY <1>10 DEF ModuleGetsEot, ModuleGets, hostVars, eotVars
  <2>2. pc \notin {"prepare", "banner", "start", "send", "response"}
    BY <1>3, <2>1 DEF UploadInv, PhaseInv
  <2>3. down' \in Seq(Words)
    <3>1. PICK t \in Lines \cup {<<"downloaded", "failed">>} :
                 down' \in {down \o <<"ACK", "NL">> \o t, down \o t}
      BY <1>10 DEF ModuleGetsEot
    <3>2. t \in Seq(Words) /\ <<"ACK", "NL">> \in Seq(Words)
      BY <3>1, LinesOfWords DEF Lines
    <3> HIDE DEF Lines
    <3>3. down \o t \in Seq(Words) /\ down \o <<"ACK", "NL">> \in Seq(Words)
      BY <1>2, <3>2, AddedAll
    <3>4. down \o <<"ACK", "NL">> \o t \in Seq(Words)
      BY <3>2, <3>3, AddedAll
    <3> QED
      BY <3>1, <3>3, <3>4
  <2>4. LineInv'
    BY <1>2, <1>3, <2>1, <2>3 DEF LineInv
  <2>5. PhaseInv'
    BY <1>3, <2>1, <2>2 DEF UploadInv, PhaseInv
  <2>6. PacketsInv'
    BY <1>3, <2>1 DEF UploadInv, PacketsInv, Active
  <2>7. AnswersInv' /\ BudgetInv' /\ ImageInv'
    BY <2>1, <2>2 DEF UploadInv, AnswersInv, BudgetInv, ImageInv
  <2> QED
    BY <1>1, <2>4, <2>5, <2>6, <2>7 DEF UploadInv
<1>11. CASE ModuleIgnores
  <2>1. /\ up # <<>> /\ up' = Tail(up) /\ module = "ended" /\ module' = module
        /\ pc' = pc /\ acked' = acked /\ chatter' = chatter /\ down' = down
        /\ image' = image /\ expect' = expect
    BY <1>11 DEF ModuleIgnores, hostVars, eotVars, moduleVars
  <2>2. LineInv' /\ PhaseInv'
    BY <1>2, <1>3, <2>1 DEF UploadInv, LineInv, PhaseInv
  <2>3. PacketsInv'
    BY <1>3, <2>1 DEF UploadInv, PacketsInv, Active
  <2>4. AnswersInv' /\ ImageInv'
    BY <2>1 DEF UploadInv, AnswersInv, ImageInv
  <2>5. BudgetInv'
    BY <1>2, <1>3, <2>1 DEF UploadInv, BudgetInv
  <2> QED
    BY <1>1, <2>2, <2>3, <2>4, <2>5 DEF UploadInv
<1>12. CASE ModulePrompts
  <2> PICK b \in {"NL", "C"} : down' = <<b>>
    BY <1>12 DEF ModulePrompts
  <2>1. /\ module = "ready" /\ module' = module /\ up = <<>> /\ up' = up /\ pc = "response"
        /\ pc' = pc /\ acked' = acked /\ chatter' = chatter
        /\ image' = image /\ expect' = expect
    BY <1>12 DEF ModulePrompts, hostVars, moduleVars
  <2>2. down' \in Seq(Words) /\ Len(down') = 1 /\ \A k \in DOMAIN down' : down'[k] # "ACK"
    BY <1>2b
  <2>3. Len(up) = 0 /\ DOMAIN up = {}
    BY <2>1
  <2>4. LineInv' /\ PhaseInv'
    BY <2>1, <2>2, <2>3 DEF UploadInv, LineInv, PhaseInv
  <2>5. PacketsInv' /\ AnswersInv' /\ ImageInv'
    BY <2>1, <2>2, <2>3 DEF UploadInv, PacketsInv, AnswersInv, ImageInv
  <2>6. BudgetInv'
    BY <1>2a, <2>1, <2>2, <2>3 DEF UploadInv, BudgetInv
  <2> QED
    BY <1>1, <2>4, <2>5, <2>6 DEF UploadInv
<1> QED
  BY <1>4, <1>5, <1>6, <1>7, <1>8, <1>9, <1>10, <1>11, <1>12 DEF Module

-----------------------------------------------------------------------------
(* The report of the module *)

LEMMA HostKeepsReport ==
    ASSUME ReportInv, Host \/ WriteFails
    PROVE  ReportInv'
<1> USE DEF hostVars, eotVars, moduleVars
<1>1. down # <<>> =>
        /\ Tail(down) \in Seq(Words)
        /\ \A k \in DOMAIN Tail(down) : k + 1 \in DOMAIN down /\ Tail(down)[k] = down[k + 1]
  BY Dropped DEF ReportInv
<1>2. <<>> \in Seq(Words) /\ DOMAIN <<>> = {}
  OBVIOUS
<1>3. CASE Report
  <2>1. down' = <<>> /\ UNCHANGED <<image, module, installed>>
    BY <1>3 DEF Report
  <2>2. ASSUME result' = "OK" PROVE installed
    <3>1. PICK r \in {Verdict(down)} \cup
                (IF "write" \in Faults /\ Verdict(down) = "OK" THEN {"ERROR"} ELSE {}) : Finish(r)
      BY <1>3 DEF Report
    <3>2. r = "OK" /\ Verdict(down) = "OK"
      BY <2>2, <3>1 DEF Finish
    <3>3. Said(down, 3, "activated")
      BY <3>2 DEF Verdict
    <3> QED
      BY <3>3 DEF Said, ReportInv
  <2> QED
    BY <1>2, <2>1, <2>2 DEF ReportInv
<1>4. CASE ~ Report
  <2>1. /\ UNCHANGED <<image, module, installed>>
        /\ down' = down \/ (down # <<>> /\ down' = Tail(down))
    BY <1>4 DEF Host, WriteFails, RequestUpload, WaitFor, SendPacket, RxAck, RxNak, RxCan, RxStart,
       SendEot, RxEotResponse, EotMisread, SkipByte, Timeout, Response
  <2>2. result' = "OK" => result = "OK"
    BY <1>4 DEF Host, WriteFails, RequestUpload, WaitFor, SendPacket, RxAck, RxNak, RxCan, RxStart,
       SendEot, RxEotResponse, EotMisread, SkipByte, Timeout, Response, Finish
  <2> QED
    BY <1>1, <2>1, <2>2 DEF ReportInv
<1> QED
  BY <1>3, <1>4

LEMMA ModuleKeepsReport ==
    ASSUME ReportInv, Module \/ ModulePrompts
    PROVE  ReportInv'
<1> USE DEF hostVars, eotVars, moduleVars
<1>1. /\ down \in Seq(Words) /\ "ACK" \in Words /\ "NAK" \in Words /\ "CAN" \in Words
      /\ "NL" \in Words /\ "C" \in Words
  BY DEF ReportInv, Words
<1>2. ASSUME NEW e \in Words, e # "activated", down' = Append(down, e)
      PROVE  down' \in Seq(Words) /\ \A k \in DOMAIN down' : down'[k] = "activated" => installed
  BY <1>1, <1>2, Added DEF ReportInv
<1>3. ModuleStarts \/ ModuleIgnores => ReportInv'
  BY DEF ModuleStarts, ModuleIgnores, ReportInv
<1>4. CASE ModuleChatters
  BY <1>1, <1>2, <1>4 DEF ModuleChatters, ReportInv
<1>4a. CASE ModulePrompts
  <2>1. PICK b \in {"NL", "C"} : down' = <<b>>
    BY <1>4a DEF ModulePrompts
  <2>2. down' \in Seq(Words) /\ \A k \in DOMAIN down' : down'[k] # "activated"
    BY <1>1, <2>1
  <2> QED
    BY <1>4a, <2>2 DEF ModulePrompts, ReportInv
<1>5. CASE ModuleTakesPacket \/ ModuleRefusesPacket \/ ModuleGetsPacketAgain \/ ModuleCancels
  <2>1. \E e \in {"ACK", "NAK", "CAN"} : Say(<<e>>)
    BY <1>5 DEF ModuleTakesPacket, ModuleRefusesPacket, ModuleGetsPacketAgain, ModuleCancels
  <2>2. PICK e \in {"ACK", "NAK", "CAN"} : down' \in {down, down \o <<e>>}
    BY <2>1 DEF Say
  <2>3. e \in Words /\ e # "activated" /\ down \o <<e>> = Append(down, e)
    BY <1>1, <2>2, AddedOne
  <2>4. down' \in Seq(Words) /\ \A k \in DOMAIN down' : down'[k] = "activated" => installed
    BY <1>2, <2>2, <2>3 DEF ReportInv
  <2>5. module \in {"ready", "receiving"} /\ installed' = installed /\ result' = result
    BY <1>5 DEF ModuleTakesPacket, ModuleRefusesPacket, ModuleGetsPacketAgain, ModuleCancels,
       ModuleGets
  <2> QED
    BY <2>4, <2>5 DEF ReportInv
<1>6. CASE ModuleGetsEot
  <2>1. PICK t \in IF image = Payload THEN Lines ELSE {<<"downloaded", "failed">>} :
                 /\ installed' = (Len(t) = 3 /\ t[3] = "activated")
                 /\ down' \in {down \o <<"ACK", "NL">> \o t, down \o t}
    BY <1>6 DEF ModuleGetsEot
  <2>2. /\ module' = "ended" /\ image' = image /\ result' = result
        /\ module # "ended"
    BY <1>6 DEF ModuleGetsEot, ModuleGets
  <2>3. ~ installed
    BY <2>2 DEF ReportInv
  <2>4. /\ t \in {<<"failed">>, <<"downloaded", "failed">>,
                   <<"downloaded", "verified", "failed">>,
                   <<"downloaded", "verified", "activated">>}
        /\ t = <<"downloaded", "verified", "activated">> => image = Payload
    BY <2>1 DEF Lines
  <2>5. /\ installed' => t = <<"downloaded", "verified", "activated">>
        /\ \A k \in DOMAIN t : t[k] = "activated" => installed'
    <3>1. CASE t = <<"failed">> \/ t = <<"downloaded", "failed">>
      <4>1. Len(t) # 3 /\ \A k \in DOMAIN t : t[k] # "activated"
        BY <3>1
      <4> QED
        BY <2>1, <4>1
    <3>2. CASE t = <<"downloaded", "verified", "failed">>
      <4>1. t[3] # "activated" /\ \A k \in DOMAIN t : t[k] # "activated"
        BY <3>2
      <4> QED
        BY <2>1, <4>1
    <3>3. CASE t = <<"downloaded", "verified", "activated">>
      <4>1. Len(t) = 3 /\ t[3] = "activated"
        BY <3>3
      <4> QED
        BY <2>1, <3>3, <4>1
    <3> QED
      BY <2>4, <3>1, <3>2, <3>3
  <2>6. t \in Seq(Words)
    BY <2>4, LinesOfWords
  <2> DEFINE a == <<"ACK", "NL">>
  <2>7. a \in Seq(Words) /\ \A k \in DOMAIN a : a[k] # "activated"
    BY LinesOfWords
  <2> HIDE DEF a
  <2>8. ASSUME NEW s \in Seq(Words), \A k \in DOMAIN s : s[k] = "activated" => installed'
        PROVE  /\ s \o t \in Seq(Words)
               /\ \A k \in DOMAIN (s \o t) : (s \o t)[k] = "activated" => installed'
    BY <2>5, <2>6, <2>8, AddedAll
  <2>9. /\ down \o a \in Seq(Words)
        /\ \A k \in DOMAIN (down \o a) : (down \o a)[k] # "activated"
    BY <1>1, <2>3, <2>7, AddedAll DEF ReportInv
  <2>10. /\ down' \in Seq(Words)
         /\ \A k \in DOMAIN down' : down'[k] = "activated" => installed'
    BY <1>1, <2>1, <2>3, <2>8, <2>9 DEF a, ReportInv
  <2>11. result' # "OK"
    BY <2>2, <2>3 DEF ReportInv
  <2> QED
    BY <2>2, <2>4, <2>5, <2>10, <2>11 DEF ReportInv
<1> QED
  BY <1>3, <1>4, <1>4a, <1>5, <1>6 DEF Module

-----------------------------------------------------------------------------
(* The theorems *)

LEMMA ReportAlways == Spec => []ReportInv
<1>1. ReportInv /\ [Next]_vars => ReportInv'
  <2> SUFFICES ASSUME ReportInv, [Next]_vars PROVE ReportInv'
    OBVIOUS
  <2>1. CASE UNCHANGED vars
    BY <2>1 DEF vars, hostVars, eotVars, moduleVars, ReportInv
  <2> QED
    BY <2>1, HostKeepsReport, ModuleKeepsReport DEF Next, Finished
<1> QED
  BY UploadInit, <1>1, PTL DEF Spec

\* SuccessIsInstalled: ll_xmodem_send returns 0 only after the three lines, and
\* the module says the third of no other image than the payload.
THEOREM SuccessMeansInstalled == Spec => []SuccessIsInstalled
<1>1. ReportInv => SuccessIsInstalled
  BY DEF ReportInv, SuccessIsInstalled
<1> QED
  BY ReportAlways, <1>1, PTL

LEMMA UploadAlways ==
    ASSUME FewStartBytes
    PROVE  Spec => []UploadInv
<1>1. UploadInv /\ [Next]_vars => UploadInv'
  <2> SUFFICES ASSUME UploadInv, [Next]_vars PROVE UploadInv'
    OBVIOUS
  <2>1. CASE UNCHANGED vars
    BY <2>1 DEF vars, hostVars, eotVars, moduleVars, UploadInv, TypeInv, LineInv, PhaseInv, PacketsInv,
       AnswersInv, BudgetInv, ImageInv, Active
  <2> QED
    BY <2>1, HostKeepsUpload, ModuleKeepsUpload DEF Next, Finished
<1> QED
  BY UploadInit, <1>1, PTL DEF Spec

\* ImageIsPrefix: whatever is lost, damaged or sent again, the module's image is
\* a beginning of the payload, though packets are told apart by one byte.
THEOREM ImageAlwaysPrefix ==
    ASSUME FewStartBytes
    PROVE  Spec => []ImageIsPrefix
<1>1. UploadInv => ImageIsPrefix
  <2> SUFFICES ASSUME UploadInv PROVE image = SubSeq(Payload, 1, Len(image))
    BY DEF ImageIsPrefix
  <2> DEFINE n == Len(image)
  <2>1. /\ image \in Seq(Nat) /\ n \in Nat /\ n <= NumBlocks /\ NumBlocks \in Nat
        /\ \A k \in DOMAIN image : image[k] = k
    BY UploadAssumption DEF UploadInv, LineInv, ImageInv
  <2>2. Payload \in Seq(Nat) /\ Len(Payload) = NumBlocks
    BY <2>1 DEF Payload
  <2>3. /\ SubSeq(Payload, 1, n) \in Seq(Nat) /\ Len(SubSeq(Payload, 1, n)) = n
        /\ \A k \in 1 .. n : SubSeq(Payload, 1, n)[k] = Payload[k]
    BY <2>1, <2>2
  <2>4. \A k \in 1 .. n : SubSeq(Payload, 1, n)[k] = image[k]
    BY <2>1, <2>3 DEF Payload
  <2> QED
    BY <2>1, <2>3, <2>4, SeqEqual
<1> QED
  BY UploadAlways, <1>1, PTL

\* OffsetIsEarned: the offset ll_xmodem_send counts and reports is ahead of the
\* module's image by no more than the start bytes it had to skip.
THEOREM OffsetAlwaysEarned ==
    ASSUME FewStartBytes
    PROVE  Spec => []OffsetIsEarned
<1>1. UploadInv => OffsetIsEarned
  BY UploadAssumption DEF UploadInv, TypeInv, LineInv, ImageInv, OffsetIsEarned
<1> QED
  BY UploadAlways, <1>1, PTL

\* TypeOK: ll_xmodem_send never builds a packet from beyond the payload, and
\* never tries one more often than MAX_ATTEMPTS allows.
THEOREM TypeCorrect == Spec => []TypeOK
<1>1. TypeInv /\ [Next]_vars => TypeInv'
  <2> SUFFICES ASSUME TypeInv, [Next]_vars PROVE TypeInv'
    OBVIOUS
  <2>1. CASE UNCHANGED vars
    BY <2>1 DEF vars, hostVars, eotVars, moduleVars, TypeInv
  <2> QED
    BY <2>1, HostTypes, ModuleTypes DEF Next, Finished
<1>2. Init => FlagInv
  BY DEF Init, FlagInv
<1>3. FlagInv /\ [Next]_vars => FlagInv'
  <2> SUFFICES ASSUME FlagInv, [Next]_vars PROVE FlagInv'
    OBVIOUS
  <2> USE DEF FlagInv, vars, hostVars, eotVars
  <2>1. CASE RxEotResponse
    BY <2>1 DEF RxEotResponse
  <2>2. CASE Module \/ ModulePrompts
    BY <2>2 DEF Module, ModulePrompts, ModuleChatters, ModuleStarts, ModuleTakesPacket,
       ModuleRefusesPacket, ModuleGetsPacketAgain, ModuleCancels, ModuleGetsEot, ModuleIgnores
  <2>3. CASE (Host \/ WriteFails) /\ ~ RxEotResponse
    BY <2>3 DEF Host, WriteFails, RequestUpload, WaitFor, SendPacket, RxAck, RxNak, RxCan, RxStart,
       SendEot, EotMisread, SkipByte, Timeout, Report, Response
  <2>4. CASE UNCHANGED vars
    BY <2>4
  <2> QED
    BY <2>1, <2>2, <2>3, <2>4 DEF Next, Finished
<1>4. TypeInv /\ FlagInv => TypeOK
  BY DEF TypeInv, FlagInv, TypeOK, Places
<1> QED
  BY InitTypes, <1>1, <1>2, <1>3, <1>4, PTL DEF Spec
=============================================================================
