-------------------------- MODULE FtpSessionProofs --------------------------
(***************************************************************************)
(* The session's properties, proved for every set of files, every number   *)
(* of segments, every limit and any number of messages on the link.        *)
(*                                                                         *)
(* What is proved of the client alone is used here by way of               *)
(* SessionIsClient. The bound on the silence is not inductive as it        *)
(* stands: ShortSilence also tells whether the link holds a message that   *)
(* will end the silence or have the missing segments asked for again.      *)
(***************************************************************************)
EXTENDS FtpSession, FtpClientProofs

\* A file that cannot be opened does not interrupt another one's transfer. (Its
\* TX_INIT would: the NAK takes the time stamp, postpones the next request for
\* segments, and asks for nothing itself.)
NoVainStarts == "open" \notin Faulty \/ \A g, h \in Files : g = h

-----------------------------------------------------------------------------
(* The session is one of the client's behaviours *)

\* A message of the session is one that FtpClient lets come.
LEMMA ReceivesIsRx ==
    ASSUME server_up, UNCHANGED server_up, NEW m \in Messages, Receives(m)
    PROVE  Rx
<1>1. /\ m.about \in Files
      /\ m.type = "TX_SEGMENT" => m.seg \in SegNums
  BY DEF Messages, Message, TxSegment
<1>2. CASE m.type = "TX_INIT" /\ RxInit(m.about)
  BY <1>1, <1>2 DEF RxInit, Rx
<1>3. CASE m.type = "TX_SEGMENT" /\ RxSegment(m.about, m.seg)
  BY <1>1, <1>3 DEF RxSegment, Rx
<1>4. CASE m.type = "TX_APPLY" /\ RxApply(m.about)
  BY <1>4, Zenon DEF RxApply, Rx
<1>5. CASE m.type = "TX_CANCEL" /\ RxCancel(m.about)
  BY <1>5, Zenon DEF RxCancel, Rx
<1> QED
  BY <1>2, <1>3, <1>4, <1>5 DEF Receives

LEMMA ClientStep ==
    ASSUME server_up, [SessionNext]_sessionVars
    PROVE  server_up' /\ [Next]_vars
<1>1. ASSUME NEW m \in Messages, Deliver(m) \/ Stray(m)
      PROVE  server_up' /\ [Next]_vars
  BY <1>1, ReceivesIsRx DEF Deliver, Stray, Sends, Next
<1>2. CASE ClientTick
  BY <1>2 DEF ClientTick, Sends, Next
<1>3. CASE (\E u \in up : ServerHears(u)) \/ Lose \/ UNCHANGED sessionVars
  BY <1>3 DEF ServerHears, Lose, sessionVars, vars
<1>4. CASE SecondPasses
  BY <1>4 DEF SecondPasses, Clock, Next
<1> QED
  BY <1>1, <1>2, <1>3, <1>4 DEF SessionNext

LEMMA ServerStays == SessionSpec => []server_up
<1>1. SessionInit => server_up
  BY DEF SessionInit, Init
<1>2. server_up /\ [SessionNext]_sessionVars => server_up'
  BY ClientStep
<1> QED
  BY <1>1, <1>2, PTL DEF SessionSpec

\* The session takes none but the client's steps, so that every theorem about
\* the client among arbitrary messages holds in it.
LEMMA SessionIsClient == SessionSpec => Spec
<1>1. SessionInit => Init
  BY DEF SessionInit
<1>2. server_up /\ [SessionNext]_sessionVars => [Next]_vars
  BY ClientStep
<1> QED
  BY <1>1, <1>2, ServerStays, PTL DEF SessionSpec, Spec

-----------------------------------------------------------------------------
(* The silence and its causes *)

\* A message that ends the silence of the transfer in progress, or has its
\* missing segments asked for again.
Helps(m) == m.about = file /\ m.type \in {"TX_SEGMENT", "TX_APPLY"}

\* The link holds such a message, or an uplink the server answers with one.
Pending ==
    \/ \E m \in down : Helps(m)
    \/ \E u \in up : \E m \in Answer(u) : Helps(m)

\* What the silence may still cost beyond one interval for each loss: nothing
\* but the wait for the tick's request, or for the message that is on its way.
ShortSilence ==
    state # "IDLE" =>
        quiet <= losses * RetryInterval + (IF Pending THEN RetryInterval ELSE elapsed)

SilenceInv == losses \in Nat /\ ShortSilence

\* The client lets the silence last: nothing changes but what it last sent.
Waits == UNCHANGED <<state, file, elapsed, quiet>>

\* The client takes the time stamp and sends what the server answers.
Asks ==
    /\ state # "IDLE"
    /\ elapsed' = 0
    /\ UNCHANGED <<state, file, quiet>>
    /\ sent' # NoUplink
    /\ \E m \in Answer(sent') : Helps(m)

\* A request for segments is never empty, and the server answers it.
LEMMA RequestIsAnswered ==
    ASSUME TypeInv, NeverRestsComplete, state = "SEGMENT"
    PROVE  /\ SegsRequest(file, rx_segs) # NoUplink
           /\ \E m \in Answer(SegsRequest(file, rx_segs)) : Helps(m)
<1>1. file \in Files /\ 0 \in Segs(file)
  BY NoFileIsEmpty, SegsAssumption DEF TypeInv, FileKnown, Segs
<1>2. PICK s : s \in Missing(file, rx_segs)
  BY <1>1 DEF NeverRestsComplete
<1>3. SegsRequest(file, rx_segs) # NoUplink
  BY DEF SegsRequest, Uplink, NoUplink
<1>4. \/ TxSegment(file, 0) \in Answer(SegsRequest(file, rx_segs))
      \/ TxSegment(file, s) \in Answer(SegsRequest(file, rx_segs))
  BY <1>1, <1>2 DEF SegsRequest, Uplink, Answer
<1>5. \A n : Helps(TxSegment(file, n))
  BY DEF Helps, TxSegment
<1> QED
  BY <1>3, <1>4, <1>5

\* So is the report that the file is complete.
LEMMA CompletionIsAnswered ==
    /\ SegsComplete(file) # NoUplink
    /\ \E m \in Answer(SegsComplete(file)) : Helps(m)
<1>1. SegsComplete(file) # NoUplink
  BY DEF SegsComplete, Uplink, NoUplink
<1>2. Message("TX_APPLY", file) \in Answer(SegsComplete(file))
  BY DEF SegsComplete, Uplink, Answer
<1>3. Helps(Message("TX_APPLY", file))
  BY DEF Helps, Message
<1> QED
  BY <1>1, <1>2, <1>3

\* What a call does to the silence.
LEMMA CallEffect ==
    ASSUME NoVainStarts, TypeInv, NeverRestsComplete, Rx \/ Tick
    PROVE  state' = "IDLE" \/ quiet' = 0 \/ Waits \/ Asks
<1> USE DEF clientVars
<1>1. CASE Ignored
  BY <1>1 DEF Ignored, Waits
<1>2. ASSUME NEW g \in Files, Starts(g)
      PROVE  state' = "IDLE" \/ quiet' = 0
  BY <1>2 DEF Starts, SegmentStart, Reset, NoVainStarts, TypeInv, FileKnown
<1>3. ASSUME NEW s \in SegNums,
             SegmentRxData(s) \/ SegmentRxLastVerified(s) \/ SegmentRxLastSpoiled(s)
      PROVE  quiet' = 0
  BY <1>3 DEF SegmentRxData, SegmentRxLastVerified, SegmentRxLastSpoiled,
              CloseAndClear, Clear, Reset
<1>4. CASE SegmentRxApply
  BY <1>4, RequestIsAnswered DEF SegmentRxApply, SendUplink, Asks
<1>5. CASE ApplyRxData
  BY <1>5 DEF ApplyRxData, Reset
<1>6. CASE TickRetry
  BY <1>6, RequestIsAnswered, CompletionIsAnswered
     DEF TickRetry, SendUplink, Asks, TypeInv, TypeOK, States
<1>7. CASE LeavesSegment
  BY <1>7 DEF LeavesSegment, SegmentToIdle, CloseAndClear, Clear, Waits
<1>8. CASE LeavesApply
  BY <1>8 DEF LeavesApply, ApplyToIdle, CloseAndClear, Clear
<1> QED
  BY <1>1, <1>2, <1>3, <1>4, <1>5, <1>6, <1>7, <1>8, CallCases

\* A helpful message that arrives does help.
LEMMA HelpEffect ==
    ASSUME TypeInv, NeverRestsComplete, NEW m \in Messages, Helps(m), Receives(m)
    PROVE  state' = "IDLE" \/ quiet' = 0 \/ Asks
<1> USE DEF clientVars
<1>1. CASE m.type = "TX_SEGMENT" /\ RxFile(file)
  BY <1>1 DEF RxFile, IdleRxFile, SegmentRxOtherFile, ApplyRxOtherFile,
              SegmentStart, Reset
<1>2. CASE m.type = "TX_SEGMENT" /\ RxData(m.seg)
  BY <1>2 DEF RxData, SegmentRxData, SegmentRxLastVerified, SegmentRxLastSpoiled,
              CloseAndClear, Clear, Reset
<1>3. CASE m.type = "TX_SEGMENT" /\ ApplyRxData
  BY <1>3 DEF ApplyRxData, Reset
<1>4. CASE m.type = "TX_APPLY" /\ IdleRefuse
  BY <1>4 DEF IdleRefuse
<1>5. CASE m.type = "TX_APPLY" /\ SegmentRxApply
  BY <1>5, RequestIsAnswered DEF SegmentRxApply, SendUplink, Asks
<1>6. CASE m.type = "TX_APPLY" /\ ApplyRxApply
  BY <1>6 DEF ApplyRxApply, ApplyToIdle, CloseAndClear, Clear
<1> QED
  BY <1>1, <1>2, <1>3, <1>4, <1>5, <1>6 DEF Helps, Receives, RxSegment, RxApply

\* What helps stays on the link unless it is taken from it.
LEMMA PendingStays ==
    ASSUME file' = file, Pending, up \subseteq up',
           \A m \in down : Helps(m) => m \in down'
    PROVE  Pending'
<1> QED
  BY DEF Helps, Pending

\* What the steps below say of the quantities of ShortSilence.
LEMMA Quantities ==
    ASSUME TypeInv, losses \in Nat
    PROVE  /\ RetryInterval \in Nat /\ RetryInterval > 0
           /\ MaxRetries \in Nat
           /\ quiet \in Nat /\ quiet <= MaxLosses * RetryInterval
           /\ elapsed \in Nat /\ elapsed <= RetryInterval
           /\ losses * RetryInterval \in Nat
           /\ (losses + 1) * RetryInterval = losses * RetryInterval + RetryInterval
<1>1. /\ RetryInterval \in Nat /\ RetryInterval > 0
      /\ MaxRetries \in Nat
      /\ quiet \in Nat /\ quiet <= QuietMax
      /\ elapsed \in Nat /\ elapsed <= RetryInterval
  BY RetryAssumption, BoundTypes DEF TypeInv, TypeOK
<1> QED
  BY <1>1, Intervals DEF QuietMax, MaxLosses

LEMMA SilenceStep ==
    ASSUME NoVainStarts, server_up, TypeInv, TypeInv', NeverRestsComplete,
           SilenceInv, [SessionNext]_sessionVars
    PROVE  SilenceInv'
<1> DEFINE cost == losses * RetryInterval
<1>q. /\ losses \in Nat /\ cost \in Nat
      /\ RetryInterval \in Nat /\ RetryInterval > 0
      /\ quiet \in Nat /\ quiet <= MaxLosses * RetryInterval
      /\ elapsed \in Nat /\ elapsed <= RetryInterval
  BY Quantities DEF SilenceInv
<1>z. 0 * RetryInterval = 0 /\ elapsed' \in Nat
  BY <1>q, BoundTypes DEF TypeInv, TypeOK
<1>b. state # "IDLE" => quiet <= cost + RetryInterval
  BY <1>q DEF SilenceInv, ShortSilence
<1>l. Sends => losses' \in Nat
  BY <1>q DEF Sends
\* Losses enough for the silence are cause enough, whatever else is going on.
<1>c. ASSUME losses' \in Nat, quiet' \in Nat,
             state' # "IDLE" => quiet' <= losses' * RetryInterval
      PROVE  SilenceInv'
  <2> DEFINE d == losses' * RetryInterval
             w == IF Pending' THEN RetryInterval ELSE elapsed'
  <2>1. d \in Nat
    BY <1>c, <1>q, Intervals
  <2>2. state' # "IDLE" => quiet' <= d + w
    <3>1. state' # "IDLE" => quiet' <= d
      BY <1>c
    <3>2. /\ quiet' \in Nat /\ elapsed' \in Nat /\ RetryInterval \in Nat
      BY <1>c, <1>q, <1>z
    <3>3. w \in Nat
      BY <3>2, Zenon
    <3> HIDE DEF d, w
    <3> QED
      BY <3>1, <3>2, <3>3, <2>1
  <2> QED
    BY <2>2, <1>c DEF SilenceInv, ShortSilence
\* The effects of a call, whatever brought it about.
<1>1. ASSUME Sends, state' = "IDLE"
      PROVE  SilenceInv'
  BY <1>1, <1>l DEF SilenceInv, ShortSilence
<1>2. ASSUME Sends, quiet' = 0
      PROVE  SilenceInv'
  BY <1>2, <1>z, <1>c DEF Sends
<1>3. ASSUME Sends, Asks
      PROVE  SilenceInv'
  <2>1. Pending'
    BY <1>3 DEF Sends, Asks, Pending, Helps
  <2>2. CASE quiet' = 0
    BY <1>3, <1>2, <2>2
  <2>3. CASE quiet' # 0
    <3>1. losses' = losses /\ quiet' = quiet
      BY <1>3, <2>3 DEF Sends, Asks
    <3> QED
      BY <1>3, <1>b, <1>q, <2>1, <3>1 DEF Asks, SilenceInv, ShortSilence
  <2> QED
    BY <2>2, <2>3
<1>4. ASSUME Sends, Waits, \A m \in down : Helps(m) => m \in down'
      PROVE  SilenceInv'
  <2>1. Pending => Pending'
    BY <1>4, PendingStays DEF Sends, Waits
  <2>2. CASE quiet' = 0
    BY <1>4, <1>2, <2>2
  <2>3. CASE quiet' # 0
    <3>1. losses' = losses
      BY <1>4, <2>3 DEF Sends
    <3> QED
      BY <1>4, <1>q, <2>1, <3>1 DEF Waits, SilenceInv, ShortSilence
  <2> QED
    BY <2>2, <2>3
\* The steps of the session.
<1>5. ASSUME NEW m \in Messages, Deliver(m)
      PROVE  SilenceInv'
  <2>1. Sends /\ Receives(m) /\ down' = down \ {m}
    BY <1>5 DEF Deliver
  <2>2. CASE Helps(m)
    BY <2>1, <2>2, <1>1, <1>2, <1>3, HelpEffect
  <2>3. CASE ~ Helps(m)
    <3>1. state' = "IDLE" \/ quiet' = 0 \/ Waits \/ Asks
      BY <2>1, ReceivesIsRx, CallEffect DEF Sends
    <3> QED
      BY <2>1, <2>3, <3>1, <1>1, <1>2, <1>3, <1>4
  <2> QED
    BY <2>2, <2>3
<1>6. ASSUME NEW m \in Messages, Stray(m)
      PROVE  SilenceInv'
  <2>1. state' = "IDLE" \/ quiet' = 0 \/ Waits \/ Asks
    BY <1>6, ReceivesIsRx, CallEffect DEF Stray, Sends
  <2> QED
    BY <1>6, <2>1, <1>1, <1>2, <1>3, <1>4 DEF Stray
<1>7. CASE ClientTick
  <2>1. state' = "IDLE" \/ quiet' = 0 \/ Waits \/ Asks
    BY <1>7, CallEffect DEF ClientTick
  <2> QED
    BY <1>7, <2>1, <1>1, <1>2, <1>3, <1>4 DEF ClientTick
<1>8. ASSUME NEW u \in up, ServerHears(u)
      PROVE  SilenceInv'
  <2>1. /\ UNCHANGED <<state, file, elapsed, quiet, losses>>
        /\ up' = up \ {u} /\ down' = down \cup Answer(u)
    BY <1>8 DEF ServerHears, vars
  <2>2. Pending => Pending'
    BY <2>1 DEF Pending, Helps
  <2> QED
    BY <2>1, <2>2, <1>q DEF SilenceInv, ShortSilence
<1>9. CASE Lose
  <2>1. UNCHANGED <<state, quiet>>
    BY <1>9 DEF Lose, vars
  <2>2. losses' \in Nat
    BY <1>9, <1>q DEF Lose
  <2>3. state # "IDLE" => quiet <= losses' * RetryInterval
    <3>1. CASE losses < MaxLosses
      <4>1. losses' = losses + 1
        BY <1>9, <3>1 DEF Lose
      <4> QED
        BY <4>1, <1>b, Quantities DEF SilenceInv
    <3>2. CASE ~ losses < MaxLosses
      <4>1. losses' = losses /\ MaxLosses \in Nat /\ MaxLosses <= losses
        BY <1>9, <1>q, <3>2, RetryAssumption DEF Lose, MaxLosses
      <4> QED
        BY <4>1, <1>q, Intervals
    <3> QED
      BY <3>1, <3>2
  <2> QED
    BY <2>1, <2>2, <2>3, <1>q, <1>c
<1>10. CASE SecondPasses
  <2>1. ~ Pending /\ ~ Pending'
    BY <1>10 DEF SecondPasses, Pending
  <2>2. /\ losses' = losses /\ state' = state
        /\ elapsed' = elapsed + 1
        /\ quiet' <= quiet + 1
    BY <1>10, <1>q DEF SecondPasses, Clock, clientVars
  <2>3. quiet' \in Nat
    BY BoundTypes DEF TypeInv, TypeOK
  <2> QED
    BY <2>1, <2>2, <2>3, <1>q DEF SilenceInv, ShortSilence
<1>11. CASE UNCHANGED sessionVars
  <2>1. /\ UNCHANGED <<state, elapsed, quiet, losses>>
        /\ Pending' <=> Pending
    BY <1>11 DEF sessionVars, vars, Pending, Helps
  <2> QED
    BY <2>1, <1>q DEF SilenceInv, ShortSilence
<1> QED
  BY <1>5, <1>6, <1>7, <1>8, <1>9, <1>10, <1>11 DEF SessionNext

LEMMA SilenceInvariance ==
    ASSUME NoVainStarts
    PROVE  SessionSpec => []SilenceInv
<1>1. SessionInit => SilenceInv
  BY DEF SessionInit, Init, SilenceInv, ShortSilence
<1>2. /\ server_up /\ TypeInv /\ TypeInv' /\ NeverRestsComplete /\ SilenceInv
      /\ [SessionNext]_sessionVars
      => SilenceInv'
  BY SilenceStep
<1>3. Spec => []TypeInv /\ []NeverRestsComplete
  BY TypeInvariance, AlwaysAsksForSomething
<1> QED
  BY <1>1, <1>2, <1>3, SessionIsClient, ServerStays, PTL DEF SessionSpec

\* Beyond one interval, every interval of a transfer's silence has a lost message
\* to show for it: none is spent on a request never made or never answered.
THEOREM SilenceExplained ==
    ASSUME NoVainStarts
    PROVE  SessionSpec => []SilenceHasCause
<1>1. TypeInv /\ SilenceInv => SilenceHasCause
  <2> SUFFICES ASSUME TypeInv, losses \in Nat, ShortSilence, state # "IDLE"
               PROVE  quiet <= (losses + 1) * RetryInterval
    BY DEF SilenceInv, SilenceHasCause
  <2> DEFINE cost == losses * RetryInterval
             wait == IF Pending THEN RetryInterval ELSE elapsed
  <2>1. /\ RetryInterval \in Nat /\ quiet \in Nat /\ cost \in Nat
        /\ elapsed \in Nat /\ elapsed <= RetryInterval
        /\ (losses + 1) * RetryInterval = cost + RetryInterval
    BY Quantities
  <2>2. wait \in Nat /\ wait <= RetryInterval
    BY <2>1
  <2>3. quiet <= cost + wait
    BY DEF ShortSilence
  <2>4. quiet <= cost + RetryInterval
    <3> HIDE DEF cost, wait
    <3> QED
      BY <2>1, <2>2, <2>3
  <2> QED
    BY <2>1, <2>4
<1>2. Spec => []TypeInv
  BY TypeInvariance
<1> QED
  BY <1>1, <1>2, SilenceInvariance, SessionIsClient, PTL

\* As many whole intervals fit the silence as losses excuse, but for one.
LEMMA LossesFor ==
    ASSUME NEW n \in Nat, NEW m \in Nat, NEW k \in Nat, k > 0,
           (m + 1) * k <= (n + 1) * k
    PROVE  n >= m
<1> SUFFICES ASSUME n < m PROVE FALSE
  OBVIOUS
<1>1. n + 1 \in Nat /\ m \in Nat /\ n + 1 <= m
  OBVIOUS
<1>2. (n + 1) * k <= m * k
  BY <1>1, Intervals
<1>3. (m + 1) * k = m * k + k /\ m * k \in Nat /\ (n + 1) * k \in Nat
  BY <1>1, Intervals
<1> DEFINE mk == m * k
           nk == (n + 1) * k
<1>4. nk <= mk /\ mk + k <= nk /\ mk \in Nat /\ nk \in Nat
  BY <1>2, <1>3
<1> HIDE DEF mk, nk
<1> QED
  BY <1>4

\* The client of a server that answers gives up no transfer before the link has
\* lost a message for every retry.
THEOREM GivingUpExcused ==
    ASSUME NoVainStarts
    PROVE  SessionSpec => GivesUpOnlyUnheard
<1>1. /\ TypeInv /\ QuietCoversWait /\ SilenceInv /\ SilenceHasCause
      /\ [SessionNext]_sessionVars
      => [ClientTick /\ state # "IDLE" /\ state' = "IDLE" =>
            losses >= MaxRetries]_sessionVars
  <2> SUFFICES ASSUME TypeInv, QuietCoversWait, SilenceInv, SilenceHasCause,
                      ClientTick, state # "IDLE", state' = "IDLE"
               PROVE  losses >= MaxRetries
    OBVIOUS
  <2>1. TickGiveUp
    BY DEF ClientTick, Tick, IdleRefuse, TickEarly, TickRetry, clientVars
  <2>2. /\ RetryInterval \in Nat /\ RetryInterval > 0
        /\ MaxRetries \in Nat /\ losses \in Nat /\ quiet \in Nat
    BY Quantities DEF SilenceInv
  <2>3. retry_count = MaxRetries /\ elapsed = RetryInterval
    BY <2>1, <2>2, BoundTypes DEF TickGiveUp, TypeInv, TypeOK
  <2>4. quiet >= MaxRetries * RetryInterval + RetryInterval
    BY <2>3 DEF QuietCoversWait
  <2>5. quiet <= (losses + 1) * RetryInterval
    BY DEF SilenceHasCause
  <2>6. (MaxRetries + 1) * RetryInterval <= (losses + 1) * RetryInterval
    <3> DEFINE bound == (losses + 1) * RetryInterval
               least == (MaxRetries + 1) * RetryInterval
    <3>1. least = MaxRetries * RetryInterval + RetryInterval
      BY <2>2, Intervals
    <3>2. bound \in Nat /\ least \in Nat
      BY <2>2, Intervals
    <3>3. quiet >= least /\ quiet <= bound
      BY <2>4, <2>5, <3>1
    <3> HIDE DEF bound, least
    <3>4. least <= bound
      BY <2>2, <3>2, <3>3
    <3> QED
      BY <3>4 DEF bound, least
  <2> QED
    BY <2>2, <2>6, LossesFor
<1>2. Spec => []TypeInv /\ []QuietCoversWait
  BY TypeInvariance, RetriesArePaced
<1> QED
  BY <1>1, <1>2, SilenceInvariance, SilenceExplained, SessionIsClient, PTL
     DEF SessionSpec, GivesUpOnlyUnheard
=============================================================================
