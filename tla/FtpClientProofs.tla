-------------------------- MODULE FtpClientProofs --------------------------
(***************************************************************************)
(* The safety properties of FtpClientProps, proved for every set of files, *)
(* every number of segments and every choice of faulty callbacks.          *)
(*                                                                         *)
(* The many actions of the client change its state in few ways. StepCases  *)
(* lists them once; the proof that a step keeps an invariant then has one  *)
(* step per way.                                                           *)
(***************************************************************************)
EXTENDS FtpClientProps, TLAPS

\* The call is refused, or has nothing to do: it only reports so.
Ignored ==
    /\ ret' \in ReturnCodes
    /\ sent' = NoUplink
    /\ UNCHANGED <<clientVars, elapsed, storageVars, downlink_on, quiet>>

\* No call at all: a stuttering step, or the server falls silent.
Untouched ==
    UNCHANGED <<clientVars, elapsed, storageVars, downlink_on, ret, sent, quiet>>

\* A message about g, while no transfer of g is in progress.
Starts(g) == (state # "IDLE" => g # file) /\ SegmentStart(g)

LeavesSegment == state = "SEGMENT" /\ SegmentToIdle

LeavesApply ==
    /\ state = "APPLY"
    /\ \E failed \in BOOLEAN : \E up \in {NoUplink, AckApply(file)} :
          ApplyToIdle(failed, up)

-----------------------------------------------------------------------------

\* Every call of ll_ftp_msg_process changes the client in one of these ways.
LEMMA CallCases ==
    ASSUME Rx \/ Tick
    PROVE  \/ Ignored
           \/ \E g \in Files : Starts(g)
           \/ \E s \in SegNums : SegmentRxData(s)
           \/ \E s \in SegNums : SegmentRxLastVerified(s)
           \/ \E s \in SegNums : SegmentRxLastSpoiled(s)
           \/ SegmentRxApply \/ ApplyRxData \/ TickRetry
           \/ LeavesSegment \/ LeavesApply
<1>1. CASE RxMalformed \/ IdleRefuse \/ SegmentIgnore \/ ApplyIgnore \/ TickEarly
  BY <1>1 DEF RxMalformed, IdleRefuse, SegmentIgnore, ApplyIgnore, TickEarly,
              Ignored, ReturnCodes
<1>2. ASSUME NEW g \in Files, RxFile(g)
      PROVE  Starts(g)
  BY <1>2 DEF RxFile, IdleRxFile, SegmentRxOtherFile, ApplyRxOtherFile, Starts
<1>3. CASE TickRetry \/ SegmentRxApply \/ ApplyRxData
  BY <1>3
<1>4. CASE TickGiveUp \/ SegmentRxCancel
  BY <1>4 DEF TickGiveUp, SegmentRxCancel, LeavesSegment, LeavesApply
<1>5. CASE ApplyRxCancel \/ ApplyRxApply
  BY <1>5 DEF ApplyRxCancel, ApplyRxApply, Outcome, LeavesApply
<1> QED
  BY <1>1, <1>2, <1>3, <1>4, <1>5 DEF Rx, RxData, Tick

\* Every step is such a call, or no call at all.
LEMMA StepCases ==
    ASSUME [Next]_vars
    PROVE  \/ Ignored \/ Untouched \/ Clock
           \/ \E g \in Files : Starts(g)
           \/ \E s \in SegNums : SegmentRxData(s)
           \/ \E s \in SegNums : SegmentRxLastVerified(s)
           \/ \E s \in SegNums : SegmentRxLastSpoiled(s)
           \/ SegmentRxApply \/ ApplyRxData \/ TickRetry
           \/ LeavesSegment \/ LeavesApply
<1>1. CASE UNCHANGED vars
  BY <1>1 DEF vars, Untouched, clientVars, storageVars
<1>2. CASE FallSilent
  BY <1>2 DEF FallSilent, Untouched
<1>3. CASE Clock
  BY <1>3
<1>4. CASE Rx \/ Tick
  BY <1>4, CallCases
<1> QED
  BY <1>1, <1>2, <1>3, <1>4 DEF Next

\* The two flags stay Booleans.
LEMMA FlagsStep ==
    ASSUME server_up \in BOOLEAN, downlink_on \in BOOLEAN, [Next]_vars
    PROVE  server_up' \in BOOLEAN /\ downlink_on' \in BOOLEAN
<1>1. server_up' \in BOOLEAN
  BY DEF Next, Rx, Tick, Clock, FallSilent, vars
<1>2. downlink_on' = downlink_on \/ downlink_on' = TRUE \/ downlink_on' = FALSE
  BY StepCases, Zenon
     DEF Ignored, Untouched, Clock, Starts, SegmentStart, SegmentRxData,
         SegmentRxLastVerified, SegmentRxLastSpoiled, CloseAndClear,
         SegmentRxApply, ApplyRxData, TickRetry, LeavesSegment, SegmentToIdle,
         LeavesApply, ApplyToIdle
<1> QED
  BY <1>1, <1>2

\* A file's segments are among those a message may carry.
LEMMA SegsAreSegNums == \A g : Segs(g) \subseteq SegNums
  BY SegsAssumption DEF Segs

\* The uplinks the client sends are well formed.
LEMMA UplinksTyped ==
    ASSUME NEW g \in Files \cup {NoFile}, NEW r
    PROVE  /\ NoUplink \in Uplinks
           /\ AckInit("ACK", g) \in Uplinks
           /\ AckInit("NAK", g) \in Uplinks
           /\ SegsComplete(g) \in Uplinks
           /\ AckApply(g) \in Uplinks
           /\ SegsRequest(g, r) \in Uplinks
<1>1. Missing(g, r) \subseteq SegNums
  BY SegsAreSegNums DEF Missing
<1> QED
  BY <1>1 DEF NoUplink, AckInit, SegsComplete, AckApply, SegsRequest, Uplink, Uplinks

-----------------------------------------------------------------------------
(* Type correctness *)

\* A transfer is always about a file.
FileKnown == state # "IDLE" => file \in Files

TypeInv == TypeOK /\ FileKnown

LEMMA BoundTypes ==
    MaxRetries \in Nat /\ RetryInterval \in Nat /\ QuietMax \in Nat
  BY RetryAssumption DEF QuietMax

LEMMA TypeInit == Init => TypeInv
<1> SUFFICES ASSUME Init PROVE TypeInv
  OBVIOUS
<1>1. NoUplink \in Uplinks
  BY UplinksTyped
<1>2. downlink_on \in BOOLEAN /\ server_up \in BOOLEAN
  BY DEF Init
<1>3. TypeOK
  BY <1>1, <1>2, BoundTypes DEF Init, TypeOK, States, ReturnCodes
<1> QED
  BY <1>3 DEF Init, TypeInv, FileKnown

LEMMA TypeStep == TypeInv /\ [Next]_vars => TypeInv'
<1> SUFFICES ASSUME TypeInv, [Next]_vars PROVE TypeInv'
  OBVIOUS
<1> USE DEF TypeInv, TypeOK, FileKnown, States, ReturnCodes, clientVars, storageVars
<1>a. server_up' \in BOOLEAN /\ downlink_on' \in BOOLEAN
  BY FlagsStep
<1>b. /\ NoUplink \in Uplinks
      /\ AckInit("NAK", file) \in Uplinks
      /\ SegsComplete(file) \in Uplinks
      /\ AckApply(file) \in Uplinks
      /\ SegsRequest(file, rx_segs) \in Uplinks
  BY UplinksTyped
<1> USE <1>a, <1>b, BoundTypes
<1>1. CASE Ignored
  BY <1>1 DEF Ignored
<1>2. CASE Untouched
  BY <1>2 DEF Untouched
<1>3. CASE Clock
  BY <1>3 DEF Clock
<1>4. ASSUME NEW g \in Files, Starts(g)
      PROVE  TypeInv'
  <2>1. AckInit("ACK", g) \in Uplinks
    BY UplinksTyped
  <2> QED
    BY <1>4, <2>1 DEF Starts, SegmentStart, Reset, SendUplink
<1>5. ASSUME NEW s \in SegNums, SegmentRxData(s)
      PROVE  TypeInv'
  BY <1>5 DEF SegmentRxData, Outcome, Written, Tracked, Reset
<1>6. ASSUME NEW s \in SegNums, SegmentRxLastVerified(s)
      PROVE  TypeInv'
  BY <1>6 DEF SegmentRxLastVerified, Outcome, Written, Tracked, Reset
<1>7. ASSUME NEW s \in SegNums, SegmentRxLastSpoiled(s)
      PROVE  TypeInv'
  BY <1>7 DEF SegmentRxLastSpoiled, Outcome, Written, Reopen, ReopenFails,
              CloseAndClear, Clear, Reset
<1>8. CASE SegmentRxApply
  BY <1>8 DEF SegmentRxApply, SendUplink
<1>9. CASE ApplyRxData
  BY <1>9 DEF ApplyRxData, Reset
<1>10. CASE TickRetry
  BY <1>10 DEF TickRetry, SendUplink
<1>11. CASE LeavesSegment
  BY <1>11 DEF LeavesSegment, SegmentToIdle, CloseAndClear, Clear
<1>12. CASE LeavesApply
  BY <1>12 DEF LeavesApply, ApplyToIdle, CloseAndClear, Clear
<1> QED
  BY <1>1, <1>2, <1>3, <1>4, <1>5, <1>6, <1>7, <1>8, <1>9, <1>10, <1>11, <1>12,
     StepCases

\* Every variable keeps to its type, and a transfer is always about a file the
\* server named.
THEOREM TypeCorrect == Spec => []TypeOK
<1>1. TypeInv => TypeOK
  BY DEF TypeInv
<1> QED
  BY <1>1, TypeInit, TypeStep, PTL DEF Spec

\* The form the other proofs use.
LEMMA TypeInvariance == Spec => []TypeInv
  BY TypeInit, TypeStep, PTL DEF Spec

-----------------------------------------------------------------------------
(* The apply callback *)

\* APPLY is entered only past a verification of the stored file and its close,
\* and no step made in APPLY writes, tracks or opens anything of the file.
LEMMA ReadyStep == TypeInv /\ ReadyToApply /\ [Next]_vars => ReadyToApply'
<1> SUFFICES ASSUME TypeInv, ReadyToApply, [Next]_vars PROVE ReadyToApply'
  OBVIOUS
<1> USE DEF ReadyToApply, TypeInv, FileKnown, clientVars, storageVars
<1>1. CASE Ignored \/ Untouched
  BY <1>1 DEF Ignored, Untouched
<1>2. CASE Clock \/ SegmentRxApply \/ TickRetry \/ ApplyRxData
  BY <1>2 DEF Clock, SegmentRxApply, TickRetry, ApplyRxData
<1>3. ASSUME NEW g \in Files, Starts(g)
      PROVE  ReadyToApply'
  BY <1>3 DEF Starts, SegmentStart
<1>4. ASSUME NEW s \in SegNums, SegmentRxData(s)
      PROVE  ReadyToApply'
  BY <1>4 DEF SegmentRxData
<1>5. ASSUME NEW s \in SegNums, SegmentRxLastVerified(s)
      PROVE  ReadyToApply'
  <2>1. Segs(file) \subseteq rx_segs'
    BY <1>5 DEF SegmentRxLastVerified, Complete
  <2>2. Segs(file) \subseteq stored'
    BY <1>5 DEF SegmentRxLastVerified, Verify
  <2> QED
    BY <1>5, <2>1, <2>2 DEF SegmentRxLastVerified
<1>6. ASSUME NEW s \in SegNums, SegmentRxLastSpoiled(s)
      PROVE  ReadyToApply'
  BY <1>6 DEF SegmentRxLastSpoiled, CloseAndClear, Clear
<1>7. CASE LeavesSegment
  BY <1>7 DEF LeavesSegment, SegmentToIdle, CloseAndClear, Clear
<1>8. CASE LeavesApply
  BY <1>8 DEF LeavesApply, ApplyToIdle, CloseAndClear, Clear
<1> QED
  BY <1>1, <1>2, <1>3, <1>4, <1>5, <1>6, <1>7, <1>8, StepCases

\* Whenever the apply callback may run, the file it is given is complete,
\* intact in storage and closed.
THEOREM AppliesOnlyReadyFiles == Spec => []ReadyToApply
<1>1. Init => ReadyToApply
  BY DEF Init, ReadyToApply
<1> QED
  BY <1>1, ReadyStep, TypeInvariance, PTL DEF Spec

-----------------------------------------------------------------------------
(* What the transfer is waiting for, and what it says of it *)

LEMMA RestsStep ==
    TypeInv /\ NeverRestsComplete /\ [Next]_vars => NeverRestsComplete'
<1> SUFFICES ASSUME TypeInv, NeverRestsComplete, [Next]_vars
             PROVE  NeverRestsComplete'
  OBVIOUS
<1> USE DEF NeverRestsComplete, Missing, clientVars, storageVars
<1>1. CASE Ignored \/ Untouched
  BY <1>1 DEF Ignored, Untouched
<1>2. CASE Clock \/ SegmentRxApply \/ TickRetry \/ ApplyRxData
  BY <1>2 DEF Clock, SegmentRxApply, TickRetry, ApplyRxData
<1>3. ASSUME NEW g \in Files, Starts(g)
      PROVE  NeverRestsComplete'
  BY <1>3 DEF Starts, SegmentStart
<1>4. ASSUME NEW s \in SegNums, SegmentRxData(s)
      PROVE  NeverRestsComplete'
  BY <1>4 DEF SegmentRxData, Complete
<1>5. ASSUME NEW s \in SegNums, SegmentRxLastVerified(s)
      PROVE  NeverRestsComplete'
  BY <1>5 DEF SegmentRxLastVerified
<1>6. ASSUME NEW s \in SegNums, SegmentRxLastSpoiled(s)
      PROVE  NeverRestsComplete'
  BY <1>6 DEF SegmentRxLastSpoiled, CloseAndClear, Clear
<1>7. CASE LeavesSegment
  BY <1>7 DEF LeavesSegment, SegmentToIdle, CloseAndClear, Clear
<1>8. CASE LeavesApply
  BY <1>8 DEF LeavesApply, ApplyToIdle, CloseAndClear, Clear
<1> QED
  BY <1>1, <1>2, <1>3, <1>4, <1>5, <1>6, <1>7, <1>8, StepCases

\* A transfer still in SEGMENT always has a segment to ask for.
THEOREM AlwaysAsksForSomething == Spec => []NeverRestsComplete
<1>1. Init => NeverRestsComplete
  BY DEF Init, NeverRestsComplete
<1> QED
  BY <1>1, RestsStep, TypeInvariance, PTL DEF Spec

LEMMA UplinkStep ==
    TypeInv /\ NeverRestsComplete /\ UplinkIsTrue /\ [Next]_vars => UplinkIsTrue'
<1> SUFFICES ASSUME TypeInv, NeverRestsComplete, UplinkIsTrue, [Next]_vars
             PROVE  UplinkIsTrue'
  OBVIOUS
<1> USE DEF UplinkIsTrue, clientVars, storageVars
<1>a. ASSUME sent' = NoUplink
      PROVE  UplinkIsTrue'
  BY <1>a DEF NoUplink
<1>b. ASSUME state = "SEGMENT", state' = state, file' = file, rx_segs' = rx_segs,
             sent' = SegsRequest(file, rx_segs)
      PROVE  UplinkIsTrue'
  BY <1>b DEF SegsRequest, Uplink, NeverRestsComplete, Missing
<1>c. ASSUME state' = "APPLY", file' = file, sent' = SegsComplete(file)
      PROVE  UplinkIsTrue'
  BY <1>c DEF SegsComplete, Uplink
<1>1. CASE Ignored \/ ApplyRxData
  BY <1>1, <1>a DEF Ignored, ApplyRxData
<1>2. CASE Untouched \/ Clock
  BY <1>2 DEF Untouched, Clock
<1>3. ASSUME NEW g \in Files, Starts(g)
      PROVE  UplinkIsTrue'
  BY <1>3 DEF Starts, SegmentStart, SendUplink, AckInit, Uplink
<1>4. ASSUME NEW s \in SegNums,
             SegmentRxData(s) \/ SegmentRxLastVerified(s) \/ SegmentRxLastSpoiled(s)
      PROVE  UplinkIsTrue'
  BY <1>4, <1>a, <1>c
     DEF SegmentRxData, SegmentRxLastVerified, SegmentRxLastSpoiled
<1>5. CASE SegmentRxApply
  BY <1>5, <1>b DEF SegmentRxApply, SendUplink
<1>6. CASE TickRetry
  BY <1>6, <1>b, <1>c DEF TickRetry, SendUplink, TypeInv, TypeOK, States
<1>7. CASE LeavesSegment
  BY <1>7, <1>a DEF LeavesSegment, SegmentToIdle
<1>8. CASE LeavesApply
  BY <1>8, <1>a DEF LeavesApply, ApplyToIdle, AckApply, Uplink
<1> QED
  BY <1>1, <1>2, <1>3, <1>4, <1>5, <1>6, <1>7, <1>8, StepCases

\* What the client last told the server of the segments stays true until the
\* next call.
THEOREM TellsTheTruth == Spec => []UplinkIsTrue
<1>1. Init => UplinkIsTrue
  BY DEF Init, UplinkIsTrue, NoUplink
<1> QED
  BY <1>1, UplinkStep, AlwaysAsksForSomething, TypeInvariance, PTL DEF Spec

-----------------------------------------------------------------------------
(* The downlink mode *)

LEMMA HearsStep == TransferHearsServer /\ [Next]_vars => TransferHearsServer'
<1> SUFFICES ASSUME TransferHearsServer, [Next]_vars PROVE TransferHearsServer'
  OBVIOUS
<1>1. \/ state' = "IDLE"
      \/ downlink_on' = TRUE
      \/ downlink_on' = downlink_on /\ state # "IDLE"
      \/ downlink_on' = downlink_on /\ state' = state
  BY StepCases, Zenon
     DEF Ignored, Untouched, Clock, Starts, SegmentStart, SegmentRxData,
         SegmentRxLastVerified, SegmentRxLastSpoiled, CloseAndClear, Clear,
         SegmentRxApply, ApplyRxData, TickRetry, LeavesSegment, SegmentToIdle,
         LeavesApply, ApplyToIdle, clientVars
<1> QED
  BY <1>1, Zenon DEF TransferHearsServer

\* From its first message to its return to IDLE, a transfer has the downlink
\* always on.
THEOREM HearsDuringTransfer == Spec => []TransferHearsServer
<1>1. Init => TransferHearsServer
  BY DEF Init, TransferHearsServer
<1> QED
  BY <1>1, HearsStep, PTL DEF Spec

-----------------------------------------------------------------------------
(* Giving up *)

\* One more retry is one more interval; fewer retries are no more intervals.
LEMMA Intervals ==
    ASSUME NEW m \in Nat, NEW n \in Nat, NEW k \in Nat
    PROVE  /\ n * k \in Nat
           /\ (n + 1) * k = n * k + k
           /\ m <= n => m * k <= n * k
  BY Z3

LEMMA QuietStep == TypeInv /\ QuietCoversWait /\ [Next]_vars => QuietCoversWait'
<1> SUFFICES ASSUME TypeInv, QuietCoversWait, [Next]_vars PROVE QuietCoversWait'
  OBVIOUS
<1> DEFINE spent == retry_count * RetryInterval
<1>t. /\ retry_count \in Nat /\ retry_count <= MaxRetries
      /\ elapsed \in Nat /\ elapsed <= RetryInterval
      /\ quiet \in Nat /\ quiet <= QuietMax
      /\ MaxRetries \in Nat /\ RetryInterval \in Nat /\ QuietMax \in Nat
  BY BoundTypes DEF TypeInv, TypeOK
<1>m. /\ spent \in Nat
      /\ (retry_count + 1) * RetryInterval = spent + RetryInterval
      /\ spent + RetryInterval <= QuietMax
  BY <1>t, Intervals DEF QuietMax
<1>z. 0 * RetryInterval = 0
  BY <1>t
<1> USE DEF QuietCoversWait, clientVars, storageVars
<1>1. CASE Ignored \/ Untouched
  BY <1>1 DEF Ignored, Untouched
<1>2. CASE Clock
  <2>1. quiet' >= spent + elapsed'
    <3> HIDE DEF spent
    <3> QED
      BY <1>2, <1>t, <1>m DEF Clock
  <2> QED
    BY <1>2, <2>1 DEF Clock
<1>3. ASSUME retry_count' = 0, elapsed' = 0, quiet' = 0
      PROVE  QuietCoversWait'
  BY <1>3, <1>z
<1>4. ASSUME state # "IDLE", retry_count' = retry_count, elapsed' = 0, quiet' = quiet
      PROVE  QuietCoversWait'
  <2>1. quiet >= spent
    <3> HIDE DEF spent
    <3> QED
      BY <1>4, <1>t, <1>m
  <2> QED
    BY <1>4, <2>1, <1>t, <1>m
<1>5. ASSUME NEW g \in Files, Starts(g)
      PROVE  QuietCoversWait'
  BY <1>5, <1>3, <1>4 DEF Starts, SegmentStart, Reset, SendUplink
<1>6. ASSUME NEW s \in SegNums,
             SegmentRxData(s) \/ SegmentRxLastVerified(s) \/ SegmentRxLastSpoiled(s)
      PROVE  QuietCoversWait'
  BY <1>6, <1>3 DEF SegmentRxData, SegmentRxLastVerified, SegmentRxLastSpoiled,
                    CloseAndClear, Clear, Reset
<1>7. CASE ApplyRxData
  BY <1>7, <1>3 DEF ApplyRxData, Reset
<1>8. CASE SegmentRxApply
  BY <1>8, <1>4 DEF SegmentRxApply, SendUplink
<1>9. CASE TickRetry
  <2>1. quiet' >= spent + RetryInterval
    <3> HIDE DEF spent
    <3> QED
      BY <1>9, <1>t, <1>m DEF TickRetry
  <2> QED
    BY <1>9, <2>1, <1>t, <1>m DEF TickRetry, SendUplink
<1>10. CASE LeavesSegment
  BY <1>10 DEF LeavesSegment, SegmentToIdle, CloseAndClear, Clear
<1>11. CASE LeavesApply
  BY <1>11 DEF LeavesApply, ApplyToIdle, CloseAndClear, Clear
<1> QED
  BY <1>1, <1>2, <1>5, <1>6, <1>7, <1>8, <1>9, <1>10, <1>11, StepCases

\* Neither the retries nor the running interval ever run ahead of the silence.
THEOREM RetriesArePaced == Spec => []QuietCoversWait
<1>1. Init => QuietCoversWait
  BY DEF Init, QuietCoversWait
<1> QED
  BY <1>1, QuietStep, TypeInvariance, PTL DEF Spec

\* A transfer is abandoned by the tick only after all its retries and one more
\* interval, counted from the last segment of its file.
THEOREM GivesUpLate == Spec => NoEarlyGiveUp
<1>1. TypeInv /\ QuietCoversWait /\ [Next]_vars
      => [Tick /\ state # "IDLE" /\ state' = "IDLE" => quiet >= QuietMax]_vars
  <2> SUFFICES ASSUME TypeInv, QuietCoversWait, Tick, state # "IDLE", state' = "IDLE"
               PROVE  quiet >= QuietMax
    OBVIOUS
  <2>1. TickGiveUp
    BY DEF Tick, IdleRefuse, TickEarly, TickRetry, clientVars
  <2>2. /\ retry_count = MaxRetries /\ elapsed = RetryInterval
        /\ quiet \in Nat /\ MaxRetries \in Nat /\ RetryInterval \in Nat
    BY <2>1, BoundTypes DEF TickGiveUp, TypeInv, TypeOK
  <2>3. quiet >= MaxRetries * RetryInterval + RetryInterval
    BY <2>2 DEF QuietCoversWait
  <2> QED
    BY <2>2, <2>3, Intervals DEF QuietMax
<1> QED
  BY <1>1, RetriesArePaced, TypeInvariance, PTL DEF Spec, NoEarlyGiveUp

-----------------------------------------------------------------------------
(* What a call leaves alone *)

\* A call that reports NO_ACTION leaves the transfer as it was.
THEOREM NoActionIsHonest == Spec => NoActionChangesNothing
<1>1. [Next]_vars
      => [ret' = "NO_ACTION" =>
            UNCHANGED <<state, file, rx_segs, opened, downlink_on>>]_vars
  <2> SUFFICES ASSUME [Next]_vars, ret' = "NO_ACTION"
               PROVE  UNCHANGED <<state, file, rx_segs, opened, downlink_on>>
    OBVIOUS
  <2> USE DEF clientVars, storageVars
  <2>1. CASE Ignored \/ Untouched \/ Clock
    BY <2>1 DEF Ignored, Untouched, Clock
  <2>2. ASSUME NEW g \in Files, Starts(g)
        PROVE  UNCHANGED <<state, file, rx_segs, opened, downlink_on>>
    BY <2>2 DEF Starts, SegmentStart
  <2>3. ASSUME NEW s \in SegNums, SegmentRxData(s)
        PROVE  UNCHANGED <<state, file, rx_segs, opened, downlink_on>>
    BY <2>3 DEF SegmentRxData, Outcome, Tracked
  <2>4. ASSUME NEW s \in SegNums, SegmentRxLastVerified(s) \/ SegmentRxLastSpoiled(s)
        PROVE  FALSE
    BY <2>4 DEF SegmentRxLastVerified, SegmentRxLastSpoiled, Reopen, ReopenFails
  <2>5. CASE SegmentRxApply \/ ApplyRxData \/ TickRetry
    BY <2>5 DEF SegmentRxApply, ApplyRxData, TickRetry
  <2>6. CASE LeavesSegment \/ LeavesApply
    BY <2>6 DEF LeavesSegment, SegmentToIdle, LeavesApply, ApplyToIdle
  <2> QED
    BY <2>1, <2>2, <2>3, <2>4, <2>5, <2>6, StepCases
<1> QED
  BY <1>1, PTL DEF Spec, NoActionChangesNothing

\* A transfer that goes on keeps the segments it has received, but for a
\* verification that fails at its last segment.
THEOREM ProgressLostOnlyAtEnd == Spec => ProgressIsKept
<1>1. [Next]_vars
      => [state = "SEGMENT" /\ state' # "IDLE" /\ file' = file =>
            \/ rx_segs \subseteq rx_segs'
            \/ \E s \in SegNums : Complete(file, rx_segs \cup {s})]_vars
  <2> SUFFICES ASSUME [Next]_vars, state = "SEGMENT", state' # "IDLE", file' = file
               PROVE  \/ rx_segs \subseteq rx_segs'
                      \/ \E s \in SegNums : Complete(file, rx_segs \cup {s})
    OBVIOUS
  <2> USE DEF clientVars, storageVars
  <2>1. CASE Ignored \/ Untouched \/ Clock
    BY <2>1 DEF Ignored, Untouched, Clock
  <2>2. ASSUME NEW g \in Files, Starts(g)
        PROVE  rx_segs \subseteq rx_segs'
    BY <2>2 DEF Starts, SegmentStart
  <2>3. ASSUME NEW s \in SegNums, SegmentRxData(s) \/ SegmentRxLastVerified(s)
        PROVE  rx_segs \subseteq rx_segs'
    BY <2>3 DEF SegmentRxData, SegmentRxLastVerified, Tracked
  <2>4. ASSUME NEW s \in SegNums, SegmentRxLastSpoiled(s)
        PROVE  Complete(file, rx_segs \cup {s})
    BY <2>4 DEF SegmentRxLastSpoiled, Tracked, Complete
  <2>5. CASE SegmentRxApply \/ ApplyRxData \/ TickRetry
    BY <2>5 DEF SegmentRxApply, ApplyRxData, TickRetry
  <2>6. CASE LeavesSegment \/ LeavesApply
    BY <2>6 DEF LeavesSegment, SegmentToIdle, CloseAndClear, Clear, LeavesApply
  <2> QED
    BY <2>1, <2>2, <2>3, <2>4, <2>5, <2>6, StepCases
<1> QED
  BY <1>1, PTL DEF Spec, ProgressIsKept

-----------------------------------------------------------------------------
(* Storage and downlink mode, when close does not fail *)

LEMMA RestoresStep ==
    ASSUME "close" \notin Faulty, IdleRestoresDownlink, [Next]_vars
    PROVE  IdleRestoresDownlink'
<1> USE DEF IdleRestoresDownlink, clientVars, storageVars
<1>1. CASE Ignored \/ Untouched \/ Clock \/ SegmentRxApply \/ ApplyRxData \/ TickRetry
  BY <1>1 DEF Ignored, Untouched, Clock, SegmentRxApply, ApplyRxData, TickRetry
<1>2. ASSUME NEW g \in Files, Starts(g)
      PROVE  IdleRestoresDownlink'
  BY <1>2 DEF Starts, SegmentStart
<1>3. ASSUME NEW s \in SegNums,
             SegmentRxData(s) \/ SegmentRxLastVerified(s) \/ SegmentRxLastSpoiled(s)
      PROVE  IdleRestoresDownlink'
  BY <1>3 DEF SegmentRxData, SegmentRxLastVerified, SegmentRxLastSpoiled, CloseAndClear
<1>4. CASE LeavesSegment \/ LeavesApply
  BY <1>4 DEF LeavesSegment, SegmentToIdle, LeavesApply, ApplyToIdle, CloseAndClear
<1> QED
  BY <1>1, <1>2, <1>3, <1>4, StepCases

\* Unless close fails, an idle client has its downlink in the default mode.
THEOREM DownlinkRestored ==
    ASSUME "close" \notin Faulty
    PROVE  Spec => []IdleRestoresDownlink
<1>1. Init => IdleRestoresDownlink
  BY DEF Init, IdleRestoresDownlink
<1>2. IdleRestoresDownlink /\ [Next]_vars => IdleRestoresDownlink'
  BY RestoresStep
<1> QED
  BY <1>1, <1>2, PTL DEF Spec

LEMMA OwnsStep ==
    ASSUME "close" \notin Faulty, \A g, h \in Files : g = h,
           TypeInv, TransferOwnsFile, [Next]_vars
    PROVE  TransferOwnsFile'
<1> USE DEF TransferOwnsFile, clientVars, storageVars
<1>1. CASE Ignored \/ Untouched \/ Clock \/ SegmentRxApply \/ ApplyRxData \/ TickRetry
  BY <1>1 DEF Ignored, Untouched, Clock, SegmentRxApply, ApplyRxData, TickRetry
<1>2. ASSUME NEW g \in Files, Starts(g)
      PROVE  TransferOwnsFile'
  <2>1. state = "IDLE"
    BY <1>2 DEF Starts, TypeInv, FileKnown
  <2> QED
    BY <1>2, <2>1 DEF Starts, SegmentStart
<1>3. ASSUME NEW s \in SegNums,
             SegmentRxData(s) \/ SegmentRxLastVerified(s) \/ SegmentRxLastSpoiled(s)
      PROVE  TransferOwnsFile'
  BY <1>3 DEF SegmentRxData, SegmentRxLastVerified, SegmentRxLastSpoiled,
              Reopen, ReopenFails, CloseAndClear, Clear
<1>4. CASE LeavesSegment \/ LeavesApply
  BY <1>4 DEF LeavesSegment, SegmentToIdle, LeavesApply, ApplyToIdle,
              CloseAndClear, Clear
<1> QED
  BY <1>1, <1>2, <1>3, <1>4, StepCases

\* Unless close fails or another file interrupts, the file of the transfer is
\* open in SEGMENT, and nothing is open otherwise.
THEOREM StorageOwned ==
    ASSUME "close" \notin Faulty, \A g, h \in Files : g = h
    PROVE  Spec => []TransferOwnsFile
<1>1. Init => TransferOwnsFile
  BY DEF Init, TransferOwnsFile
<1>2. TypeInv /\ TransferOwnsFile /\ [Next]_vars => TransferOwnsFile'
  BY OwnsStep
<1> QED
  BY <1>1, <1>2, TypeInvariance, PTL DEF Spec

-----------------------------------------------------------------------------
(* The client implements FileTransfer. No invariant but the type's is needed:
   every way a step changes the client (StepCases) is an action of FileTransfer
   by itself, and most of them change nothing there but the report of an
   application. *)

\* The abstract actions, in the client's variables.
LEMMA ForgetCase ==
    ASSUME state' = state, UNCHANGED clientVars, stored' = stored,
           sent'.type # "ACK_APPLY"
    PROVE  Transfer!Forget
  BY DEF clientVars, Active, Transfer!Forget

LEMMA StutterCase ==
    ASSUME UNCHANGED clientVars, stored' = stored, sent' = sent
    PROVE  UNCHANGED Transfer!vars
  BY DEF clientVars, Active, Transfer!vars

\* A transfer leaves SEGMENT or APPLY without an application.
LEMMA DropCase ==
    ASSUME state # "IDLE", state' = "IDLE", sent'.type # "ACK_APPLY"
    PROVE  Transfer!Drop
  BY DEF Active, Transfer!Drop, Transfer!ToIdle

\* The uplinks are told apart by their type.
LEMMA UplinkTypes ==
    ASSUME NEW g, NEW r, NEW ack
    PROVE  /\ NoUplink.type = "NONE"
           /\ AckInit(ack, g).type = "ACK_INIT"
           /\ SegsComplete(g).type = "ACK_SEGMENT"
           /\ SegsRequest(g, r).type = "ACK_SEGMENT"
           /\ AckApply(g).type = "ACK_APPLY" /\ AckApply(g).about = g
  BY DEF NoUplink, AckInit, SegsComplete, SegsRequest, AckApply, Uplink

LEMMA TransferInit == Init => Transfer!Init
  BY UplinkTypes DEF Init, Active, Transfer!Init

LEMMA TransferStep == TypeInv /\ [Next]_vars => [Transfer!Next]_(Transfer!vars)
<1> SUFFICES ASSUME TypeInv, [Next]_vars
             PROVE  Transfer!Next \/ UNCHANGED Transfer!vars
  BY DEF Transfer!vars
<1> USE DEF clientVars, storageVars
<1>f. state # "IDLE" => file \in Files /\ Segs(file) = 0 .. NumSegs[file] - 1
  BY DEF TypeInv, FileKnown, Segs
<1>1. CASE Ignored
  <2>1. Transfer!Forget
    BY <1>1, ForgetCase, UplinkTypes DEF Ignored
  <2> QED
    BY <2>1 DEF Transfer!Next
<1>2. CASE Untouched \/ Clock
  BY <1>2, StutterCase DEF Untouched, Clock
<1>3. ASSUME NEW g \in Files, Starts(g)
      PROVE  Transfer!Next
  <2>1. CASE state' = "SEGMENT" /\ file' = g /\ rx_segs' = {} /\ stored' = {}
             /\ sent' = AckInit("ACK", g)
    <3>1. Transfer!Begin(g)
      BY <1>3, <2>1, UplinkTypes DEF Starts, Active, Transfer!Begin
    <3> QED
      BY <3>1 DEF Transfer!Next
  <2>2. CASE UNCHANGED <<clientVars, storageVars>> /\ sent' = AckInit("NAK", file)
    <3>1. Transfer!Forget
      BY <2>2, ForgetCase, UplinkTypes
    <3> QED
      BY <3>1 DEF Transfer!Next
  <2> QED
    BY <1>3, <2>1, <2>2 DEF Starts, SegmentStart, SendUplink
<1>4. ASSUME NEW s \in SegNums, SegmentRxData(s)
      PROVE  Transfer!Next
  <2>1. Transfer!Receive(s)
    BY <1>4, UplinkTypes
       DEF SegmentRxData, Outcome, Written, Tracked, Active,
           Transfer!Receive, Transfer!Stored
  <2> QED
    BY <2>1 DEF Transfer!Next
<1>5. ASSUME NEW s \in SegNums, SegmentRxLastVerified(s)
      PROVE  Transfer!Next
  <2>1. CASE state' = "APPLY"
    <3>1. state = "SEGMENT" /\ file' = file /\ sent' = SegsComplete(file)
      BY <1>5, <2>1 DEF SegmentRxLastVerified
    <3>2. Segs(file) \subseteq rx_segs' /\ Segs(file) \subseteq stored'
      BY <1>5 DEF SegmentRxLastVerified, Complete, Verify
    <3>3. Transfer!Stored(s)
      BY <1>5, <2>1
         DEF SegmentRxLastVerified, Outcome, Written, Tracked, Active,
             Transfer!Stored
    <3>4. Transfer!BecomeReady(s)
      BY <1>f, <2>1, <3>1, <3>2, <3>3, UplinkTypes
         DEF Active, Transfer!BecomeReady, Transfer!Whole
    <3> QED
      BY <3>4 DEF Transfer!Next
  <2>2. CASE state' = "IDLE"
    <3>1. Transfer!Drop
      BY <1>5, <2>2, DropCase, UplinkTypes DEF SegmentRxLastVerified
    <3> QED
      BY <3>1 DEF Transfer!Next
  <2> QED
    BY <1>5, <2>1, <2>2 DEF SegmentRxLastVerified
<1>6. ASSUME NEW s \in SegNums, SegmentRxLastSpoiled(s)
      PROVE  Transfer!Next
  <2>1. state = "SEGMENT" /\ sent' = NoUplink /\ Segs(file) \subseteq rx_segs \cup {s}
    BY <1>6 DEF SegmentRxLastSpoiled, Complete, Tracked
  <2>2. CASE CloseAndClear
    <3>1. Transfer!Drop
      BY <2>1, <2>2, DropCase, UplinkTypes DEF CloseAndClear, Clear
    <3> QED
      BY <3>1 DEF Transfer!Next
  <2>3. CASE ~ CloseAndClear
    <3>1. /\ state' = state /\ file' = file /\ rx_segs' = {}
          /\ stored' \subseteq stored \cup {s}
      BY <1>6, <2>3 DEF SegmentRxLastSpoiled, Written, Reopen, ReopenFails
    <3>2. Transfer!StartOver(s)
      BY <1>f, <2>1, <3>1, UplinkTypes
         DEF Active, Transfer!StartOver, Transfer!Whole
    <3> QED
      BY <3>2 DEF Transfer!Next
  <2> QED
    BY <2>2, <2>3
<1>7. CASE SegmentRxApply \/ ApplyRxData \/ TickRetry
  <2>1. Transfer!Forget
    BY <1>7, ForgetCase, UplinkTypes
       DEF SegmentRxApply, ApplyRxData, TickRetry, SendUplink, Reset, Active, Transfer!Forget
  <2> QED
    BY <2>1 DEF Transfer!Next
<1>8. CASE LeavesSegment
  <2>1. Transfer!Drop \/ Transfer!Forget
    BY <1>8, DropCase, ForgetCase, UplinkTypes
       DEF LeavesSegment, SegmentToIdle, CloseAndClear, Clear
  <2> QED
    BY <2>1 DEF Transfer!Next
<1>9. CASE LeavesApply
  <2>1. state = "APPLY" /\ state' = "IDLE" /\ sent' \in {NoUplink, AckApply(file)}
    BY <1>9 DEF LeavesApply, ApplyToIdle, CloseAndClear, Clear
  <2>2. CASE sent' = NoUplink
    <3>1. Transfer!Drop
      BY <2>1, <2>2, DropCase, UplinkTypes
    <3> QED
      BY <3>1 DEF Transfer!Next
  <2>3. CASE sent' = AckApply(file)
    <3>1. Transfer!Apply
      BY <2>1, <2>3, UplinkTypes DEF Active, Transfer!Apply, Transfer!ToIdle
    <3> QED
      BY <3>1 DEF Transfer!Next
  <2> QED
    BY <2>1, <2>2, <2>3
<1> QED
  BY <1>1, <1>2, <1>3, <1>4, <1>5, <1>6, <1>7, <1>8, <1>9, StepCases

\* Whatever messages come and callbacks fail, the client's behaviours are those
\* of a file transfer that begins, fills, starts over, becomes ready when whole,
\* and is applied only then.
THEOREM ClientImplementsTransfer == Spec => ImplementsTransfer
  BY TransferInit, TransferStep, TypeInvariance, PTL
     DEF Spec, ImplementsTransfer, Transfer!Spec
=============================================================================
