--------------------------- MODULE CommandsProofs ---------------------------
(***************************************************************************)
(* The FTP client's port and the IRQ flags, proved for every application   *)
(* and any number of its calls, whatever the module does with their        *)
(* commands and however often it resets.                                   *)
(*                                                                         *)
(* Both are about commands a call left in the module's queue, perhaps long *)
(* after it failed. CallInv says that a command is what its call asked     *)
(* for, PortInv and FlagInv what may wait in the queue.                    *)
(***************************************************************************)
EXTENDS Commands, ModuleFieldsProofs, FiniteSetTheorems, TLAPS

-----------------------------------------------------------------------------
(* The lowest descriptor that is free, which open(2) returns *)

LEMMA LowestIsFree ==
    ASSUME IsFiniteSet(fds)
    PROVE  Lowest \in Nat /\ Lowest \notin fds
<1> DEFINE c == Cardinality(fds)
           T == (0 .. c) \ fds
<1>1. c \in Nat
  BY FS_CardinalityType
<1>2. T # {}
  <2>1. /\ IsFiniteSet(0 .. c)
        /\ Cardinality(0 .. c) = IF 0 > c THEN 0 ELSE c - 0 + 1
    BY <1>1, FS_Interval
  <2>2. Cardinality(0 .. c) = c + 1
    BY <1>1, <2>1
  <2>3. 0 .. c \in SUBSET fds => Cardinality(0 .. c) <= c
    BY FS_Subset
  <2> QED
    BY <1>1, <2>2, <2>3
<1>3. PICK n \in T : \A k \in T : n <= k
  <2>1. T \subseteq Nat
    BY <1>1
  <2> QED
    BY <1>2, <2>1, LeastNumber
<1>4. n \in 0 .. c /\ n \notin fds
  OBVIOUS
<1>5. \A k \in 0 .. n - 1 : k \in fds
  <2>1. ASSUME NEW k \in 0 .. n - 1, k \notin fds
        PROVE  FALSE
    <3>1. k \in T
      BY <1>1, <1>4, <2>1
    <3>2. n <= k
      BY <1>3, <3>1
    <3> QED
      BY <1>1, <1>4, <2>1, <3>2
  <2> QED
    BY <2>1
<1>6. Lowest \in 0 .. c /\ Lowest \notin fds
  BY <1>4, <1>5 DEF Lowest
<1> QED
  BY <1>1, <1>6

-----------------------------------------------------------------------------
(* The descriptors of the terminal device *)

TtyInv == IsFiniteSet(fds) /\ g_tty_fd \in Int

LEMMA TtyInit == Init => TtyInv
<1> SUFFICES ASSUME Init PROVE TtyInv
  OBVIOUS
<1>1. g_tty_fd \in {-1, 0} /\ (fds = {} \/ fds = {} \cup {0})
  BY DEF Init
<1>2. IsFiniteSet({})
  BY FS_EmptySet
<1>3. IsFiniteSet({} \cup {0})
  BY <1>2, FS_AddElement
<1> QED
  BY <1>1, <1>2, <1>3 DEF TtyInv

LEMMA ClosedIs ==
    ASSUME TtyInv
    PROVE  /\ Closed[1] \in Int /\ IsFiniteSet(Closed[2])
           /\ Lowest \in Int /\ IsFiniteSet(Closed[2] \cup {Lowest})
<1>1. IsFiniteSet(fds \ {g_tty_fd}) /\ IsFiniteSet(fds) /\ g_tty_fd \in Int
  BY FS_RemoveElement DEF TtyInv
<1>2. Closed[1] \in Int /\ IsFiniteSet(Closed[2])
  BY <1>1 DEF Closed
<1>3. Lowest \in Int
  BY <1>1, LowestIsFree
<1>4. IsFiniteSet(Closed[2] \cup {Lowest})
  BY <1>2, FS_AddElement
<1> QED
  BY <1>2, <1>3, <1>4

LEMMA TtyStep == TtyInv /\ [Next]_vars => TtyInv'
<1> SUFFICES ASSUME TtyInv, [Next]_vars PROVE TtyInv'
  OBVIOUS
<1>1. CASE TtyClose
  BY <1>1, ClosedIs DEF TtyClose, TtyInv
<1>2. ASSUME NEW rate, TtyOpen(rate)
      PROVE  TtyInv'
  <2> DEFINE closed == IF g_tty_fd >= 0 THEN Closed ELSE <<g_tty_fd, fds>>
  <2>1. /\ closed[1] \in Int /\ IsFiniteSet(closed[2])
        /\ Lowest \in Int /\ IsFiniteSet(closed[2] \cup {Lowest})
    <3>1. CASE closed = Closed
      BY <3>1, ClosedIs
    <3>2. CASE closed = <<g_tty_fd, fds>>
      <4>1. IsFiniteSet(fds) /\ g_tty_fd \in Int /\ Lowest \in Int
        BY ClosedIs DEF TtyInv
      <4>2. IsFiniteSet(fds \cup {Lowest})
        BY <4>1, FS_AddElement
      <4> QED
        BY <3>2, <4>1, <4>2
    <3> QED
      BY <3>1, <3>2
  <2>2. \/ g_tty_fd' = closed[1] /\ fds' = closed[2]
        \/ g_tty_fd' = -1 /\ fds' = closed[2]
        \/ g_tty_fd' = Lowest /\ fds' = closed[2] \cup {Lowest}
    BY <1>2 DEF TtyOpen
  <2> HIDE DEF closed
  <2> QED
    BY <2>1, <2>2 DEF TtyInv
<1>3. CASE UNCHANGED ttyVars
  BY <1>3 DEF ttyVars, TtyInv
<1>4. \/ TtyClose
      \/ \E rate \in {"default", "other"} : TtyOpen(rate)
      \/ UNCHANGED ttyVars
  BY DEF Next, vars, ttyVars, Begin, Send, Refused, Fails, Misses, Succeeds, Executes,
     ModuleReset, Arrive, Raise, Event
<1> QED
  BY <1>1, <1>2, <1>3, <1>4

-----------------------------------------------------------------------------
(* Sequences of any elements *)

Sequence(s) == \E S : s \in Seq(S)

LEMMA IsSequence == ASSUME NEW S, NEW s \in Seq(S) PROVE Sequence(s)
  BY DEF Sequence

LEMMA EmptySequence == Sequence(<<>>) /\ DOMAIN <<>> = {}
<1>1. <<>> \in Seq({})
  OBVIOUS
<1>2. DOMAIN <<>> = {}
  OBVIOUS
<1> QED
  BY <1>1, <1>2, IsSequence

LEMMA TailOf ==
    ASSUME NEW s, Sequence(s), s # <<>>
    PROVE  /\ Len(s) \in Nat /\ Len(s) > 0 /\ DOMAIN s = 1 .. Len(s)
           /\ Head(s) = s[1]
           /\ Sequence(Tail(s)) /\ Len(Tail(s)) = Len(s) - 1
           /\ \A k \in DOMAIN Tail(s) :
                 k \in Nat /\ k + 1 \in DOMAIN s /\ Tail(s)[k] = s[k + 1]
<1>1. PICK S : s \in Seq(S)
  BY DEF Sequence
<1>2. Tail(s) \in Seq(S)
  BY <1>1
<1> QED
  BY <1>1, <1>2 DEF Sequence

LEMMA AppendTo ==
    ASSUME NEW s, Sequence(s), NEW e
    PROVE  /\ Sequence(Append(s, e)) /\ Append(s, e) # <<>>
           /\ Len(s) \in Nat /\ Len(Append(s, e)) = Len(s) + 1
           /\ DOMAIN s = 1 .. Len(s)
           /\ DOMAIN Append(s, e) = 1 .. Len(s) + 1
           /\ \A k \in DOMAIN s : Append(s, e)[k] = s[k]
           /\ Append(s, e)[Len(s) + 1] = e
<1>1. PICK S : s \in Seq(S)
  BY DEF Sequence
<1>2. s \in Seq(S \cup {e}) /\ e \in S \cup {e}
  BY <1>1
<1> DEFINE T == S \cup {e}
<1> HIDE DEF T
<1>3. s \in Seq(T) /\ e \in T
  BY <1>2 DEF T
<1>4. Append(s, e) \in Seq(T)
  BY <1>3
<1>5. Sequence(Append(s, e))
  BY <1>4, IsSequence
<1>6. /\ Append(s, e) # <<>>
      /\ Len(s) \in Nat /\ Len(Append(s, e)) = Len(s) + 1
      /\ DOMAIN s = 1 .. Len(s)
      /\ DOMAIN Append(s, e) = 1 .. Len(s) + 1
  BY <1>3, <1>4
<1>7. \A k \in DOMAIN s : Append(s, e)[k] = s[k]
  BY <1>3, <1>6
<1>8. Append(s, e)[Len(s) + 1] = e
  BY <1>3, <1>6
<1> QED
  BY <1>5, <1>6, <1>7, <1>8

LEMMA OlderOf ==
    ASSUME NEW s, Sequence(s)
    PROVE  /\ Sequence(Channel!Older(s)) /\ Len(Channel!Older(s)) = Len(s)
           /\ DOMAIN Channel!Older(s) = DOMAIN s
           /\ \A k \in DOMAIN s :
                 Channel!Older(s)[k] = Channel!Entry(s[k].cmd, FALSE)
<1> DEFINE old(e) == Channel!Entry(e.cmd, FALSE)
<1>1. PICK S : s \in Seq(S)
  BY DEF Sequence
<1>2. Channel!Older(s) = [k \in DOMAIN s |-> old(s[k])]
  BY DEF Channel!Older
<1> DEFINE T == {old(e) : e \in S}
           q == [k \in DOMAIN s |-> old(s[k])]
<1>3. DOMAIN s = 1 .. Len(s) /\ Len(s) \in Nat
  BY <1>1
<1>4. \A k \in DOMAIN s : s[k] \in S
  BY <1>1
<1>5. \A k \in DOMAIN s : old(s[k]) \in T
  BY <1>4
<1> HIDE DEF T, old
<1>6. q \in [1 .. Len(s) -> T]
  BY <1>3, <1>5
<1>7. q \in Seq(T) /\ Len(q) = Len(s) /\ DOMAIN q = DOMAIN s
  BY <1>3, <1>6
<1>8. Sequence(q)
  BY <1>7, IsSequence
<1>9. \A k \in DOMAIN s : q[k] = old(s[k])
  OBVIOUS
<1> QED
  BY <1>2, <1>7, <1>8, <1>9 DEF old

-----------------------------------------------------------------------------
(* The commands of a call *)

\* What the steps of the call c have of it.
OfCall(m, c) ==
    /\ m.op = "irq_flags" <=> c[1] = "irq_flags"
    /\ c[1] = "irq_flags" => m.mask = c[2]
    /\ c[1] = "ftp_uplink" => m.field = "ftp"
    /\ m.op = "message_send" => m.data[1] \in Nat

LEMMA CallsAreTyped ==
    ASSUME api \in Scenarios, NEW c \in api.calls
    PROVE  /\ IsCall(c)
           /\ c[1] \in {"set", "get", "config_set", "config_get", "get_state",
                        "plain", "irq_flags", "retrieve_message", "message_send",
                        "ftp_uplink", "packet_send", "packet_recv",
                        "packet_send_timestamp", "tty_open", "tty_close"}
           /\ c[1] = "get_state" => c[2] \cap {"state", "tx_state", "rx_state"} # {}
           /\ c[1] = "plain" => c[2] \in {"settings_store", "settings_delete",
                                          "restore_defaults", "reset_mcu"}
           /\ c[1] = "message_send" => c[2] \in Nat /\ c[3] \in Nat
<1>1. IsCall(c)
  BY CommandsAssumption
<1> QED
  BY <1>1 DEF IsCall, States

LEMMA StepsAreOfCall ==
    ASSUME api \in Scenarios, NEW c \in api.calls,
           c[1] \notin {"tty_open", "tty_close"}
    PROVE  /\ Sequence(StepsOf(c)) /\ StepsOf(c) # <<>>
           /\ \A k \in DOMAIN StepsOf(c) : OfCall(StepsOf(c)[k].cmd, c)
<1>1. /\ c[1] \in {"set", "get", "config_set", "config_get", "get_state",
                   "plain", "irq_flags", "retrieve_message", "message_send",
                   "ftp_uplink", "packet_send", "packet_recv",
                   "packet_send_timestamp"}
      /\ c[1] = "get_state" => c[2] \cap {"state", "tx_state", "rx_state"} # {}
      /\ c[1] = "plain" => c[2] \in {"settings_store", "settings_delete",
                                     "restore_defaults", "reset_mcu"}
      /\ c[1] = "message_send" => c[3] \in Nat
  BY CallsAreTyped
<1>2. ASSUME NEW s, OfCall(s.cmd, c), StepsOf(c) = <<s>>
      PROVE  /\ Sequence(StepsOf(c)) /\ StepsOf(c) # <<>>
             /\ \A k \in DOMAIN StepsOf(c) : OfCall(StepsOf(c)[k].cmd, c)
  <2>1. <<s>> \in Seq({s}) /\ <<s>> # <<>>
    OBVIOUS
  <2>2. DOMAIN <<s>> = {1} /\ <<s>>[1] = s
    OBVIOUS
  <2>3. Sequence(<<s>>)
    BY <2>1, IsSequence
  <2> QED
    BY <1>2, <2>1, <2>2, <2>3
<1>3. ASSUME NEW s, StepsOf(c) = s, NEW S, s \in Seq(S), s # <<>>,
             \A e \in S : OfCall(e.cmd, c)
      PROVE  /\ Sequence(StepsOf(c)) /\ StepsOf(c) # <<>>
             /\ \A k \in DOMAIN StepsOf(c) : OfCall(StepsOf(c)[k].cmd, c)
  <2>1. \A k \in DOMAIN s : s[k] \in S
    BY <1>3
  <2>2. Sequence(s)
    BY <1>3, IsSequence
  <2> QED
    BY <1>3, <2>1, <2>2
<1>4. CASE c[1] = "set"
  <2>1. OfCall(Set(c[2], c[3]).cmd, c)
    BY <1>4 DEF Set, Step, Cmd, OfCall
  <2>2. StepsOf(c) = <<Set(c[2], c[3])>>
    BY <1>4 DEF StepsOf
  <2> QED
    BY <1>2, <2>1, <2>2
<1>5. CASE c[1] = "get"
  <2>1. OfCall(Get(c[2]).cmd, c)
    BY <1>5 DEF Get, Step, Cmd, OfCall
  <2>2. StepsOf(c) = <<Get(c[2])>>
    BY <1>5 DEF StepsOf
  <2> QED
    BY <1>2, <2>1, <2>2
<1>6. DOMAIN ConfigFields = 1 .. 4
  BY DEF ConfigFields
<1>7. CASE c[1] = "config_set"
  <2> DEFINE s(k) == Set(ConfigFields[k], c[2][k])
             S == {s(k) : k \in 1 .. 4}
  <2>1. StepsOf(c) = [k \in 1 .. 4 |-> s(k)]
    BY <1>6, <1>7 DEF StepsOf
  <2>2. [k \in 1 .. 4 |-> s(k)] \in Seq(S) /\ [k \in 1 .. 4 |-> s(k)] # <<>>
    OBVIOUS
  <2>3. \A k \in 1 .. 4 : OfCall(s(k).cmd, c)
    BY <1>7 DEF Set, Step, Cmd, OfCall
  <2>4. \A e \in S : OfCall(e.cmd, c)
    BY <2>3
  <2> QED
    BY <1>3, <2>1, <2>2, <2>4
<1>8. CASE c[1] = "config_get"
  <2> DEFINE s(k) == Get(ConfigFields[k])
             S == {s(k) : k \in 1 .. 4}
  <2>1. StepsOf(c) = [k \in 1 .. 4 |-> s(k)]
    BY <1>6, <1>8 DEF StepsOf
  <2>2. [k \in 1 .. 4 |-> s(k)] \in Seq(S) /\ [k \in 1 .. 4 |-> s(k)] # <<>>
    OBVIOUS
  <2>3. \A k \in 1 .. 4 : OfCall(s(k).cmd, c)
    BY <1>8 DEF Get, Step, Cmd, OfCall
  <2>4. \A e \in S : OfCall(e.cmd, c)
    BY <2>3
  <2> QED
    BY <1>3, <2>1, <2>2, <2>4
<1>9. CASE c[1] = "get_state"
  <2> DEFINE S == {Get(f) : f \in {"state", "tx_state", "rx_state"}}
             a(f) == Asked(f, c[2])
  <2>1. \A e \in S : OfCall(e.cmd, c)
    BY <1>9 DEF Get, Step, Cmd, OfCall
  <2>2. ASSUME NEW f \in {"state", "tx_state", "rx_state"}
        PROVE  a(f) \in Seq(S) /\ (f \in c[2] => a(f) # <<>>)
    <3>1. Get(f) \in S
      OBVIOUS
    <3>2. <<Get(f)>> \in Seq(S) /\ <<Get(f)>> # <<>> /\ <<>> \in Seq(S)
      BY <3>1
    <3> QED
      BY <3>2 DEF Asked
  <2>3. \E f \in {"state", "tx_state", "rx_state"} : a(f) # <<>>
    BY <1>1, <1>9, <2>2
  <2> HIDE DEF a, S
  <2>4. /\ a("state") \o a("tx_state") \in Seq(S)
        /\ a("state") # <<>> \/ a("tx_state") # <<>> =>
              a("state") \o a("tx_state") # <<>>
    BY <2>2
  <2>5. /\ (a("state") \o a("tx_state")) \o a("rx_state") \in Seq(S)
        /\ (a("state") \o a("tx_state")) \o a("rx_state") # <<>>
    BY <2>2, <2>3, <2>4
  <2>6. StepsOf(c) = (a("state") \o a("tx_state")) \o a("rx_state")
    BY <1>9 DEF StepsOf, a
  <2> QED
    BY <1>3, <2>1, <2>5, <2>6
<1>10. CASE c[1] = "plain"
  <2>1. OfCall(Plain(c[2]).cmd, c)
    BY <1>1, <1>10 DEF Plain, Step, Cmd, OfCall
  <2>2. StepsOf(c) = <<Plain(c[2])>>
    BY <1>10 DEF StepsOf
  <2> QED
    BY <1>2, <2>1, <2>2
<1>11. CASE c[1] = "irq_flags"
  <2>1. OfCall(IrqFlags(c[2]).cmd, c)
    BY <1>11 DEF IrqFlags, Step, Cmd, OfCall
  <2>2. StepsOf(c) = <<IrqFlags(c[2])>>
    BY <1>11 DEF StepsOf
  <2> QED
    BY <1>2, <2>1, <2>2
<1>12. CASE c[1] = "message_send"
  <2>1. OfCall(MessageSend("app", c[2], c[3]).cmd, c)
    BY <1>1, <1>12 DEF MessageSend, Step, Cmd, OfCall
  <2> QED
    BY <1>2, <1>12, <2>1 DEF StepsOf
<1>13. CASE c[1] = "ftp_uplink"
  <2>1. OfCall(MessageSend("ftp", 1, LL_FTP_PORT).cmd, c)
    BY <1>13 DEF MessageSend, Step, Cmd, OfCall, LL_FTP_PORT
  <2> QED
    BY <1>2, <1>13, <2>1 DEF StepsOf
<1>14. CASE c[1] \in {"retrieve_message", "packet_send", "packet_recv"}
  <2>1. \A room : OfCall(Sized(c[1], c[2], room).cmd, c)
    BY <1>14 DEF Sized, Step, Cmd, OfCall
  <2>2. \E room : StepsOf(c) = <<Sized(c[1], c[2], room)>>
    BY <1>14 DEF StepsOf
  <2> QED
    BY <1>2, <2>1, <2>2
<1>15. CASE c[1] = "packet_send_timestamp"
  <2> DEFINE s == <<Plain("timestamp"), Sized("packet_send", c[2], 1)>>
             S == {Plain("timestamp"), Sized("packet_send", c[2], 1)}
  <2>1. StepsOf(c) = s
    BY <1>15 DEF StepsOf
  <2>2. s \in Seq(S) /\ s # <<>>
    OBVIOUS
  <2>3. /\ OfCall(Plain("timestamp").cmd, c)
        /\ OfCall(Sized("packet_send", c[2], 1).cmd, c)
    BY <1>15 DEF Plain, Sized, Step, Cmd, OfCall
  <2>4. \A e \in S : OfCall(e.cmd, c)
    BY <2>3
  <2> QED
    BY <1>3, <2>1, <2>2, <2>4
<1> QED
  BY <1>1, <1>4, <1>5, <1>7, <1>8, <1>9, <1>10, <1>11, <1>12, <1>13, <1>14, <1>15

-----------------------------------------------------------------------------
(* Where a call stands: its steps to come are its own *)

CallInv ==
    /\ api \in Scenarios
    /\ Sequence(todo)
    /\ ~ Idle => todo # <<>>
    /\ \A k \in DOMAIN todo : OfCall(todo[k].cmd, call)
    /\ busy => ~ Idle

LEMMA CallInit == Init => CallInv
<1> SUFFICES ASSUME Init PROVE CallInv
  OBVIOUS
<1>1. api \in Scenarios /\ call = NoCall /\ todo = <<>> /\ busy = FALSE
  BY DEF Init, Channel!Init
<1> QED
  BY <1>1, EmptySequence DEF CallInv, Idle

LEMMA CallStep == CallInv /\ [Next]_vars => CallInv'
<1> SUFFICES ASSUME CallInv, [Next]_vars PROVE CallInv'
  OBVIOUS
<1>1. ASSUME NEW c \in api.calls, Begin(c)
      PROVE  CallInv'
  <2>1. /\ c[1] \notin {"tty_open", "tty_close"} /\ ~ busy
        /\ call' = c /\ todo' = StepsOf(c) /\ api' = api /\ busy' = busy
    BY <1>1 DEF Begin, channelVars, CallInv
  <2>2. api \in Scenarios
    BY DEF CallInv
  <2>3. /\ Sequence(StepsOf(c)) /\ StepsOf(c) # <<>>
        /\ \A k \in DOMAIN StepsOf(c) : OfCall(StepsOf(c)[k].cmd, c)
    BY <2>1, <2>2, StepsAreOfCall
  <2> QED
    BY <2>1, <2>2, <2>3 DEF CallInv
<1>2. CASE Send
  BY <1>2 DEF Send, hostVars, CallInv, Idle
<1>3. ASSUME NEW r, Returns(r), api' = api, ~ busy'
      PROVE  CallInv'
  <2>1. call' = NoCall /\ todo' = <<>>
    BY <1>3 DEF Returns
  <2> QED
    BY <1>3, <2>1, EmptySequence DEF CallInv, Idle
<1>4. CASE Refused
  <2>1. Returns(LL_IFC_ERROR_INCORRECT_PARAMETER) /\ api' = api /\ ~ busy'
    BY <1>4 DEF Refused, channelVars
  <2> QED
    BY <2>1, <1>3 DEF CallInv
<1>5. ASSUME NEW e, Fails(e)
      PROVE  CallInv'
  BY <1>3, <1>5 DEF Fails, Misses, Channel!Fail
<1>6. CASE Succeeds
  <2>1. busy /\ busy' = FALSE /\ api' = api /\ todo # <<>>
    BY <1>6 DEF Succeeds, Channel!Succeed, CallInv
  <2>2. CASE Rest = <<>>
    <3>1. \E r : Returns(r)
      BY <1>6, <2>2 DEF Succeeds
    <3> QED
      BY <1>3, <2>1, <3>1
  <2>3. CASE Rest # <<>>
    <3>1. todo' = Tail(todo) /\ call' = call /\ Tail(todo) # <<>>
      BY <1>6, <2>3 DEF Succeeds, Rest
    <3>2. /\ Sequence(Tail(todo))
          /\ \A k \in DOMAIN Tail(todo) :
                k + 1 \in DOMAIN todo /\ Tail(todo)[k] = todo[k + 1]
      BY <2>1, TailOf DEF CallInv
    <3> QED
      BY <2>1, <3>1, <3>2 DEF CallInv
  <2> QED
    BY <2>2, <2>3
<1>7. CASE TtyClose
  BY <1>7 DEF TtyClose, TtyReturns, channelVars, CallInv, Idle
<1>8. ASSUME NEW rate, TtyOpen(rate)
      PROVE  CallInv'
  <2>1. \E r : TtyReturns(r)
    BY <1>8 DEF TtyOpen
  <2> QED
    BY <2>1 DEF TtyReturns, channelVars, CallInv, Idle
<1>9. CASE UNCHANGED <<hostVars, busy>>
  BY <1>9 DEF hostVars, CallInv, Idle
<1>10. CASE Executes
  <2>1. busy' = busy
    BY <1>10 DEF Executes, Nack, Drops, Store, Load, Keep, ReadFlags, HandOver,
       QueueUplink, Obey, ResetMcu, Answer, Channel!Execute, Channel!Drop
  <2> QED
    BY <1>9, <1>10, <2>1 DEF Executes
<1>11. CASE ModuleReset \/ Arrive \/ (\E flag \in Flags \ {"RESET"} : Raise(flag))
  BY <1>9, <1>11 DEF ModuleReset, Arrive, Raise, Event, channelVars
<1>12. CASE UNCHANGED vars
  BY <1>9, <1>12 DEF vars, channelVars
<1> QED
  BY <1>1, <1>2, <1>4, <1>5, <1>6, <1>7, <1>8, <1>10, <1>11, <1>12 DEF Next

LEMMA AlwaysOfCall == Spec => []CallInv
  BY CallInit, CallStep, PTL DEF Spec

LEMMA NextStepIsOfCall ==
    ASSUME CallInv, ~ Idle
    PROVE  OfCall(Head(todo).cmd, call)
<1>1. /\ DOMAIN todo = 1 .. Len(todo) /\ Len(todo) \in Nat /\ Len(todo) > 0
      /\ Head(todo) = todo[1]
  BY TailOf DEF CallInv
<1> QED
  BY <1>1 DEF CallInv

-----------------------------------------------------------------------------
(* The FTP client's port *)

\* A message on the FTP client's port is the FTP client's.
Rightful(who, port) == port >= LL_FTP_PORT => who = "ftp"

PortInv ==
    /\ old_max_port = 127
    /\ Idle \/ call[1] # "ftp_uplink" => ll_ul_max_port = 127
    /\ Sequence(queue)
    /\ \A k \in DOMAIN queue :
          queue[k].cmd.op = "message_send" =>
              Rightful(queue[k].cmd.field, queue[k].cmd.data[1])
    /\ \A m \in outbox : Rightful(m.who, m.port)

LEMMA PortInit == Init => PortInv
<1> SUFFICES ASSUME Init PROVE PortInv
  OBVIOUS
<1>1. /\ old_max_port = 127 /\ ll_ul_max_port = 127 /\ queue = <<>> /\ outbox = {}
  BY DEF Init, Channel!Init
<1> QED
  BY <1>1, EmptySequence DEF PortInv

LEMMA PortStep == CallInv /\ PortInv /\ [Next]_vars => PortInv'
<1> SUFFICES ASSUME CallInv, PortInv, [Next]_vars PROVE PortInv'
  OBVIOUS
<1>1. ASSUME NEW c \in api.calls, Begin(c)
      PROVE  PortInv'
  <2>1. /\ call' = c /\ Idle /\ old_max_port' = ll_ul_max_port
        /\ ll_ul_max_port' = IF c[1] = "ftp_uplink" THEN LL_FTP_PORT ELSE ll_ul_max_port
        /\ UNCHANGED <<queue, outbox>>
    BY <1>1 DEF Begin, channelVars, moduleVars
  <2>2. c[1] \in {"set", "get", "config_set", "config_get", "get_state",
                  "plain", "irq_flags", "retrieve_message", "message_send",
                  "ftp_uplink", "packet_send", "packet_recv",
                  "packet_send_timestamp", "tty_open", "tty_close"}
    BY CallsAreTyped DEF CallInv
  <2>3. ~ Idle'
    BY <2>1, <2>2 DEF Idle, NoCall
  <2> QED
    BY <2>1, <2>3 DEF PortInv
<1>2. CASE Send
  <2> DEFINE c == Head(todo).cmd
             old == Channel!Older(queue)
  <2>1. /\ queue' \in {old, Append(old, Channel!Entry(c, TRUE))}
        /\ UNCHANGED <<call, old_max_port, ll_ul_max_port, outbox>>
        /\ ~ Idle /\ Accepted(Head(todo))
    BY <1>2 DEF Send, Channel!Call, hostVars, moduleVars
  <2>2. c.op = "message_send" => Rightful(c.field, c.data[1])
    <3>1. OfCall(c, call)
      BY <2>1, NextStepIsOfCall
    <3>2. ASSUME c.op = "message_send", call[1] # "ftp_uplink"
          PROVE  c.data[1] \in Nat /\ c.data[1] <= 127
      BY <2>1, <3>1, <3>2 DEF OfCall, Accepted, PortInv
    <3> QED
      BY <3>1, <3>2 DEF OfCall, Rightful, LL_FTP_PORT
  <2>3. /\ Sequence(old) /\ DOMAIN old = DOMAIN queue
        /\ \A k \in DOMAIN queue : old[k].cmd = queue[k].cmd
    <3>1. Sequence(queue)
      BY DEF PortInv
    <3>2. \A k \in DOMAIN queue : Channel!Entry(queue[k].cmd, FALSE).cmd = queue[k].cmd
      BY DEF Channel!Entry
    <3> QED
      BY <3>1, <3>2, OlderOf
  <2> HIDE DEF c, old
  <2>4. CASE queue' = old
    BY <2>1, <2>3, <2>4 DEF PortInv, Idle
  <2>5. CASE queue' = Append(old, Channel!Entry(c, TRUE))
    <3>1. /\ Sequence(queue')
          /\ \A k \in DOMAIN queue' :
                \/ k \in DOMAIN old /\ queue'[k] = old[k]
                \/ queue'[k] = Channel!Entry(c, TRUE)
      <4> DEFINE e == Channel!Entry(c, TRUE)
      <4>1. /\ Sequence(Append(old, e)) /\ Len(old) \in Nat
            /\ DOMAIN old = 1 .. Len(old)
            /\ DOMAIN Append(old, e) = 1 .. Len(old) + 1
            /\ \A k \in DOMAIN old : Append(old, e)[k] = old[k]
            /\ Append(old, e)[Len(old) + 1] = e
        <5>1. Sequence(old)
          BY <2>3
        <5> HIDE DEF e
        <5> QED
          BY <5>1, AppendTo
      <4> HIDE DEF e
      <4>2. \A k \in 1 .. Len(old) + 1 : k \in 1 .. Len(old) \/ k = Len(old) + 1
        BY <4>1
      <4> QED
        BY <2>5, <4>1, <4>2 DEF e
    <3>2. Channel!Entry(c, TRUE).cmd = c
      BY DEF Channel!Entry
    <3>3. ASSUME NEW k \in DOMAIN queue', queue'[k].cmd.op = "message_send"
          PROVE  Rightful(queue'[k].cmd.field, queue'[k].cmd.data[1])
      <4>1. CASE k \in DOMAIN old /\ queue'[k] = old[k]
        <5>1. k \in DOMAIN queue /\ queue'[k].cmd = queue[k].cmd
          BY <2>3, <4>1
        <5> QED
          BY <3>3, <5>1 DEF PortInv
      <4>2. CASE queue'[k] = Channel!Entry(c, TRUE)
        BY <2>2, <3>2, <3>3, <4>2
      <4> QED
        BY <3>1, <4>1, <4>2
    <3> QED
      BY <2>1, <3>1, <3>3 DEF PortInv, Idle
  <2> QED
    BY <2>1, <2>4, <2>5
<1>3. ASSUME NEW r, Returns(r), UNCHANGED <<queue, outbox>>
      PROVE  PortInv'
  BY <1>3 DEF Returns, PortInv, Idle
<1>4. CASE Refused
  BY <1>3, <1>4 DEF Refused, channelVars, moduleVars
<1>5. ASSUME NEW e, Fails(e)
      PROVE  PortInv'
  BY <1>3, <1>5 DEF Fails, Misses, Channel!Fail, moduleVars
<1>6. CASE Succeeds
  <2>1. UNCHANGED <<queue, outbox>>
    BY <1>6 DEF Succeeds, Channel!Succeed, moduleVars
  <2>2. CASE Rest = <<>>
    BY <1>3, <1>6, <2>1, <2>2 DEF Succeeds
  <2>3. CASE Rest # <<>>
    BY <1>6, <2>1, <2>3 DEF Succeeds, PortInv, Idle
  <2> QED
    BY <2>2, <2>3
<1>7. CASE UNCHANGED <<hostVars, queue, outbox>>
  BY <1>7 DEF hostVars, PortInv, Idle
<1>8. CASE TtyClose \/ (\E rate \in {"default", "other"} : TtyOpen(rate))
  <2>1. \E r : TtyReturns(r)
    BY <1>8 DEF TtyClose, TtyOpen
  <2> QED
    BY <2>1 DEF TtyReturns, channelVars, moduleVars, PortInv, Idle
<1>9. CASE Executes
  <2> DEFINE c == Head(queue).cmd
  <2>1. queue # <<>> /\ queue' = Tail(queue) /\ UNCHANGED hostVars
    BY <1>9 DEF Executes, Nack, Drops, Store, Load, Keep, ReadFlags, HandOver,
       QueueUplink, Obey, ResetMcu, Answer, Channel!Execute, Channel!Drop
  <2>2. \/ UNCHANGED outbox
        \/ /\ c.op = "message_send"
           /\ outbox' = outbox \cup {[who |-> c.field, port |-> c.data[1]]}
    BY <1>9 DEF Executes, Nack, Drops, Store, Load, Keep, ReadFlags, HandOver,
       QueueUplink, Obey, ResetMcu, Reboots, moduleVars
  <2>3. /\ Len(queue) \in Nat /\ Len(queue) > 0 /\ DOMAIN queue = 1 .. Len(queue)
        /\ Head(queue) = queue[1]
        /\ Sequence(Tail(queue))
        /\ \A k \in DOMAIN Tail(queue) :
              k + 1 \in DOMAIN queue /\ Tail(queue)[k] = queue[k + 1]
    BY <2>1, TailOf DEF PortInv
  <2>4. c.op = "message_send" => Rightful(c.field, c.data[1])
    BY <2>3 DEF PortInv
  <2>5. \A m \in outbox' : Rightful(m.who, m.port)
    BY <2>2, <2>4 DEF PortInv
  <2>6. \A k \in DOMAIN queue' :
           queue'[k].cmd.op = "message_send" =>
               Rightful(queue'[k].cmd.field, queue'[k].cmd.data[1])
    BY <2>1, <2>3 DEF PortInv
  <2> QED
    BY <2>1, <2>3, <2>5, <2>6 DEF hostVars, PortInv, Idle
<1>10. CASE ModuleReset \/ Arrive \/ (\E flag \in Flags \ {"RESET"} : Raise(flag))
  BY <1>7, <1>10 DEF ModuleReset, Arrive, Raise, Reboots, Event, channelVars
<1>11. CASE UNCHANGED vars
  BY <1>7, <1>11 DEF vars, channelVars, moduleVars
<1> QED
  BY <1>1, <1>2, <1>4, <1>5, <1>6, <1>8, <1>9, <1>10, <1>11 DEF Next

\* ReservedPortIsFtps: only the FTP client's messages leave on its port, also
\* when they are executed after their call failed; between two calls the port
\* is closed.
THEOREM PortIsKept == Spec => []ReservedPortIsFtps
<1>1. PortInv => ReservedPortIsFtps
  BY DEF PortInv, ReservedPortIsFtps, Rightful, LL_FTP_PORT
<1> QED
  BY AlwaysOfCall, PortInit, PortStep, <1>1, PTL DEF Spec

-----------------------------------------------------------------------------
(* The flags *)

\* What a waiting ll_irq_flags e will clear: flags the running call c waits for,
\* or flags of g, given up with a call that failed.
Waiting(e, b, c, g) ==
    e.cmd.op = "irq_flags" =>
        \/ e.mine /\ b /\ c[1] = "irq_flags" /\ e.cmd.mask = c[2]
        \/ e.cmd.mask \subseteq g

\* The flags cleared by the answer the caller has not read yet.
OnTheWay ==
    IF busy /\ call[1] = "irq_flags" /\ reply.given /\ reply.nack = 0
    THEN reply.data[1] \cap call[2] ELSE {}

FlagInv ==
    /\ Sequence(queue)
    /\ \A k \in DOMAIN queue : queue[k].mine => k = Len(queue) /\ ~ reply.given
    /\ \A k \in DOMAIN queue : Waiting(queue[k], busy, call, given_up)
    /\ unseen \subseteq irq \cup given_up \cup OnTheWay

LEMMA FlagInit == Init => FlagInv
<1> SUFFICES ASSUME Init PROVE FlagInv
  OBVIOUS
<1>1. queue = <<>> /\ unseen = {}
  BY DEF Init, Channel!Init
<1> QED
  BY <1>1, EmptySequence DEF FlagInv

\* A command is sent: those that wait are nobody's now, the new one is the call's.
LEMMA FlagSend ==
    ASSUME CallInv, FlagInv, Send
    PROVE  FlagInv'
<1> DEFINE c == Head(todo).cmd
           old == Channel!Older(queue)
           e == Channel!Entry(c, TRUE)
<1>1. /\ queue' \in {old, Append(old, e)}
      /\ reply' = Channel!NoReply
      /\ ~ busy /\ busy' = TRUE /\ ~ Idle
      /\ UNCHANGED <<call, irq, unseen, given_up>>
  BY DEF Send, Channel!Call, hostVars, moduleVars, appHistory
<1>2. OfCall(c, call)
  BY <1>1, NextStepIsOfCall
<1>3. ~ reply'.given
  BY <1>1 DEF Channel!NoReply
<1>4. e.cmd = c /\ e.mine = TRUE
  BY DEF Channel!Entry
<1>5. Waiting(e, busy', call', given_up')
  BY <1>1, <1>2, <1>4 DEF Waiting, OfCall
<1>6. Sequence(queue)
  BY DEF FlagInv
<1>7. \A k \in DOMAIN queue :
         /\ Channel!Entry(queue[k].cmd, FALSE).cmd = queue[k].cmd
         /\ Channel!Entry(queue[k].cmd, FALSE).mine = FALSE
  BY DEF Channel!Entry
<1>8. /\ Sequence(old) /\ DOMAIN old = DOMAIN queue
      /\ \A k \in DOMAIN queue : old[k].cmd = queue[k].cmd /\ old[k].mine = FALSE
  BY <1>6, <1>7, OlderOf
<1>9. \A k \in DOMAIN queue :
         queue[k].cmd.op = "irq_flags" => queue[k].cmd.mask \subseteq given_up
  BY <1>1 DEF FlagInv, Waiting
<1> HIDE DEF c, old, e
<1>10. unseen' \subseteq irq' \cup given_up' \cup OnTheWay'
  BY <1>1, <1>3 DEF FlagInv, OnTheWay
<1>11. CASE queue' = old
  <2>1. \A k \in DOMAIN queue' : Waiting(queue'[k], busy', call', given_up')
    BY <1>1, <1>8, <1>9, <1>11 DEF Waiting
  <2> QED
    BY <1>3, <1>8, <1>10, <1>11, <2>1 DEF FlagInv
<1>12. CASE queue' = Append(old, e)
  <2>1. /\ Sequence(queue') /\ Len(old) \in Nat /\ Len(queue') = Len(old) + 1
        /\ DOMAIN old = 1 .. Len(old)
        /\ DOMAIN queue' = 1 .. Len(old) + 1
        /\ \A k \in DOMAIN old : queue'[k] = old[k]
        /\ queue'[Len(old) + 1] = e
    <3>1. Sequence(old)
      BY <1>8
    <3> QED
      BY <1>12, <3>1, AppendTo
  <2>2. ASSUME NEW k \in DOMAIN queue'
        PROVE  /\ queue'[k].mine => k = Len(queue')
               /\ Waiting(queue'[k], busy', call', given_up')
    <3>1. CASE k \in DOMAIN old
      <4>1. queue'[k].cmd = queue[k].cmd /\ queue'[k].mine = FALSE /\ k \in DOMAIN queue
        BY <1>8, <2>1, <3>1
      <4> QED
        BY <1>1, <1>9, <4>1 DEF Waiting
    <3>2. CASE k = Len(old) + 1
      BY <1>5, <2>1, <3>2
    <3> QED
      BY <2>1, <3>1, <3>2
  <2> QED
    BY <1>3, <1>10, <2>1, <2>2 DEF FlagInv
<1> QED
  BY <1>1, <1>11, <1>12

\* A call ends or goes on, and what its answer held is handed over or given up.
LEMMA FlagReturn ==
    ASSUME FlagInv, ~ busy', UNCHANGED <<queue, reply>>,
           given_up \subseteq given_up',
           unseen' \subseteq irq' \cup given_up',
           busy => \A k \in DOMAIN queue :
                      queue[k].mine /\ queue[k].cmd.op = "irq_flags" =>
                          queue[k].cmd.mask \subseteq given_up'
    PROVE  FlagInv'
<1>1. \A k \in DOMAIN queue' : Waiting(queue'[k], busy', call', given_up')
  BY DEF FlagInv, Waiting
<1> QED
  BY <1>1 DEF FlagInv

\* The module takes its oldest command and leaves the flags, or resets.
LEMMA FlagTaken ==
    ASSUME FlagInv, queue # <<>>, queue' = Tail(queue),
           UNCHANGED <<busy, call, given_up>>,
           reply' = reply \/ Head(queue).mine,
           unseen' \subseteq irq' \cup given_up' \cup OnTheWay'
    PROVE  FlagInv'
<1>1. /\ Len(queue) \in Nat /\ Len(queue) > 0 /\ DOMAIN queue = 1 .. Len(queue)
      /\ Head(queue) = queue[1]
      /\ Sequence(Tail(queue)) /\ Len(Tail(queue)) = Len(queue) - 1
      /\ \A k \in DOMAIN Tail(queue) :
            k \in Nat /\ k + 1 \in DOMAIN queue /\ Tail(queue)[k] = queue[k + 1]
  BY TailOf DEF FlagInv
<1>2. ASSUME NEW k \in DOMAIN queue'
      PROVE  /\ queue'[k].mine => k = Len(queue') /\ ~ reply'.given
             /\ Waiting(queue'[k], busy', call', given_up')
  <2>1. k \in Nat /\ k + 1 \in DOMAIN queue /\ queue'[k] = queue[k + 1]
    BY <1>1, <1>2
  <2>2. queue[k + 1].mine => k + 1 = Len(queue) /\ ~ reply.given
    BY <2>1 DEF FlagInv
  <2>3. ~ Head(queue).mine
    <3>1. Head(queue).mine => 1 = Len(queue)
      BY <1>1 DEF FlagInv
    <3> QED
      BY <1>1, <2>1, <3>1
  <2>4. Waiting(queue[k + 1], busy, call, given_up)
    BY <2>1 DEF FlagInv
  <2>5. Waiting(queue'[k], busy', call', given_up')
    BY <2>1, <2>4 DEF Waiting
  <2> QED
    BY <1>1, <2>1, <2>2, <2>3, <2>5
<1> QED
  BY <1>1, <1>2 DEF FlagInv

LEMMA FlagExecutes ==
    ASSUME FlagInv, Executes
    PROVE  FlagInv'
<1> DEFINE h == Head(queue)
           c == Head(queue).cmd
<1>1. /\ queue # <<>> /\ queue' = Tail(queue)
      /\ UNCHANGED <<busy, call, given_up>>
      /\ h.mine \/ reply' = reply
  BY DEF Executes, hostVars, appHistory, Nack, Drops, Store, Load, Keep, ReadFlags,
     HandOver, QueueUplink, Obey, ResetMcu, Answer, Channel!Execute, Channel!Drop
<1>2. /\ h.mine => ~ reply.given
      /\ Waiting(h, busy, call, given_up)
  <2>1. 1 \in DOMAIN queue /\ h = queue[1]
    BY <1>1, TailOf DEF FlagInv
  <2> QED
    BY <2>1 DEF FlagInv
<1>3. \/ h.mine /\ unseen \subseteq irq \cup given_up
      \/ ~ h.mine /\ OnTheWay' = OnTheWay
  BY <1>1, <1>2 DEF FlagInv, OnTheWay
<1>4. unseen \subseteq irq \cup given_up \cup OnTheWay
  BY DEF FlagInv
<1>5. unseen' \subseteq irq' \cup given_up' \cup OnTheWay'
  <2>1. CASE UNCHANGED <<irq, unseen>>
    BY <1>1, <1>3, <1>4, <2>1
  <2>2. CASE irq' = {"RESET"} /\ unseen' = {"RESET"}
    BY <2>2
  <2>3. CASE ReadFlags(c)
    <3>1. /\ c.op = "irq_flags" /\ irq' = irq \ c.mask /\ unseen' = unseen
          /\ reply' = IF h.mine THEN Channel!Acked(<<irq>>) ELSE reply
      BY <2>3 DEF ReadFlags, Answer, Channel!Execute
    <3>2. CASE c.mask \subseteq given_up
      BY <1>1, <1>3, <1>4, <3>1, <3>2
    <3>3. CASE h.mine /\ busy /\ call[1] = "irq_flags" /\ c.mask = call[2]
      <4>1. reply'.given /\ reply'.nack = 0 /\ reply'.data[1] = irq
        BY <3>1, <3>3 DEF Channel!Acked
      <4>2. OnTheWay' = irq \cap call[2]
        BY <1>1, <3>3, <4>1 DEF OnTheWay
      <4> QED
        BY <1>1, <1>3, <3>1, <3>3, <4>2
    <3> QED
      BY <1>2, <3>1, <3>2, <3>3 DEF Waiting
  <2> QED
    BY <2>1, <2>2, <2>3 DEF Executes, Nack, Drops, Store, Load, Keep, HandOver,
       QueueUplink, Obey, ResetMcu, Reboots, moduleVars
<1> HIDE DEF h, c
<1> QED
  BY <1>1, <1>5, FlagTaken DEF h

LEMMA FlagStep == CallInv /\ FlagInv /\ [Next]_vars => FlagInv'
<1> SUFFICES ASSUME CallInv, FlagInv, [Next]_vars PROVE FlagInv'
  OBVIOUS
<1>1. ~ busy => unseen \subseteq irq \cup given_up
  BY DEF FlagInv, OnTheWay
<1>2. CASE ~ busy /\ UNCHANGED <<busy, queue, reply, irq, given_up, unseen>>
  BY <1>1, <1>2, FlagReturn
<1>3. ASSUME NEW c \in api.calls, Begin(c)
      PROVE  FlagInv'
  <2>1. ~ busy
    BY <1>3 DEF Begin, CallInv
  <2> QED
    BY <1>2, <1>3, <2>1 DEF Begin, channelVars, moduleVars
<1>4. CASE Refused
  BY <1>2, <1>4 DEF Refused, channelVars, moduleVars
<1>5. ASSUME NEW e, Fails(e)
      PROVE  FlagInv'
  <2>1. /\ busy /\ ~ busy' /\ UNCHANGED <<queue, reply, irq, unseen>>
        /\ given_up' = given_up \cup (IF call[1] = "irq_flags" THEN call[2] ELSE {})
    BY <1>5 DEF Fails, Misses, Channel!Fail, moduleVars
  <2>2. unseen' \subseteq irq' \cup given_up'
    BY <2>1 DEF FlagInv, OnTheWay
  <2>3. \A k \in DOMAIN queue :
           queue[k].mine /\ queue[k].cmd.op = "irq_flags" =>
               queue[k].cmd.mask \subseteq given_up'
    BY <2>1 DEF FlagInv, Waiting
  <2> QED
    BY <2>1, <2>2, <2>3, FlagReturn
<1>6. CASE Succeeds
  <2>1. /\ busy /\ ~ busy' /\ reply.given /\ reply.nack = 0
        /\ UNCHANGED <<queue, reply, irq, given_up>>
        /\ unseen' = unseen \ (IF Head(todo).cmd.op = "irq_flags"
                               THEN reply.data[1] ELSE {})
    BY <1>6 DEF Succeeds, Channel!Succeed, moduleVars
  <2>2. OfCall(Head(todo).cmd, call)
    BY <2>1, NextStepIsOfCall DEF CallInv
  <2>3. unseen' \subseteq irq' \cup given_up'
    BY <2>1, <2>2 DEF FlagInv, OnTheWay, OfCall
  <2>4. \A k \in DOMAIN queue : ~ queue[k].mine
    BY <2>1 DEF FlagInv
  <2> QED
    BY <2>1, <2>3, <2>4, FlagReturn
<1>7. CASE TtyClose \/ (\E rate \in {"default", "other"} : TtyOpen(rate))
  <2>1. Idle /\ \E r : TtyReturns(r)
    BY <1>7 DEF TtyClose, TtyOpen
  <2>2. ~ busy
    BY <2>1 DEF CallInv
  <2> QED
    BY <1>2, <2>1, <2>2 DEF TtyReturns, channelVars, moduleVars
<1>8. ASSUME UNCHANGED <<busy, call, queue, reply, given_up>>,
             unseen' \subseteq irq' \cup given_up' \cup OnTheWay'
      PROVE  FlagInv'
  BY <1>8 DEF FlagInv
<1>9. CASE ModuleReset \/ Arrive \/ (\E flag \in Flags \ {"RESET"} : Raise(flag))
  <2>1. /\ UNCHANGED <<busy, call, queue, reply, given_up>>
        /\ \/ UNCHANGED <<irq, unseen>>
           \/ irq' = {"RESET"} /\ unseen' = {"RESET"}
           \/ \E flag : irq' = irq \cup {flag} /\ unseen' = unseen \cup {flag}
    BY <1>9 DEF ModuleReset, Arrive, Raise, Reboots, Event, hostVars, channelVars,
       appHistory
  <2>2. OnTheWay' = OnTheWay
    BY <2>1 DEF OnTheWay
  <2>3. unseen \subseteq irq \cup given_up \cup OnTheWay
    BY DEF FlagInv
  <2> QED
    BY <1>8, <2>1, <2>2, <2>3
<1>10. CASE UNCHANGED vars
  BY <1>10 DEF vars, hostVars, channelVars, moduleVars, appHistory, FlagInv, OnTheWay
<1> QED
  BY <1>3, <1>4, <1>5, <1>6, <1>7, <1>9, <1>10, FlagSend, FlagExecutes DEF Next

\* FlagIsNotLost: what the module raised is raised, was handed over, or was given
\* up by a call of ll_irq_flags that failed, even when the module clears it only
\* later.
THEOREM FlagsAreKept == Spec => []FlagIsNotLost
<1>1. CallInv /\ FlagInv => FlagIsNotLost
  BY DEF CallInv, FlagInv, OnTheWay, FlagIsNotLost
<1> QED
  BY AlwaysOfCall, FlagInit, FlagStep, <1>1, PTL DEF Spec
=============================================================================
