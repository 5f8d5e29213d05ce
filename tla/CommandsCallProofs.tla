------------------------- MODULE CommandsCallProofs -------------------------
(***************************************************************************)
(* Theorems about the calls of the API (Commands) that need to know where  *)
(* a call stands, what is in the queue, and what the module has stored:    *)
(* the order of what the module sees, the errors a caller gets, the        *)
(* messages kept for the application, the settings the application set.    *)
(***************************************************************************)
EXTENDS CommandsProofs

-----------------------------------------------------------------------------
(* The steps of a call *)

\* The step s sets the field f to v.
SetsTo(s, f, v) ==
    /\ s.cmd.op = "set" /\ s.cmd.field = f /\ s.cmd.data = Encode(f, v)
    /\ f = "radio" => s.cmd.mask = v.flags
    /\ s.ok <=> Accepts(f, v)

Keepers == {"settings_store", "settings_delete", "restore_defaults", "reset_mcu"}

\* The steps t are the last ones of the call c.
StepsLeft(t, c) ==
    /\ c[1] = "set" => Len(t) = 1 /\ SetsTo(t[1], c[2], c[3])
    /\ c[1] = "config_set" =>
          /\ Len(t) \in 1 .. 4
          /\ \A k \in 1 .. Len(t) :
                SetsTo(t[k], ConfigFields[4 - Len(t) + k], c[2][4 - Len(t) + k])
    /\ c[1] = "plain" => Len(t) = 1 /\ t[1].cmd.op = c[2]
    /\ c[1] = "irq_flags" => Len(t) = 1
    /\ c[1] \notin {"set", "config_set"} => \A k \in DOMAIN t : t[k].cmd.op # "set"
    /\ c[1] # "plain" => \A k \in DOMAIN t : t[k].cmd.op \notin Keepers

Made == {"set", "get", "config_set", "config_get", "get_state", "plain", "irq_flags",
         "retrieve_message", "message_send", "ftp_uplink", "packet_send",
         "packet_recv", "packet_send_timestamp"}

\* What all steps have: whose they are, and what they get.
Getting(s) ==
    /\ s.cmd.op = "get" => s.cmd.field \in Fields
    /\ s.cmd.op \in {"set", "get", "irq_flags", "retrieve_message", "message_send",
                     "packet_send", "packet_recv", "timestamp"} \cup Keepers

LEMMA StepsAre ==
    ASSUME NEW c, IsCall(c), c[1] \in Made
    PROVE  /\ StepsLeft(StepsOf(c), c)
           /\ \A k \in DOMAIN StepsOf(c) :
                 StepsOf(c)[k].cmd.by = calls /\ Getting(StepsOf(c)[k])
<1> DEFINE t == StepsOf(c)
           Good(s) == s.cmd.by = calls /\ Getting(s)
           Other(s) == s.cmd.op \notin {"set"} \cup Keepers
<1>1. ASSUME NEW f, NEW v
      PROVE  SetsTo(Set(f, v), f, v) /\ Good(Set(f, v)) /\ Set(f, v).cmd.op = "set"
  BY DEF Set, Step, Cmd, SetsTo, Getting
<1>2. ASSUME NEW f \in Fields
      PROVE  Good(Get(f)) /\ Other(Get(f))
  BY <1>2 DEF Get, Step, Cmd, Getting, Keepers
<1>3. ASSUME NEW op \in Keepers \cup {"timestamp"}
      PROVE  Good(Plain(op)) /\ Plain(op).cmd.op = op
  BY DEF Plain, Step, Cmd, Getting, Keepers
<1>4. ASSUME NEW op \in {"retrieve_message", "packet_send", "packet_recv"},
             NEW n, NEW r
      PROVE  Good(Sized(op, n, r)) /\ Other(Sized(op, n, r))
  BY DEF Sized, Step, Cmd, Getting, Keepers
<1>5. ASSUME NEW m
      PROVE  Good(IrqFlags(m)) /\ Other(IrqFlags(m))
  BY DEF IrqFlags, Step, Cmd, Getting, Keepers
<1>6. ASSUME NEW w, NEW n, NEW p
      PROVE  Good(MessageSend(w, n, p)) /\ Other(MessageSend(w, n, p))
  BY DEF MessageSend, Step, Cmd, Getting, Keepers
<1>7. "timestamp" \notin Keepers \cup {"set"} /\ "set" \notin Keepers
  BY DEF Keepers
<1> HIDE DEF Good, Other
<1>8. ASSUME NEW s, t = <<s>>
      PROVE  Len(t) = 1 /\ DOMAIN t = {1} /\ t[1] = s
  BY <1>8
<1>9. \A s : Other(s) => s.cmd.op # "set" /\ s.cmd.op \notin Keepers
  BY DEF Other
<1> HIDE DEF t
<1>10. ASSUME c[1] \notin {"set", "config_set", "plain"},
              \A k \in DOMAIN t : Other(t[k]),
              c[1] = "irq_flags" => Len(t) = 1
       PROVE  StepsLeft(t, c)
  BY <1>9, <1>10 DEF StepsLeft
<1>11. DOMAIN ConfigFields = 1 .. 4 /\ \A k \in 1 .. 4 : ConfigFields[k] \in Fields
  BY DEF ConfigFields, Fields, ToSet
<1>12. CASE c[1] = "set"
  <2>1. t = <<Set(c[2], c[3])>>
    BY <1>12 DEF StepsOf, t
  <2>2. Len(t) = 1 /\ DOMAIN t = {1} /\ t[1] = Set(c[2], c[3])
    BY <1>8, <2>1
  <2>3. StepsLeft(t, c)
    BY <1>1, <1>7, <1>12, <2>2 DEF StepsLeft
  <2> QED
    BY <1>1, <2>2, <2>3 DEF t, Good
<1>13. CASE c[1] = "get"
  <2>1. t = <<Get(c[2])>> /\ c[2] \in Fields
    BY <1>13 DEF StepsOf, t, IsCall
  <2>2. DOMAIN t = {1} /\ t[1] = Get(c[2])
    BY <1>8, <2>1
  <2> QED
    BY <1>2, <1>10, <1>13, <2>1, <2>2 DEF t, Good
<1>14. CASE c[1] = "config_set"
  <2>1. t = [k \in 1 .. 4 |-> Set(ConfigFields[k], c[2][k])]
    BY <1>11, <1>14 DEF StepsOf, t
  <2>2. Len(t) = 4 /\ DOMAIN t = 1 .. 4
        /\ \A k \in 1 .. 4 : t[k] = Set(ConfigFields[k], c[2][k])
    BY <2>1
  <2>3. \A k \in 1 .. 4 : t[k].cmd.op = "set"
    BY <1>1, <2>2
  <2>4. \A k \in 1 .. Len(t) :
           SetsTo(t[k], ConfigFields[4 - Len(t) + k], c[2][4 - Len(t) + k])
    <3>1. \A k \in 1 .. 4 : SetsTo(t[k], ConfigFields[k], c[2][k])
      BY <1>1, <2>2
    <3>2. \A k \in 1 .. 4 : 4 - Len(t) + k = k
      BY <2>2
    <3> QED
      BY <2>2, <3>1, <3>2
  <2>5. StepsLeft(t, c)
    <3>1. \A k \in DOMAIN t : t[k].cmd.op \notin Keepers
      BY <1>7, <2>2, <2>3
    <3>2. Len(t) \in 1 .. 4
      BY <2>2
    <3> QED
      BY <1>14, <2>4, <3>1, <3>2 DEF StepsLeft
  <2>6. \A k \in DOMAIN t : Good(t[k])
    BY <1>1, <2>2
  <2> QED
    BY <2>5, <2>6 DEF t, Good
<1>15. CASE c[1] = "config_get"
  <2>1. t = [k \in 1 .. 4 |-> Get(ConfigFields[k])]
    BY <1>11, <1>15 DEF StepsOf, t
  <2>2. \A k \in DOMAIN t : Good(t[k]) /\ Other(t[k])
    BY <1>2, <1>11, <2>1
  <2> QED
    BY <1>10, <1>15, <2>2 DEF t, Good
<1>16. CASE c[1] = "get_state"
  <2> DEFINE F == {"state", "tx_state", "rx_state"}
             S == {Get(f) : f \in F}
             a(f) == Asked(f, c[2])
  <2>1. F \subseteq Fields
    BY DEF Fields, NetworkFields
  <2>2. \A s \in S : Good(s) /\ Other(s)
    BY <1>2, <2>1
  <2>3. \A f \in F : a(f) \in Seq(S)
    <3>1. \A f \in F : <<Get(f)>> \in Seq(S)
      OBVIOUS
    <3>2. <<>> \in Seq(S)
      OBVIOUS
    <3> QED
      BY <3>1, <3>2 DEF Asked
  <2>4. t = (a("state") \o a("tx_state")) \o a("rx_state")
    BY <1>16 DEF StepsOf, t
  <2> HIDE DEF a, S
  <2>5. a("state") \o a("tx_state") \in Seq(S)
    BY <2>3
  <2>6. t \in Seq(S)
    BY <2>3, <2>4, <2>5
  <2>7. \A k \in DOMAIN t : t[k] \in S
    BY <2>6
  <2> QED
    BY <1>10, <1>16, <2>2, <2>7 DEF t, Good
<1>17. CASE c[1] = "plain"
  <2>1. t = <<Plain(c[2])>> /\ c[2] \in Keepers
    BY <1>17 DEF StepsOf, t, IsCall, Keepers
  <2>2. Len(t) = 1 /\ DOMAIN t = {1} /\ t[1] = Plain(c[2])
    BY <1>8, <2>1
  <2>3. t[1].cmd.op = c[2] /\ t[1].cmd.op # "set"
    BY <1>3, <1>7, <2>1, <2>2
  <2>4. StepsLeft(t, c)
    BY <1>17, <2>2, <2>3 DEF StepsLeft
  <2> QED
    BY <1>3, <2>1, <2>2, <2>4 DEF t, Good
<1>18. CASE c[1] \in {"irq_flags", "message_send", "ftp_uplink"}
  <2>1. \/ \E m : t = <<IrqFlags(m)>>
        \/ \E w, n, p : t = <<MessageSend(w, n, p)>>
    BY <1>18 DEF StepsOf, t
  <2>2. Len(t) = 1 /\ \A k \in DOMAIN t : Good(t[k]) /\ Other(t[k])
    BY <1>5, <1>6, <1>8, <2>1
  <2> QED
    BY <1>10, <1>18, <2>2 DEF t, Good
<1>19. CASE c[1] \in {"retrieve_message", "packet_send", "packet_recv"}
  <2>1. \E r : t = <<Sized(c[1], c[2], r)>>
    BY <1>19 DEF StepsOf, t
  <2>2. \A k \in DOMAIN t : Good(t[k]) /\ Other(t[k])
    BY <1>4, <1>8, <1>19, <2>1
  <2> QED
    BY <1>10, <1>19, <2>2 DEF t, Good
<1>20. CASE c[1] = "packet_send_timestamp"
  <2>1. t = <<Plain("timestamp"), Sized("packet_send", c[2], 1)>>
    BY <1>20 DEF StepsOf, t
  <2>2. DOMAIN t = {1, 2} /\ t[1] = Plain("timestamp")
        /\ t[2] = Sized("packet_send", c[2], 1)
    BY <2>1
  <2>3. Good(t[1]) /\ Other(t[1])
    BY <1>3, <1>7, <2>2 DEF Other
  <2>4. Good(t[2]) /\ Other(t[2])
    BY <1>4, <2>2
  <2> QED
    BY <1>10, <1>20, <2>2, <2>3, <2>4 DEF t, Good
<1> QED
  BY <1>12, <1>13, <1>14, <1>15, <1>16, <1>17, <1>18, <1>19, <1>20 DEF Made

-----------------------------------------------------------------------------
(* Where a call stands, and the queue of commands *)

StandsInv ==
    /\ api.max \in Nat /\ calls \in Nat /\ calls <= api.max
    /\ Idle => todo = <<>>
    /\ ~ Idle => IsCall(call) /\ call[1] \in Made /\ StepsLeft(todo, call)
    /\ \A k \in DOMAIN todo :
          todo[k].cmd.by \in Nat /\ todo[k].cmd.by + 1 = calls /\ Getting(todo[k])

LEMMA StandsInit == Init => StandsInv
<1> SUFFICES ASSUME Init PROVE StandsInv
  OBVIOUS
<1>1. api \in Scenarios /\ call = NoCall /\ todo = <<>> /\ calls = 0
  BY DEF Init
<1>2. api.max \in Nat
  BY <1>1, CommandsAssumption
<1> QED
  BY <1>1, <1>2, EmptySequence DEF StandsInv, Idle

LEMMA LaterSteps ==
    ASSUME NEW t, Sequence(t), t # <<>>, Tail(t) # <<>>, NEW c, StepsLeft(t, c)
    PROVE  StepsLeft(Tail(t), c)
<1> DEFINE u == Tail(t)
<1>1. /\ Len(t) \in Nat /\ Len(t) > 0 /\ DOMAIN t = 1 .. Len(t)
      /\ Sequence(u) /\ Len(u) = Len(t) - 1
      /\ \A k \in DOMAIN u : k \in Nat /\ k + 1 \in DOMAIN t /\ u[k] = t[k + 1]
  BY TailOf
<1>2. Len(u) \in Nat /\ Len(u) > 0 /\ DOMAIN u = 1 .. Len(u)
  BY <1>1, TailOf
<1> HIDE DEF u
<1>3. Len(t) # 1
  BY <1>1, <1>2
<1>4. c[1] = "config_set" =>
         /\ Len(u) \in 1 .. 4
         /\ \A k \in 1 .. Len(u) :
               SetsTo(u[k], ConfigFields[4 - Len(u) + k], c[2][4 - Len(u) + k])
  <2> SUFFICES ASSUME c[1] = "config_set"
               PROVE  /\ Len(u) \in 1 .. 4
                      /\ \A k \in 1 .. Len(u) :
                            SetsTo(u[k], ConfigFields[4 - Len(u) + k], c[2][4 - Len(u) + k])
    OBVIOUS
  <2>1. Len(t) \in 1 .. 4 /\ Len(u) \in 1 .. 4
    <3>1. Len(t) \in 1 .. 4
      BY DEF StepsLeft
    <3> QED
      BY <1>1, <1>2, <3>1
  <2>2. ASSUME NEW k \in 1 .. Len(u)
        PROVE  SetsTo(u[k], ConfigFields[4 - Len(u) + k], c[2][4 - Len(u) + k])
    <3>1. k + 1 \in 1 .. Len(t) /\ 4 - Len(t) + (k + 1) = 4 - Len(u) + k /\ u[k] = t[k + 1]
      BY <1>1, <1>2, <2>1
    <3>2. SetsTo(t[k + 1], ConfigFields[4 - Len(t) + (k + 1)], c[2][4 - Len(t) + (k + 1)])
      BY <3>1 DEF StepsLeft
    <3> QED
      BY <3>1, <3>2
  <2> QED
    BY <2>1, <2>2
<1>5. c[1] \notin {"set", "plain", "irq_flags"}
  BY <1>3 DEF StepsLeft
<1>6. c[1] # "config_set" => \A k \in DOMAIN u : u[k].cmd.op # "set"
  BY <1>1, <1>5 DEF StepsLeft
<1>7. \A k \in DOMAIN u : u[k].cmd.op \notin Keepers
  BY <1>1, <1>5 DEF StepsLeft
<1> QED
  BY <1>4, <1>5, <1>6, <1>7 DEF StepsLeft, u

LEMMA StandsStep == CallInv /\ StandsInv /\ [Next]_vars => StandsInv'
<1> SUFFICES ASSUME CallInv, StandsInv, [Next]_vars PROVE StandsInv'
  OBVIOUS
<1>1. ASSUME NEW c \in api.calls, Begin(c)
      PROVE  StandsInv'
  <2>1. /\ Idle /\ calls < api.max /\ c[1] \notin {"tty_open", "tty_close"}
        /\ calls' = calls + 1 /\ call' = c /\ todo' = StepsOf(c) /\ api' = api
    BY <1>1 DEF Begin
  <2>2. IsCall(c) /\ c[1] \in Made
    BY <2>1, CallsAreTyped DEF CallInv, Made
  <2>3. /\ StepsLeft(StepsOf(c), c)
        /\ \A k \in DOMAIN StepsOf(c) :
              StepsOf(c)[k].cmd.by = calls /\ Getting(StepsOf(c)[k])
    BY <2>2, StepsAre
  <2>4. ~ Idle'
    BY <2>1, <2>2 DEF Idle, NoCall, Made
  <2>5. api'.max \in Nat /\ calls' \in Nat /\ calls' <= api'.max
    BY <2>1 DEF StandsInv
  <2> QED
    BY <2>1, <2>2, <2>3, <2>4, <2>5 DEF StandsInv
<1>2. ASSUME NEW r, Returns(r), UNCHANGED <<api, calls>>
      PROVE  StandsInv'
  BY <1>2, EmptySequence DEF Returns, StandsInv, Idle
<1>3. CASE Refused
  BY <1>2, <1>3 DEF Refused
<1>4. ASSUME NEW e, Fails(e)
      PROVE  StandsInv'
  BY <1>2, <1>4 DEF Fails, Misses
<1>5. CASE Succeeds
  <2>1. UNCHANGED <<api, calls>> /\ busy /\ ~ Idle
    BY <1>5 DEF Succeeds, Channel!Succeed, CallInv
  <2>2. CASE Rest = <<>>
    BY <1>2, <1>5, <2>1, <2>2 DEF Succeeds
  <2>3. CASE Rest # <<>>
    <3>1. todo' = Tail(todo) /\ call' = call /\ Tail(todo) # <<>>
      BY <1>5, <2>3 DEF Succeeds, Rest
    <3>2. Sequence(todo) /\ todo # <<>>
      BY <2>1 DEF CallInv
    <3>3. \A k \in DOMAIN Tail(todo) :
             k + 1 \in DOMAIN todo /\ Tail(todo)[k] = todo[k + 1]
      BY <3>2, TailOf
    <3>4. StepsLeft(Tail(todo), call)
      BY <2>1, <3>1, <3>2, LaterSteps DEF StandsInv
    <3> QED
      BY <2>1, <3>1, <3>3, <3>4 DEF StandsInv, Idle
  <2> QED
    BY <2>2, <2>3
<1>6. CASE TtyClose \/ (\E rate \in {"default", "other"} : TtyOpen(rate))
  <2>1. Idle /\ calls < api.max /\ UNCHANGED <<api, call, todo>> /\ calls' = calls + 1
    BY <1>6 DEF TtyClose, TtyOpen, TtyReturns
  <2> QED
    BY <2>1, EmptySequence DEF StandsInv, Idle
<1>7. CASE UNCHANGED <<hostVars, calls>>
  BY <1>7 DEF hostVars, StandsInv, Idle
<1>8. CASE Send \/ Executes \/ ModuleReset \/ Arrive
           \/ (\E flag \in Flags \ {"RESET"} : Raise(flag))
  BY <1>7, <1>8 DEF Send, Executes, ModuleReset, Arrive, Raise, Event, appHistory
<1>9. CASE UNCHANGED vars
  BY <1>7, <1>9 DEF vars, appHistory
<1> QED
  BY <1>1, <1>3, <1>4, <1>5, <1>6, <1>8, <1>9 DEF Next

LEMMA NextStepStands ==
    ASSUME CallInv, StandsInv, ~ Idle
    PROVE  /\ todo # <<>> /\ DOMAIN todo = 1 .. Len(todo) /\ Len(todo) \in Nat
           /\ Len(todo) > 0 /\ Head(todo) = todo[1] /\ 1 \in DOMAIN todo
           /\ Head(todo).cmd.by \in Nat /\ Head(todo).cmd.by + 1 = calls
           /\ Getting(Head(todo))
<1>1. todo # <<>> /\ Sequence(todo)
  BY DEF CallInv
<1>2. /\ DOMAIN todo = 1 .. Len(todo) /\ Len(todo) \in Nat
      /\ Len(todo) > 0 /\ Head(todo) = todo[1]
  BY <1>1, TailOf
<1>3. 1 \in DOMAIN todo
  BY <1>2
<1> QED
  BY <1>1, <1>2, <1>3 DEF StandsInv

\* What is true of a command that was sent.
Sound(m) ==
    /\ m.op = "set" =>
          \E f \in Fields \ ReadOnly : \E v :
              /\ Typed(f, v) /\ Accepts(f, v)
              /\ m.field = f /\ m.data = Encode(f, v)
              /\ f = "radio" => m.mask = v.flags
    /\ m.op = "get" => m.field \in Fields

LEMMA SettersSetFields ==
    ASSUME CallInv, StandsInv, ~ Idle, NEW k \in DOMAIN todo, todo[k].cmd.op = "set"
    PROVE  \E f \in Fields \ ReadOnly : \E v :
              /\ Typed(f, v) /\ SetsTo(todo[k], f, v)
              /\ call[1] = "set" => f = call[2] /\ v = call[3]
              /\ call[1] = "config_set" =>
                    LET i == 4 - Len(todo) + k
                    IN  i \in 1 .. 4 /\ f = ConfigFields[i] /\ v = call[2][i]
<1>1. /\ IsCall(call) /\ StepsLeft(todo, call)
      /\ DOMAIN todo = 1 .. Len(todo) /\ Len(todo) \in Nat
  BY NextStepStands DEF StandsInv
<1>2. CASE call[1] = "set"
  <2>1. k = 1 /\ SetsTo(todo[1], call[2], call[3])
    BY <1>1, <1>2 DEF StepsLeft
  <2>2. call[2] \in Fields \ ReadOnly /\ Typed(call[2], call[3])
    BY <1>1, <1>2 DEF IsCall
  <2> QED
    BY <1>2, <2>1, <2>2
<1>3. CASE call[1] = "config_set"
  <2> DEFINE i == 4 - Len(todo) + k
  <2>1. SetsTo(todo[k], ConfigFields[i], call[2][i]) /\ i \in 1 .. 4
    BY <1>1, <1>3 DEF StepsLeft
  <2>2. DOMAIN ConfigFields = 1 .. 4 /\ \A j \in 1 .. 4 : ConfigFields[j] \in Fields \ ReadOnly
    BY DEF ConfigFields, Fields, ToSet, ReadOnly
  <2>3. Typed(ConfigFields[i], call[2][i])
    BY <1>1, <1>3, <2>1, <2>2 DEF IsCall
  <2> QED
    BY <1>3, <2>1, <2>2, <2>3
<1>4. CASE call[1] \notin {"set", "config_set"}
  BY <1>1, <1>4 DEF StepsLeft
<1> QED
  BY <1>2, <1>3, <1>4

LEMMA NextIsSound ==
    ASSUME CallInv, StandsInv, ~ Idle, Accepted(Head(todo))
    PROVE  Sound(Head(todo).cmd)
<1> DEFINE s == todo[1]
<1>1. Head(todo) = s /\ 1 \in DOMAIN todo /\ Getting(s) /\ s.ok
  BY NextStepStands DEF Accepted
<1>2. CASE s.cmd.op = "set"
  <2>1. PICK f, v : f \in Fields \ ReadOnly /\ Typed(f, v) /\ SetsTo(s, f, v)
    BY <1>1, <1>2, SettersSetFields
  <2> QED
    BY <1>1, <1>2, <2>1 DEF SetsTo, Sound
<1>3. CASE s.cmd.op # "set"
  BY <1>1, <1>3 DEF Getting, Sound
<1> QED
  BY <1>1, <1>2, <1>3

\* Commands in the queue are sound and those of earlier calls come first. The
\* one of the call that runs comes last, and its answer leaves the queue empty.
QueueInv ==
    /\ Sequence(queue)
    /\ reply.given => queue = <<>>
    /\ \A k \in DOMAIN queue :
          /\ queue[k].mine => k = Len(queue) /\ ~ reply.given
          /\ queue[k].mine /\ busy => queue[k].cmd = Head(todo).cmd
          /\ queue[k].cmd.by \in Nat /\ queue[k].cmd.by < calls
          /\ Sound(queue[k].cmd)
    /\ \A k, l \in DOMAIN queue : k < l => queue[k].cmd.by <= queue[l].cmd.by

LEMMA QueueInit == Init => QueueInv
<1> SUFFICES ASSUME Init PROVE QueueInv
  OBVIOUS
<1>1. queue = <<>> /\ reply = Channel!NoReply
  BY DEF Init, Channel!Init
<1> QED
  BY <1>1, EmptySequence DEF QueueInv, Channel!NoReply

\* The command of the next step is sent, or lost.
LEMMA Sending ==
    ASSUME Sequence(queue), Send
    PROVE  /\ ~ Idle /\ Accepted(Head(todo)) /\ ~ busy /\ busy' /\ ~ reply'.given
           /\ UNCHANGED <<hostVars, moduleVars, appHistory, moduleHistory, unseen>>
           /\ Sequence(queue') /\ DOMAIN queue' = 1 .. Len(queue')
           /\ DOMAIN queue = 1 .. Len(queue) /\ Len(queue) \in Nat
           /\ \A k \in DOMAIN queue' :
                 \/ /\ k \in DOMAIN queue
                    /\ queue'[k].cmd = queue[k].cmd /\ ~ queue'[k].mine
                 \/ /\ k = Len(queue) + 1 /\ k = Len(queue')
                    /\ queue'[k].cmd = Head(todo).cmd /\ queue'[k].mine
<1> DEFINE c == Head(todo).cmd
           old == Channel!Older(queue)
           e == Channel!Entry(c, TRUE)
<1>1. /\ queue' \in {old, Append(old, e)}
      /\ reply' = Channel!NoReply
      /\ ~ busy /\ busy' = TRUE /\ ~ Idle /\ Accepted(Head(todo))
      /\ UNCHANGED <<hostVars, moduleVars, appHistory, moduleHistory, unseen>>
  BY DEF Send, Channel!Call
<1>2. ~ reply'.given
  BY <1>1 DEF Channel!NoReply
<1>3. e.cmd = c /\ e.mine = TRUE
  BY DEF Channel!Entry
<1>4. \A k \in DOMAIN queue :
         /\ Channel!Entry(queue[k].cmd, FALSE).cmd = queue[k].cmd
         /\ Channel!Entry(queue[k].cmd, FALSE).mine = FALSE
  BY DEF Channel!Entry
<1>5. /\ Sequence(old) /\ DOMAIN old = DOMAIN queue /\ Len(old) = Len(queue)
      /\ \A k \in DOMAIN queue : old[k].cmd = queue[k].cmd /\ old[k].mine = FALSE
  BY <1>4, OlderOf
<1> HIDE DEF c, old, e
<1>6. /\ Sequence(Append(old, e)) /\ Len(old) \in Nat
      /\ Len(Append(old, e)) = Len(old) + 1
      /\ DOMAIN old = 1 .. Len(old) /\ DOMAIN Append(old, e) = 1 .. Len(old) + 1
      /\ \A k \in DOMAIN old : Append(old, e)[k] = old[k]
      /\ Append(old, e)[Len(old) + 1] = e
  BY <1>5, AppendTo
<1>7. /\ Sequence(queue') /\ DOMAIN queue' = 1 .. Len(queue')
      /\ \A k \in DOMAIN queue' :
            \/ /\ k \in DOMAIN queue
               /\ queue'[k].cmd = queue[k].cmd /\ ~ queue'[k].mine
            \/ /\ k = Len(queue) + 1 /\ k = Len(queue')
               /\ queue'[k].cmd = c /\ queue'[k].mine
  <2>1. CASE queue' = old
    BY <1>5, <1>6, <2>1
  <2>2. CASE queue' = Append(old, e)
    <3>1. ASSUME NEW k \in DOMAIN queue'
          PROVE  \/ /\ k \in DOMAIN queue
                    /\ queue'[k].cmd = queue[k].cmd /\ ~ queue'[k].mine
                 \/ /\ k = Len(queue) + 1 /\ k = Len(queue')
                    /\ queue'[k].cmd = c /\ queue'[k].mine
      <4>1. CASE k \in DOMAIN old
        BY <1>5, <1>6, <2>2, <4>1
      <4>2. CASE k \notin DOMAIN old
        <5>1. k = Len(old) + 1
          BY <1>6, <2>2, <4>2
        <5> QED
          BY <1>3, <1>5, <1>6, <2>2, <5>1
      <4> QED
        BY <4>1, <4>2
    <3>2. Sequence(queue') /\ DOMAIN queue' = 1 .. Len(queue')
      BY <1>6, <2>2
    <3> QED
      BY <3>1, <3>2
  <2> QED
    BY <1>1, <2>1, <2>2
<1>8. DOMAIN queue = 1 .. Len(queue) /\ Len(queue) \in Nat
  BY <1>5, <1>6
<1> QED
  BY <1>1, <1>2, <1>7, <1>8 DEF c

\* The module takes its oldest command, and may answer it if somebody waits.
LEMMA Taking ==
    ASSUME Sequence(queue), Executes
    PROVE  /\ queue # <<>> /\ Sequence(queue')
           /\ DOMAIN queue = 1 .. Len(queue) /\ Len(queue) \in Nat
           /\ 1 \in DOMAIN queue /\ Head(queue) = queue[1]
           /\ Len(queue') = Len(queue) - 1 /\ queue' = Tail(queue)
           /\ \A k \in DOMAIN queue' :
                 k \in Nat /\ k + 1 \in DOMAIN queue /\ queue'[k] = queue[k + 1]
           /\ reply' = reply \/ (Head(queue).mine /\ reply'.given)
           /\ UNCHANGED <<hostVars, ttyVars, appHistory, events, arrived, busy>>
<1>1. /\ queue # <<>> /\ queue' = Tail(queue)
      /\ UNCHANGED <<hostVars, ttyVars, appHistory, events, arrived, busy>>
  BY DEF Executes, Nack, Drops, Store, Load, Keep, ReadFlags,
     HandOver, QueueUplink, Obey, ResetMcu, Answer, Channel!Execute, Channel!Drop
<1>2. reply' = reply \/ (Head(queue).mine /\ \E a : reply' = Channel!Acked(a))
                     \/ (Head(queue).mine /\ \E n : reply' = Channel!Nacked(n))
  BY DEF Executes, Nack, Drops, Store, Load, Keep, ReadFlags,
     HandOver, QueueUplink, Obey, ResetMcu, Answer, Channel!Execute, Channel!Drop
<1>3. reply' = reply \/ (Head(queue).mine /\ reply'.given)
  BY <1>2 DEF Channel!Acked, Channel!Nacked
<1>4. /\ Sequence(Tail(queue)) /\ Len(queue) > 0 /\ Len(Tail(queue)) = Len(queue) - 1
      /\ DOMAIN queue = 1 .. Len(queue) /\ Len(queue) \in Nat
      /\ Head(queue) = queue[1]
      /\ \A k \in DOMAIN Tail(queue) :
            k \in Nat /\ k + 1 \in DOMAIN queue /\ Tail(queue)[k] = queue[k + 1]
  BY <1>1, TailOf
<1>5. 1 \in DOMAIN queue
  BY <1>4
<1> QED
  BY <1>1, <1>3, <1>4, <1>5

\* Any other step leaves the queue and the answer as they are.
LEMMA NeitherSendsNorTakes ==
    ASSUME CallInv, [Next]_vars
    PROVE  \/ Send \/ Executes
           \/ /\ UNCHANGED <<queue, reply>>
              /\ busy' => busy /\ UNCHANGED <<todo, call, calls>>
              /\ calls' = calls \/ calls' = calls + 1
<1> DEFINE Quiet == /\ UNCHANGED <<queue, reply>>
                    /\ busy' => busy /\ UNCHANGED <<todo, call, calls>>
                    /\ calls' = calls \/ calls' = calls + 1
<1>1. ASSUME NEW c \in api.calls, Begin(c) PROVE Quiet
  BY <1>1 DEF Begin, channelVars, CallInv
<1>2. CASE Refused
  BY <1>2 DEF Refused, channelVars
<1>3. ASSUME NEW e, Fails(e) PROVE Quiet
  BY <1>3 DEF Fails, Misses, Channel!Fail
<1>4. CASE Succeeds
  BY <1>4 DEF Succeeds, Channel!Succeed
<1>5. CASE TtyClose \/ (\E rate \in {"default", "other"} : TtyOpen(rate))
  <2>1. Idle /\ \E r : TtyReturns(r)
    BY <1>5 DEF TtyClose, TtyOpen
  <2> QED
    BY <2>1 DEF TtyReturns, channelVars, CallInv
<1>6. CASE ModuleReset \/ Arrive \/ (\E flag \in Flags \ {"RESET"} : Raise(flag))
  BY <1>6 DEF ModuleReset, Arrive, Raise, Event, hostVars, channelVars, appHistory
<1>7. CASE UNCHANGED vars
  BY <1>7 DEF vars, hostVars, channelVars, appHistory
<1> QED
  BY <1>1, <1>2, <1>3, <1>4, <1>5, <1>6, <1>7 DEF Next

LEMMA QueueStep == CallInv /\ StandsInv /\ QueueInv /\ [Next]_vars => QueueInv'
<1> SUFFICES ASSUME CallInv, StandsInv, QueueInv, [Next]_vars PROVE QueueInv'
  OBVIOUS
<1>1. CASE Send
  <2> DEFINE m == Head(todo).cmd
  <2>1. /\ ~ Idle /\ Accepted(Head(todo)) /\ ~ busy /\ ~ reply'.given
        /\ UNCHANGED hostVars /\ calls' = calls
        /\ Sequence(queue') /\ DOMAIN queue' = 1 .. Len(queue')
        /\ DOMAIN queue = 1 .. Len(queue) /\ Len(queue) \in Nat
        /\ \A k \in DOMAIN queue' :
              \/ /\ k \in DOMAIN queue
                 /\ queue'[k].cmd = queue[k].cmd /\ ~ queue'[k].mine
              \/ /\ k = Len(queue) + 1 /\ k = Len(queue')
                 /\ queue'[k].cmd = m /\ queue'[k].mine
    BY <1>1, Sending DEF QueueInv, appHistory
  <2>2. m.by \in Nat /\ m.by < calls /\ Sound(m)
        /\ \A k \in DOMAIN queue : queue[k].cmd.by <= m.by
    BY <2>1, NextStepStands, NextIsSound DEF QueueInv
  <2>3. ASSUME NEW k \in DOMAIN queue'
        PROVE  /\ queue'[k].mine => k = Len(queue') /\ ~ reply'.given
               /\ queue'[k].mine /\ busy' => queue'[k].cmd = Head(todo').cmd
               /\ queue'[k].cmd.by \in Nat /\ queue'[k].cmd.by < calls'
               /\ Sound(queue'[k].cmd)
    <3>1. CASE k \in DOMAIN queue /\ queue'[k].cmd = queue[k].cmd /\ ~ queue'[k].mine
      BY <2>1, <3>1 DEF QueueInv
    <3>2. CASE /\ k = Len(queue) + 1 /\ k = Len(queue')
               /\ queue'[k].cmd = m /\ queue'[k].mine
      BY <2>1, <2>2, <3>2 DEF hostVars
    <3> QED
      BY <2>1, <3>1, <3>2
  <2>4. ASSUME NEW k \in DOMAIN queue', NEW l \in DOMAIN queue', k < l
        PROVE  queue'[k].cmd.by <= queue'[l].cmd.by
    <3>1. k \in DOMAIN queue /\ queue'[k].cmd = queue[k].cmd
      BY <2>1, <2>4
    <3>2. CASE l \in DOMAIN queue /\ queue'[l].cmd = queue[l].cmd
      BY <2>4, <3>1, <3>2 DEF QueueInv
    <3>3. CASE queue'[l].cmd = m
      BY <2>2, <3>1, <3>3
    <3> QED
      BY <2>1, <3>2, <3>3
  <2> QED
    BY <2>1, <2>3, <2>4 DEF QueueInv
<1>2. CASE Executes
  <2>1. /\ Sequence(queue') /\ DOMAIN queue = 1 .. Len(queue) /\ Len(queue) \in Nat
        /\ 1 \in DOMAIN queue /\ Head(queue) = queue[1]
        /\ Len(queue') = Len(queue) - 1 /\ queue' = Tail(queue)
        /\ \A k \in DOMAIN queue' :
              k \in Nat /\ k + 1 \in DOMAIN queue /\ queue'[k] = queue[k + 1]
        /\ reply' = reply \/ (Head(queue).mine /\ reply'.given)
        /\ UNCHANGED <<todo, calls, busy>>
    BY <1>2, Taking DEF QueueInv, hostVars, appHistory
  <2>2. reply'.given => queue' = <<>>
    <3> SUFFICES ASSUME reply'.given PROVE queue' = <<>>
      OBVIOUS
    <3>1. queue # <<>>
      BY <2>1, EmptySequence
    <3>2. Head(queue).mine
      BY <2>1, <3>1 DEF QueueInv
    <3>3. Len(queue') = 0
      BY <2>1, <3>2 DEF QueueInv
    <3>4. PICK S : queue' \in Seq(S)
      BY <2>1 DEF Sequence
    <3> QED
      BY <3>3, <3>4
  <2>3. ASSUME NEW k \in DOMAIN queue'
        PROVE  /\ queue'[k].mine => k = Len(queue') /\ ~ reply'.given
               /\ queue'[k].mine /\ busy' => queue'[k].cmd = Head(todo').cmd
               /\ queue'[k].cmd.by \in Nat /\ queue'[k].cmd.by < calls'
               /\ Sound(queue'[k].cmd)
    <3>1. k \in Nat /\ k + 1 \in DOMAIN queue /\ queue'[k] = queue[k + 1]
      BY <2>1
    <3>2. queue'[k].mine => k = Len(queue') /\ ~ reply.given
      BY <2>1, <3>1 DEF QueueInv
    <3>3. ~ Head(queue).mine
      <4>1. 1 # Len(queue)
        BY <2>1, <3>1
      <4> QED
        BY <2>1, <4>1 DEF QueueInv
    <3>4. /\ queue'[k].mine /\ busy' => queue'[k].cmd = Head(todo').cmd
          /\ queue'[k].cmd.by \in Nat /\ queue'[k].cmd.by < calls'
          /\ Sound(queue'[k].cmd)
      BY <2>1, <3>1 DEF QueueInv
    <3> QED
      BY <2>1, <3>2, <3>3, <3>4
  <2>4. ASSUME NEW k \in DOMAIN queue', NEW l \in DOMAIN queue', k < l
        PROVE  queue'[k].cmd.by <= queue'[l].cmd.by
    <3>1. /\ k \in Nat /\ k + 1 \in DOMAIN queue /\ queue'[k] = queue[k + 1]
          /\ l \in Nat /\ l + 1 \in DOMAIN queue /\ queue'[l] = queue[l + 1]
          /\ k + 1 < l + 1
      BY <2>1, <2>4
    <3> QED
      BY <3>1 DEF QueueInv
  <2> QED
    BY <2>1, <2>2, <2>3, <2>4 DEF QueueInv
<1>3. CASE /\ UNCHANGED <<queue, reply>>
           /\ busy' => busy /\ UNCHANGED <<todo, call, calls>>
           /\ calls' = calls \/ calls' = calls + 1
  <2>1. calls' \in Nat /\ calls <= calls'
    BY <1>3 DEF StandsInv
  <2>2. ASSUME NEW k \in DOMAIN queue'
        PROVE  /\ queue'[k].mine => k = Len(queue') /\ ~ reply'.given
               /\ queue'[k].mine /\ busy' => queue'[k].cmd = Head(todo').cmd
               /\ queue'[k].cmd.by \in Nat /\ queue'[k].cmd.by < calls'
               /\ Sound(queue'[k].cmd)
    <3>1. queue' = queue /\ reply' = reply /\ k \in DOMAIN queue
      BY <1>3
    <3>2. calls \in Nat
      BY DEF StandsInv
    <3> QED
      BY <1>3, <2>1, <3>1, <3>2 DEF QueueInv
  <2> QED
    BY <1>3, <2>2 DEF QueueInv
<1> QED
  BY <1>1, <1>2, <1>3, NeitherSendsNorTakes

-----------------------------------------------------------------------------
(* The order of the settings *)

\* The caller's answer has come, and it is a positive one.
Answered == busy /\ reply.given /\ reply.nack = 0

\* Commands in the queue are no older than what is in force. One that sets a
\* field of ll_config_set waits until the fields before it are as new; those the
\* running call is done with are.
OrderInv ==
    /\ origin \in [Fields -> Nat]
    /\ \A f \in Fields : origin[f] = 0 \/ origin[f] < calls
    /\ \A k \in DOMAIN queue : \A f \in Fields : origin[f] <= queue[k].cmd.by
    /\ \A k \in DOMAIN queue : \A i, j \in 1 .. 4 :
          /\ i < j
          /\ queue[k].cmd.op = "set" /\ queue[k].cmd.field = ConfigFields[j]
          => origin[ConfigFields[i]] >= queue[k].cmd.by
    /\ ~ Idle /\ call[1] = "config_set" =>
          \A i \in 1 .. 4 - Len(todo) : origin[ConfigFields[i]] + 1 >= calls
    /\ Answered /\ Head(todo).cmd.op = "set" =>
          origin[Head(todo).cmd.field] + 1 >= calls
    /\ \A i, j \in 1 .. 4 : i < j => origin[ConfigFields[i]] >= origin[ConfigFields[j]]

LEMMA ConfigFieldsAre ==
    /\ DOMAIN ConfigFields = 1 .. 4
    /\ \A i \in 1 .. 4 : ConfigFields[i] \in Fields \ {"radio"}
    /\ \A i, j \in 1 .. 4 : ConfigFields[i] = ConfigFields[j] => i = j
    /\ \A i \in 2 .. 4 : ConfigFields[i] \in ConfigOnly
  BY DEF ConfigFields, ConfigOnly, Fields, ToSet

LEMMA FlashFieldsAre ==
    /\ FlashFields \subseteq Fields \ ReadOnly
    /\ Restored \subseteq FlashFields
    /\ \A i \in 1 .. 4 : ConfigFields[i] \notin FlashFields
<1>1. \A i \in 1 .. 4 : ConfigFields[i] \in ToSet(ConfigFields)
  BY DEF ConfigFields, ToSet
<1> QED
  BY <1>1, CommandsAssumption DEF Restored

LEMMA OrderInit == Init => OrderInv
<1> SUFFICES ASSUME Init PROVE OrderInv
  OBVIOUS
<1>1. /\ queue = <<>> /\ call = NoCall /\ origin = [f \in Fields |-> 0]
      /\ busy = FALSE
  BY DEF Init, Channel!Init
<1>2. \A i \in 1 .. 4 : origin[ConfigFields[i]] = 0
  BY <1>1, ConfigFieldsAre
<1>3. origin \in [Fields -> Nat] /\ \A f \in Fields : origin[f] = 0
  BY <1>1
<1> QED
  BY <1>1, <1>2, <1>3, EmptySequence DEF OrderInv, Idle, Answered

\* A command sets what is newer: fields W, with the number of its call.
LEMMA OriginsTaken ==
    ASSUME QueueInv, origin \in [Fields -> Nat], Executes
    PROVE  LET c == Head(queue).cmd IN
           \E W \in SUBSET Fields :
              /\ origin' = [f \in Fields |-> IF f \in W THEN c.by ELSE origin[f]]
              /\ c.op = "set" => W \subseteq {c.field}
              /\ c.op # "set" => W \subseteq FlashFields
              /\ c.op = "set" /\ reply' # reply /\ reply'.nack = 0 => c.field \in W
<1> DEFINE c == Head(queue).cmd
           To(W) == [f \in Fields |-> IF f \in W THEN c.by ELSE origin[f]]
           P(W) == /\ origin' = To(W)
                   /\ c.op = "set" => W \subseteq {c.field}
                   /\ c.op # "set" => W \subseteq FlashFields
                   /\ c.op = "set" /\ reply' # reply /\ reply'.nack = 0 => c.field \in W
<1>0. SUFFICES \E W \in SUBSET Fields : P(W)
  OBVIOUS
<1>1. queue # <<>> /\ Head(queue) = queue[1] /\ 1 \in DOMAIN queue
  BY Taking DEF QueueInv
<1>2. c.op = "set" => c.field \in Fields
  BY <1>1 DEF QueueInv, Sound
<1>3. \/ /\ origin' = origin
         /\ c.op # "set" \/ reply' = reply \/ reply' = Channel!Nacked(1)
      \/ Store(c)
      \/ Keep(c)
  BY DEF Executes, Nack, Drops, Load, ReadFlags, HandOver, QueueUplink, Obey,
     ResetMcu, Reboots, Channel!Execute, Channel!Drop
<1> HIDE DEF c
<1>4. CASE /\ origin' = origin
           /\ c.op # "set" \/ reply' = reply \/ reply' = Channel!Nacked(1)
  <2>1. origin' = To({})
    BY <1>4
  <2>2. c.op = "set" /\ reply' # reply => reply'.nack # 0
    BY <1>4 DEF Channel!Nacked
  <2>3. P({})
    BY <2>1, <2>2
  <2> HIDE DEF P
  <2> QED
    BY <2>3
<1>5. CASE Store(c)
  <2>1. c.op = "set" /\ origin' = [origin EXCEPT ![c.field] = c.by]
    BY <1>5 DEF Store
  <2>2. origin' = To({c.field})
    BY <1>2, <2>1
  <2>3. P({c.field}) /\ {c.field} \in SUBSET Fields
    BY <1>2, <2>1, <2>2
  <2> HIDE DEF P
  <2> QED
    BY <2>3
<1>6. CASE Keep(c)
  <2>1. /\ c.op # "set"
        /\ origin' = IF c.op = "restore_defaults"
                     THEN With(origin, Restored, [f \in Fields |-> c.by]) ELSE origin
    BY <1>6 DEF Keep
  <2>2. origin' = To({}) \/ origin' = To(Restored)
    BY <2>1 DEF With
  <2>3. Restored \subseteq Fields /\ Restored \subseteq FlashFields
    BY FlashFieldsAre
  <2>4. (P({}) \/ P(Restored)) /\ Restored \in SUBSET Fields /\ Restored \subseteq FlashFields
    BY <2>1, <2>2, <2>3
  <2> HIDE DEF P
  <2> QED
    BY <2>4
<1> QED
  BY <1>3, <1>4, <1>5, <1>6

LEMMA OrderExecutes ==
    ASSUME CallInv, StandsInv, QueueInv, OrderInv, Executes
    PROVE  OrderInv'
<1> DEFINE c == Head(queue).cmd
<1>1. /\ DOMAIN queue = 1 .. Len(queue) /\ Len(queue) \in Nat
      /\ 1 \in DOMAIN queue /\ Head(queue) = queue[1]
      /\ \A k \in DOMAIN queue' :
            k \in Nat /\ k + 1 \in DOMAIN queue /\ queue'[k] = queue[k + 1]
      /\ reply' = reply \/ (Head(queue).mine /\ reply'.given)
      /\ UNCHANGED <<hostVars, appHistory, busy>>
  BY Taking DEF QueueInv
<1>2. UNCHANGED <<call, todo, calls>>
  BY <1>1 DEF hostVars, appHistory
<1>3. PICK W \in SUBSET Fields :
         /\ origin' = [f \in Fields |-> IF f \in W THEN c.by ELSE origin[f]]
         /\ c.op = "set" => W \subseteq {c.field}
         /\ c.op # "set" => W \subseteq FlashFields
         /\ c.op = "set" /\ reply' # reply /\ reply'.nack = 0 => c.field \in W
  BY OriginsTaken DEF OrderInv
<1>4. /\ c.by \in Nat /\ c.by < calls /\ calls \in Nat
      /\ \A f \in Fields : origin[f] \in Nat /\ origin[f] <= c.by
      /\ \A k \in DOMAIN queue : c.by <= queue[k].cmd.by /\ queue[k].cmd.by \in Nat
  <2>1. /\ c.by \in Nat /\ c.by < calls /\ calls \in Nat
        /\ \A f \in Fields : origin[f] \in Nat /\ origin[f] <= c.by
    BY <1>1 DEF QueueInv, OrderInv, StandsInv
  <2>2. ASSUME NEW k \in DOMAIN queue
        PROVE  c.by <= queue[k].cmd.by /\ queue[k].cmd.by \in Nat
    <3>1. k = 1 \/ 1 < k
      BY <1>1
    <3> QED
      BY <1>1, <2>1, <3>1 DEF QueueInv
  <2> QED
    BY <2>1, <2>2
<1>5. /\ origin' \in [Fields -> Nat]
      /\ \A f \in Fields : /\ origin'[f] = IF f \in W THEN c.by ELSE origin[f]
                           /\ origin[f] <= origin'[f] /\ origin'[f] \in Nat
  BY <1>3, <1>4
<1>6. \A f \in Fields : origin'[f] = 0 \/ origin'[f] < calls'
  BY <1>2, <1>4, <1>5 DEF OrderInv
<1>7. \A k \in DOMAIN queue' : \A f \in Fields : origin'[f] <= queue'[k].cmd.by
  <2>1. ASSUME NEW k \in DOMAIN queue, NEW f \in Fields
        PROVE  origin'[f] <= queue[k].cmd.by
    BY <1>4, <1>5 DEF OrderInv
  <2> QED
    BY <1>1, <2>1
<1>8. ASSUME NEW k \in DOMAIN queue', NEW i \in 1 .. 4, NEW j \in 1 .. 4, i < j,
             queue'[k].cmd.op = "set", queue'[k].cmd.field = ConfigFields[j]
      PROVE  origin'[ConfigFields[i]] >= queue'[k].cmd.by
  <2>1. k + 1 \in DOMAIN queue /\ queue'[k] = queue[k + 1]
    BY <1>1
  <2>2. origin[ConfigFields[i]] >= queue[k + 1].cmd.by /\ queue[k + 1].cmd.by \in Nat
    BY <1>4, <1>8, <2>1 DEF OrderInv
  <2>3. ConfigFields[i] \in Fields
    BY ConfigFieldsAre
  <2> QED
    BY <1>4, <1>5, <2>1, <2>2, <2>3
<1>9. ASSUME ~ Idle', call'[1] = "config_set", NEW i \in 1 .. 4 - Len(todo')
      PROVE  origin'[ConfigFields[i]] + 1 >= calls'
  <2>1. i \in 1 .. 4
    <3>1. Len(todo) \in Nat
      BY <1>2, <1>9, NextStepStands DEF Idle
    <3> QED
      BY <1>2, <3>1
  <2>2. origin[ConfigFields[i]] + 1 >= calls /\ ConfigFields[i] \in Fields
    BY <1>2, <1>9, <2>1, ConfigFieldsAre DEF OrderInv, Idle
  <2> QED
    BY <1>2, <1>4, <1>5, <2>2
<1>10. ASSUME Answered', Head(todo').cmd.op = "set"
       PROVE  origin'[Head(todo').cmd.field] + 1 >= calls'
  <2> DEFINE m == Head(todo).cmd
  <2>1. ~ Idle /\ busy /\ todo' = todo /\ reply'.given /\ reply'.nack = 0
    BY <1>1, <1>2, <1>10 DEF Answered, CallInv
  <2>2. m.by + 1 = calls /\ m.by \in Nat /\ m.field \in Fields
    <3>1. 1 \in DOMAIN todo /\ Head(todo) = todo[1] /\ m.by + 1 = calls /\ m.by \in Nat
      BY <2>1, NextStepStands
    <3>2. todo[1].cmd.field \in Fields
      BY <1>2, <1>10, <2>1, <3>1, SettersSetFields DEF SetsTo
    <3> QED
      BY <3>1, <3>2
  <2>3. CASE reply' = reply
    <3>1. origin[m.field] + 1 >= calls
      BY <1>10, <2>1, <2>3 DEF Answered, OrderInv
    <3> QED
      BY <1>2, <1>4, <1>5, <2>1, <2>2, <3>1
  <2>4. CASE reply' # reply /\ Head(queue).mine
    <3>1. c = m
      BY <1>1, <2>1, <2>4 DEF QueueInv
    <3>2. m.field \in W
      BY <1>3, <1>10, <2>1, <2>4, <3>1
    <3> QED
      BY <1>2, <1>5, <2>1, <2>2, <3>1, <3>2
  <2> QED
    BY <1>1, <2>3, <2>4
<1>11. ASSUME NEW i \in 1 .. 4, NEW j \in 1 .. 4, i < j
       PROVE  origin'[ConfigFields[i]] >= origin'[ConfigFields[j]]
  <2>1. /\ ConfigFields[i] \in Fields /\ ConfigFields[j] \in Fields
        /\ origin[ConfigFields[i]] >= origin[ConfigFields[j]]
    BY <1>11, ConfigFieldsAre DEF OrderInv
  <2>2. CASE c.op = "set" /\ ConfigFields[j] \in W
    <3>1. c.field = ConfigFields[j]
      BY <1>3, <2>2
    <3>2. origin[ConfigFields[i]] >= c.by
      BY <1>1, <1>11, <2>2, <3>1 DEF OrderInv
    <3> QED
      BY <1>4, <1>5, <2>1, <2>2, <3>2
  <2>3. CASE ConfigFields[j] \notin W
    BY <1>4, <1>5, <2>1, <2>3
  <2>4. CASE c.op # "set"
    <3>1. ConfigFields[j] \notin W
      BY <1>3, <2>4, FlashFieldsAre
    <3> QED
      BY <2>3, <3>1
  <2> QED
    BY <2>2, <2>3, <2>4
<1> QED
  BY <1>5, <1>6, <1>7, <1>8, <1>9, <1>10, <1>11 DEF OrderInv

LEMMA OrderSend ==
    ASSUME CallInv, StandsInv, QueueInv, OrderInv, Send
    PROVE  OrderInv'
<1> DEFINE m == Head(todo).cmd
<1>1. /\ ~ Idle /\ ~ reply'.given
      /\ UNCHANGED <<hostVars, appHistory, moduleHistory>>
      /\ \A k \in DOMAIN queue' :
            \/ k \in DOMAIN queue /\ queue'[k].cmd = queue[k].cmd
            \/ queue'[k].cmd = m
  BY Sending DEF QueueInv
<1>2. UNCHANGED <<call, todo, calls, origin>>
  BY <1>1 DEF hostVars, appHistory, moduleHistory
<1>3. /\ 1 \in DOMAIN todo /\ Head(todo) = todo[1] /\ m.by \in Nat /\ m.by + 1 = calls
      /\ Len(todo) \in Nat
  BY <1>1, NextStepStands
<1>4. \A f \in Fields : origin[f] <= m.by
  BY <1>3 DEF OrderInv
<1>5. ASSUME NEW i \in 1 .. 4, NEW j \in 1 .. 4, i < j,
             m.op = "set", m.field = ConfigFields[j]
      PROVE  origin[ConfigFields[i]] >= m.by
  <2>1. PICK f, v :
            /\ f \in Fields \ ReadOnly
            /\ SetsTo(todo[1], f, v)
            /\ call[1] = "set" => f = call[2] /\ v = call[3]
            /\ call[1] = "config_set" =>
                  LET n == 4 - Len(todo) + 1
                  IN  n \in 1 .. 4 /\ f = ConfigFields[n] /\ v = call[2][n]
    BY <1>1, <1>3, <1>5, SettersSetFields
  <2>2. f = ConfigFields[j]
    BY <1>3, <1>5, <2>1 DEF SetsTo
  <2>3. call[1] \in {"set", "config_set"}
    BY <1>1, <1>3, <1>5 DEF StandsInv, StepsLeft
  <2>4. call[1] # "set"
    <3>1. j \in 2 .. 4
      BY <1>5
    <3>2. f \in ConfigOnly
      BY <2>2, <3>1, ConfigFieldsAre
    <3> QED
      BY <1>1, <2>1, <3>2 DEF StandsInv, IsCall
  <2>5. 4 - Len(todo) + 1 = j
    BY <2>1, <2>2, <2>3, <2>4, ConfigFieldsAre
  <2>6. i \in 1 .. 4 - Len(todo)
    BY <1>3, <1>5, <2>5
  <2>7. origin[ConfigFields[i]] + 1 >= calls /\ origin[ConfigFields[i]] \in Nat
    BY <1>1, <2>3, <2>4, <2>6, ConfigFieldsAre DEF OrderInv
  <2> QED
    BY <1>3, <2>7
<1>6. \A k \in DOMAIN queue' : \A f \in Fields : origin'[f] <= queue'[k].cmd.by
  BY <1>1, <1>2, <1>4 DEF OrderInv
<1>7. ASSUME NEW k \in DOMAIN queue', NEW i \in 1 .. 4, NEW j \in 1 .. 4, i < j,
             queue'[k].cmd.op = "set", queue'[k].cmd.field = ConfigFields[j]
      PROVE  origin'[ConfigFields[i]] >= queue'[k].cmd.by
  BY <1>1, <1>2, <1>5, <1>7 DEF OrderInv
<1>8. ~ Answered'
  BY <1>1 DEF Answered
<1> QED
  BY <1>2, <1>6, <1>7, <1>8 DEF OrderInv, Idle

LEMMA OrderStep ==
    CallInv /\ StandsInv /\ QueueInv /\ OrderInv /\ [Next]_vars => OrderInv'
<1> SUFFICES ASSUME CallInv, StandsInv, QueueInv, OrderInv, [Next]_vars PROVE OrderInv'
  OBVIOUS
<1>1. ASSUME UNCHANGED <<queue, origin>>, calls' \in {calls, calls + 1},
             ~ Answered' \/ UNCHANGED <<busy, reply, todo, calls>>,
             ~ Idle' /\ call'[1] = "config_set" =>
                 \A i \in 1 .. 4 - Len(todo') : origin[ConfigFields[i]] + 1 >= calls'
      PROVE  OrderInv'
  <2>1. calls \in Nat
    BY DEF StandsInv
  <2>2. \A f \in Fields : origin'[f] = 0 \/ origin'[f] < calls'
    BY <1>1, <2>1 DEF OrderInv
  <2>3. Answered' /\ Head(todo').cmd.op = "set" =>
            origin'[Head(todo').cmd.field] + 1 >= calls'
    BY <1>1 DEF OrderInv, Answered
  <2> QED
    BY <1>1, <2>2, <2>3 DEF OrderInv
<1>2. ASSUME NEW c \in api.calls, Begin(c)
      PROVE  OrderInv'
  <2>1. /\ UNCHANGED <<queue, origin, busy>> /\ calls' = calls + 1 /\ call' = c /\ Idle
        /\ todo' = StepsOf(c) /\ c[1] \notin {"tty_open", "tty_close"}
    BY <1>2 DEF Begin, channelVars, moduleHistory
  <2>2. ~ busy
    BY <2>1 DEF CallInv
  <2>3. c[1] = "config_set" => Len(todo') = 4
    <3> SUFFICES ASSUME c[1] = "config_set" PROVE Len(todo') = 4
      OBVIOUS
    <3>1. todo' = [k \in 1 .. 4 |-> Set(ConfigFields[k], c[2][k])]
      BY <2>1, ConfigFieldsAre DEF StepsOf
    <3> QED
      BY <3>1
  <2>4. ASSUME c[1] = "config_set", NEW i \in 1 .. 4 - Len(todo')
        PROVE  FALSE
    <3>1. Len(todo') = 4
      BY <2>3, <2>4
    <3> QED
      BY <2>4, <3>1
  <2> QED
    BY <1>1, <2>1, <2>2, <2>4 DEF Answered
<1>3. ASSUME NEW r, Returns(r), UNCHANGED <<queue, origin, calls>>, ~ busy'
      PROVE  OrderInv'
  BY <1>1, <1>3 DEF Returns, Idle, Answered
<1>4. CASE Refused
  BY <1>3, <1>4 DEF Refused, channelVars, moduleHistory
<1>5. ASSUME NEW e, Fails(e)
      PROVE  OrderInv'
  BY <1>3, <1>5 DEF Fails, Misses, Channel!Fail, moduleHistory
<1>6. CASE Succeeds
  <2>1. /\ UNCHANGED <<queue, origin, calls>> /\ ~ busy' /\ Answered /\ ~ Idle
    BY <1>6 DEF Succeeds, Channel!Succeed, moduleHistory, Answered, CallInv
  <2>2. CASE Rest = <<>>
    BY <1>3, <1>6, <2>1, <2>2 DEF Succeeds
  <2>3. CASE Rest # <<>>
    <3>1. todo' = Tail(todo) /\ call' = call /\ Tail(todo) # <<>>
      BY <1>6, <2>3 DEF Succeeds, Rest
    <3>2. Sequence(todo) /\ todo # <<>>
      BY <2>1 DEF CallInv
    <3>3. /\ Len(todo) \in Nat /\ Len(todo) > 0 /\ Head(todo) = todo[1]
          /\ DOMAIN todo = 1 .. Len(todo) /\ Len(Tail(todo)) = Len(todo) - 1
      BY <3>2, TailOf
    <3>4. ASSUME call[1] = "config_set", NEW i \in 1 .. 4 - Len(Tail(todo))
          PROVE  origin[ConfigFields[i]] + 1 >= calls
      <4>1. CASE i \in 1 .. 4 - Len(todo)
        BY <2>1, <3>4, <4>1 DEF OrderInv
      <4>2. CASE i = 4 - Len(todo) + 1
        <5>1. Len(todo) \in 1 .. 4 /\ SetsTo(todo[1], ConfigFields[i], call[2][i])
          BY <2>1, <3>3, <3>4, <4>2 DEF StandsInv, StepsLeft
        <5>2. Head(todo).cmd.op = "set" /\ Head(todo).cmd.field = ConfigFields[i]
          BY <3>3, <5>1 DEF SetsTo
        <5> QED
          BY <2>1, <5>2 DEF OrderInv
      <4> QED
        BY <3>3, <4>1, <4>2
    <3> QED
      BY <1>1, <2>1, <3>1, <3>4 DEF Answered
  <2> QED
    BY <2>2, <2>3
<1>7. CASE TtyClose \/ (\E rate \in {"default", "other"} : TtyOpen(rate))
  <2>1. Idle /\ \E r : TtyReturns(r)
    BY <1>7 DEF TtyClose, TtyOpen
  <2>2. /\ UNCHANGED <<queue, origin, call, todo, busy>> /\ calls' = calls + 1 /\ ~ busy
    BY <2>1 DEF TtyReturns, channelVars, moduleHistory, CallInv
  <2> QED
    BY <1>1, <2>1, <2>2 DEF Idle, Answered
<1>8. CASE UNCHANGED <<hostVars, channelVars, calls, origin>>
  BY <1>1, <1>8 DEF hostVars, channelVars, Idle, OrderInv
<1>9. CASE ModuleReset \/ Arrive \/ (\E flag \in Flags \ {"RESET"} : Raise(flag))
  BY <1>8, <1>9 DEF ModuleReset, Arrive, Raise, Reboots, Event, appHistory
<1>10. CASE UNCHANGED vars
  BY <1>8, <1>10 DEF vars, appHistory, moduleHistory
<1> QED
  BY <1>2, <1>4, <1>5, <1>6, <1>7, <1>9, <1>10, OrderSend, OrderExecutes DEF Next

\* ConfigInOrder: a setting of ll_config_set is never newer than those set before
\* it, whatever was lost, refused or late, and also when the module resets.
THEOREM ConfigStaysInOrder == Spec => []ConfigInOrder
<1>1. OrderInv => ConfigInOrder
  BY ConfigFieldsAre DEF OrderInv, ConfigInOrder
<1> QED
  BY AlwaysOfCall, StandsInit, StandsStep, QueueInit, QueueStep, OrderInit, OrderStep,
     <1>1, PTL DEF Spec

-----------------------------------------------------------------------------
(* The module's settings *)

\* Bytes that a field may have.
Bytes(f, b) ==
    /\ b \in Seq(Nat) /\ Len(b) = Size(f)
    /\ f = "radio" => Legal(UnpackRadio(b))

Stored(s) ==
    /\ DOMAIN s = Fields
    /\ \A f \in Fields : Bytes(f, s[f])
    /\ \A f \in ReadOnly : s[f] = DefaultBytes[f]

SettingsInv == Stored(settings) /\ Stored(flash)

LEMMA EncodedBytes ==
    ASSUME NEW f \in Fields, NEW v, Typed(f, v), Accepts(f, v)
    PROVE  Bytes(f, Encode(f, v))
<1>1. CASE f = "radio"
  <2>1. RadioTyped(v.params) /\ RadioAccepts(v.flags, v.params) /\ v.flags \in SUBSET RadioParams
    BY <1>1 DEF Typed, Accepts
  <2>2. /\ PackRadio(v.flags, v.params) \in Seq(Nat) /\ Len(PackRadio(v.flags, v.params)) = 8
        /\ Legal(UnpackRadio(PackRadio(v.flags, v.params)))
    BY <2>1, RadioReadsBack
  <2>3. Encode(f, v) = PackRadio(v.flags, v.params) /\ Size(f) = 8
    BY <1>1 DEF Encode, Size
  <2> QED
    BY <2>2, <2>3 DEF Bytes
<1>2. CASE f # "radio"
  BY <1>2, GettersUndoSetters DEF Bytes
<1> QED
  BY <1>1, <1>2

LEMMA DefaultsAreStored == Stored(DefaultBytes)
<1>1. \A f \in Fields : Bytes(f, Encode(f, Defaults[f]))
  BY EncodedBytes, CommandsAssumption
<1>2. DOMAIN DefaultBytes = Fields /\ \A f \in Fields : DefaultBytes[f] = Encode(f, Defaults[f])
  BY DEF DefaultBytes
<1> QED
  BY <1>1, <1>2 DEF Stored

LEMMA WithKeepsStored ==
    ASSUME NEW s, NEW F, NEW t, Stored(s), Stored(t)
    PROVE  Stored(With(s, F, t))
<1>1. /\ DOMAIN With(s, F, t) = Fields
      /\ \A f \in Fields : With(s, F, t)[f] = s[f] \/ With(s, F, t)[f] = t[f]
  BY DEF With
<1>2. ReadOnly \subseteq Fields
  BY DEF ReadOnly, Fields, NetworkFields, InterfaceFields
<1>3. \A f \in Fields : Bytes(f, With(s, F, t)[f])
  BY <1>1 DEF Stored
<1>4. \A f \in ReadOnly : With(s, F, t)[f] = DefaultBytes[f]
  BY <1>1, <1>2 DEF Stored
<1> QED
  BY <1>1, <1>3, <1>4 DEF Stored

LEMMA SettingsInit == Init => SettingsInv
  BY DefaultsAreStored DEF Init, SettingsInv

\* The parameters of the radio that a command leaves alone stay as they are.
Blend(m, b) == PackRadio(RadioParams, Merge(m.mask, UnpackRadio(m.data), UnpackRadio(b)))

LEMMA BlendIsLegal ==
    ASSUME NEW m, Sound(m), m.op = "set", m.field = "radio",
           NEW b, Bytes("radio", b)
    PROVE  /\ Bytes("radio", m.data) /\ Bytes("radio", Blend(m, b))
           /\ \A x \in RadioParams :
                 Radio(UnpackRadio(Blend(m, b)))[x] =
                     IF x \in m.mask THEN Radio(UnpackRadio(m.data))[x]
                     ELSE Radio(UnpackRadio(b))[x]
<1> DEFINE p == UnpackRadio(m.data)
           q == UnpackRadio(b)
           g == Merge(m.mask, p, q)
<1>1. PICK v : /\ Typed("radio", v) /\ Accepts("radio", v)
               /\ m.data = Encode("radio", v) /\ m.mask = v.flags
  BY DEF Sound
<1>2. Bytes("radio", m.data) /\ m.mask \in SUBSET RadioParams
  <2>1. "radio" \in Fields
    BY DEF Fields, RadioFields
  <2> QED
    BY <1>1, <2>1, EncodedBytes DEF Typed
<1>3. Legal(p) /\ Legal(q)
  BY <1>2 DEF Bytes
<1> HIDE DEF p, q
<1>4. /\ Legal(g)
      /\ \A k \in RadioParams :
            Radio(g)[k] = IF k \in m.mask THEN Radio(p)[k] ELSE Radio(q)[k]
  BY <1>2, <1>3, MergeIsLegal
<1> HIDE DEF g
<1>5. /\ PackRadio(RadioParams, g) \in Seq(Nat) /\ Len(PackRadio(RadioParams, g)) = 8
      /\ Legal(UnpackRadio(PackRadio(RadioParams, g)))
      /\ \A k \in RadioParams :
            Radio(UnpackRadio(PackRadio(RadioParams, g)))[k] = Radio(g)[k]
  <2>1. RadioTyped(g) /\ RadioAccepts(RadioParams, g) /\ RadioParams \in SUBSET RadioParams
    BY <1>4 DEF Legal
  <2> QED
    BY <2>1, RadioReadsBack
<1>6. Blend(m, b) = PackRadio(RadioParams, g) /\ Size("radio") = 8
  BY DEF Blend, g, p, q, Size
<1> QED
  BY <1>2, <1>4, <1>5, <1>6 DEF Bytes, p, q

\* What a command makes of the settings s.
LEMMA StoreKeepsStored ==
    ASSUME SettingsInv, NEW m, Sound(m), Store(m)
    PROVE  /\ Stored(settings') /\ m.op = "set" /\ m.field \in Fields \ ReadOnly
           /\ \A f \in Fields : settings'[f] =
                 IF f = m.field THEN (IF f = "radio" THEN Blend(m, settings[f]) ELSE m.data)
                 ELSE settings[f]
<1>1. /\ m.op = "set"
      /\ settings' = [settings EXCEPT ![m.field] =
             IF m.field = "radio" THEN Blend(m, settings[m.field]) ELSE m.data]
  BY DEF Store, Blend
<1>2. PICK f, v :
          /\ f \in Fields \ ReadOnly
          /\ Typed(f, v) /\ Accepts(f, v) /\ m.field = f /\ m.data = Encode(f, v)
  BY <1>1 DEF Sound
<1>3. m.field \in Fields \ ReadOnly /\ Bytes(m.field, m.data)
  BY <1>2, EncodedBytes
<1>4. DOMAIN settings = Fields /\ \A g \in Fields : Bytes(g, settings[g])
  BY DEF SettingsInv, Stored
<1>5. /\ DOMAIN settings' = Fields
      /\ \A g \in Fields : settings'[g] =
            IF g = m.field THEN (IF g = "radio" THEN Blend(m, settings[g]) ELSE m.data)
            ELSE settings[g]
  BY <1>1, <1>3, <1>4
<1>6. m.field = "radio" => Bytes("radio", Blend(m, settings["radio"]))
  BY <1>1, <1>3, <1>4, BlendIsLegal
<1>7. \A g \in Fields : Bytes(g, settings'[g])
  BY <1>3, <1>4, <1>5, <1>6
<1>8. \A g \in ReadOnly : settings'[g] = DefaultBytes[g]
  <2>1. ReadOnly \subseteq Fields
    BY DEF ReadOnly, Fields, NetworkFields, InterfaceFields
  <2> QED
    BY <1>3, <1>5, <2>1 DEF SettingsInv, Stored
<1> QED
  BY <1>1, <1>3, <1>5, <1>7, <1>8 DEF Stored

LEMMA NextToTake ==
    ASSUME QueueInv, Executes
    PROVE  /\ 1 \in DOMAIN queue /\ Head(queue) = queue[1] /\ Sound(Head(queue).cmd)
           /\ Head(queue).mine => queue' = <<>> /\ ~ reply.given
           /\ Head(queue).mine /\ busy => Head(queue).cmd = Head(todo).cmd
<1>1. /\ 1 \in DOMAIN queue /\ Head(queue) = queue[1] /\ Sequence(queue')
      /\ Len(queue') = Len(queue) - 1
  BY Taking DEF QueueInv
<1>2. Head(queue).mine => queue' = <<>>
  <2>1. Head(queue).mine => Len(queue') = 0
    BY <1>1 DEF QueueInv
  <2>2. PICK S : queue' \in Seq(S)
    BY <1>1 DEF Sequence
  <2> QED
    BY <2>1, <2>2
<1> QED
  BY <1>1, <1>2 DEF QueueInv

LEMMA SettingsStep == QueueInv /\ SettingsInv /\ [Next]_vars => SettingsInv'
<1> SUFFICES ASSUME QueueInv, SettingsInv, [Next]_vars PROVE SettingsInv'
  OBVIOUS
<1>1. ASSUME Stored(settings'), Stored(flash')
      PROVE  SettingsInv'
  BY <1>1 DEF SettingsInv, Stored
<1>0. Stored(settings) /\ Stored(flash)
  BY DEF SettingsInv
<1>2. CASE Executes
  <2>1. \/ UNCHANGED <<settings, flash>>
        \/ settings' = flash /\ flash' = flash
        \/ Store(Head(queue).cmd) /\ flash' = flash
        \/ Keep(Head(queue).cmd)
    BY <1>2 DEF Executes, Nack, Drops, Store, Load, ReadFlags, HandOver, QueueUplink,
       Obey, ResetMcu, Reboots, moduleVars
  <2>2. CASE Store(Head(queue).cmd) /\ flash' = flash
    BY <1>0, <1>1, <1>2, <2>2, NextToTake, StoreKeepsStored
  <2>3. CASE Keep(Head(queue).cmd)
    <3>1. /\ settings' \in {settings, With(settings, Restored, DefaultBytes)}
          /\ flash' \in {flash, With(flash, FlashFields, settings), DefaultBytes}
      BY <2>3 DEF Keep
    <3> QED
      BY <1>0, <1>1, <3>1, DefaultsAreStored, WithKeepsStored
  <2> QED
    BY <1>0, <1>1, <2>1, <2>2, <2>3
<1>3. CASE UNCHANGED flash /\ settings' \in {settings, flash}
  BY <1>0, <1>1, <1>3
<1>4. ASSUME NEW c \in api.calls, Begin(c)
      PROVE  SettingsInv'
  BY <1>3, <1>4 DEF Begin, moduleVars
<1>5. ASSUME NEW e, Fails(e)
      PROVE  SettingsInv'
  BY <1>3, <1>5 DEF Fails, Misses, moduleVars
<1>6. CASE Send \/ Refused \/ Succeeds \/ UNCHANGED vars
  BY <1>3, <1>6 DEF Send, Refused, Succeeds, vars, moduleVars
<1>7. CASE TtyClose \/ (\E rate \in {"default", "other"} : TtyOpen(rate))
  <2>1. \E r : TtyReturns(r)
    BY <1>7 DEF TtyClose, TtyOpen
  <2> QED
    BY <1>3, <2>1 DEF TtyReturns, moduleVars
<1>8. CASE ModuleReset \/ Arrive \/ (\E flag \in Flags \ {"RESET"} : Raise(flag))
  BY <1>3, <1>8 DEF ModuleReset, Arrive, Raise, Reboots
<1> QED
  BY <1>2, <1>4, <1>5, <1>6, <1>7, <1>8 DEF Next

-----------------------------------------------------------------------------
(* What a call returns *)

\* Data that answer the command m.
Fits(m, data) ==
    /\ m.op = "get" => Bytes(m.field, data)
    /\ m.op = "packet_send" => data = <<0>>
    /\ m.op \notin {"get", "packet_send", "packet_recv", "retrieve_message"} =>
           data = <<>> \/ \E e : data = <<e>>

Results == ErrorCodes \cup -128 .. 127 \cup {Size(f) : f \in Fields}

\* The module refuses with no code beyond 128: ll_ifc_consts.h has -1 to -99.
DocumentedCodes == ErrorCodes \subseteq -128 .. -1

ResultInv ==
    /\ ~ Idle => ~ wrong
    /\ DocumentedCodes /\ Idle => (ret < 0 <=> wrong)
    /\ wrong \in BOOLEAN
    /\ ret \in Results
    /\ Answered => Fits(Head(todo).cmd, reply.data)

LEMMA ResultInit == Init => ResultInv
<1> SUFFICES ASSUME Init PROVE ResultInv
  OBVIOUS
<1>1. ret = 0 /\ wrong = FALSE /\ call = NoCall /\ busy = FALSE
  BY DEF Init, Channel!Init
<1>2. ret \in Results /\ ~ (ret < 0)
  BY <1>1 DEF Results
<1>3. ~ wrong /\ wrong \in BOOLEAN /\ ~ Answered /\ Idle
  BY <1>1 DEF Answered, Idle
<1> QED
  BY <1>2, <1>3 DEF ResultInv

LEMMA AnswersFit ==
    ASSUME QueueInv, SettingsInv, Executes, reply' # reply, reply'.nack = 0
    PROVE  Head(queue).mine /\ Fits(Head(queue).cmd, reply'.data)
<1> DEFINE c == Head(queue).cmd
<1>1. Head(queue).mine /\ Sound(c)
  BY Taking, NextToTake DEF QueueInv
<1>2. reply' # Channel!Nacked(1)
  BY DEF Channel!Nacked
<1>3. \/ c.op \in {"set", "message_send", "timestamp"} \cup Keepers
             /\ reply' = Channel!Acked(<<>>)
      \/ c.op = "get" /\ reply' = Channel!Acked(settings[c.field])
      \/ c.op = "irq_flags" /\ reply' = Channel!Acked(<<irq>>)
      \/ c.op = "retrieve_message"
      \/ c.op = "packet_send" /\ reply' = Channel!Acked(<<0>>)
      \/ c.op = "packet_recv"
  BY <1>1, <1>2 DEF Executes, Nack, Drops, Store, Load, Keep, ReadFlags, HandOver,
     QueueUplink, Obey, ResetMcu, Answer, Channel!Execute, Channel!Drop, Keepers
<1> HIDE DEF c
<1>4. \A d : Channel!Acked(d).data = d
  BY DEF Channel!Acked
<1>5. c.op = "get" => Bytes(c.field, settings[c.field])
  BY <1>1 DEF Sound, SettingsInv, Stored
<1>6. Fits(c, reply'.data)
  BY <1>3, <1>4, <1>5 DEF Fits, Keepers
<1> QED
  BY <1>1, <1>6 DEF c

LEMMA SuccessIsResult ==
    ASSUME NEW s, NEW data, Fits(s.cmd, data), Getting(s)
    PROVE  Success(s, data) \in Results /\ Success(s, data) >= 0
<1> DEFINE op == s.cmd.op
<1>1. CASE op = "packet_send"
  <2>1. data[1] = 0
    BY <1>1 DEF Fits
  <2> QED
    BY <1>1, <2>1 DEF Success, Results
<1>2. CASE op \in {"packet_recv", "retrieve_message"}
  BY <1>2 DEF Success, Results
<1>3. CASE op = "get"
  <2>1. Len(data) = Size(s.cmd.field) /\ s.cmd.field \in Fields
    BY <1>3 DEF Fits, Bytes, Getting
  <2>2. Size(s.cmd.field) \in Nat /\ Size(s.cmd.field) \in Results
    BY <2>1, SizeTyped DEF Results
  <2>3. 0 \in Results
    BY DEF Results
  <2> QED
    BY <1>3, <2>1, <2>2, <2>3 DEF Success
<1>4. CASE op \notin {"get", "packet_send", "packet_recv", "retrieve_message"}
  <2>1. Len(data) = 0 \/ Len(data) = 1
    <3>1. data = <<>> \/ \E e : data = <<e>>
      BY <1>4 DEF Fits
    <3> QED
      BY <3>1
  <2>2. Success(s, data) = Len(data)
    BY <1>4 DEF Success
  <2> QED
    BY <2>1, <2>2 DEF Results
<1> QED
  BY <1>1, <1>2, <1>3, <1>4

\* The cast to int8_t keeps a documented error one, and so does the -1.
LEMMA FailureIsResult ==
    ASSUME NEW s, NEW e \in ErrorCodes
    PROVE  /\ Failure(s, e) \in Results
           /\ DocumentedCodes => Failure(s, e) < 0
<1>1. e \in -255 .. -1
  BY CommandsAssumption
<1>2. AsInt8(e) \in -128 .. 127
  <2>1. (e + 128) % 256 \in 0 .. 255
    BY <1>1
  <2> QED
    BY <2>1 DEF AsInt8
<1>3. ASSUME DocumentedCodes
      PROVE  AsInt8(e) = e /\ e < 0
  <2>1. e \in -128 .. -1
    BY <1>3 DEF DocumentedCodes
  <2>2. (e + 128) % 256 = e + 128
    BY <2>1
  <2> QED
    BY <2>1, <2>2 DEF AsInt8
<1> QED
  BY <1>1, <1>2, <1>3 DEF Failure, Results

LEMMA ResultStep ==
    CallInv /\ StandsInv /\ QueueInv /\ SettingsInv /\ ResultInv /\ [Next]_vars
        => ResultInv'
<1> SUFFICES ASSUME CallInv, StandsInv, QueueInv, SettingsInv, ResultInv, [Next]_vars
             PROVE  ResultInv'
  OBVIOUS
<1> USE DEF Idle
<1>1. ASSUME NEW c \in api.calls, Begin(c)
      PROVE  ResultInv'
  <2>1. /\ UNCHANGED <<busy, ret>> /\ ~ busy /\ wrong' = FALSE /\ call' = c
        /\ c[1] \notin {"tty_open", "tty_close"}
    BY <1>1 DEF Begin, channelVars, CallInv
  <2>2. c[1] # "none"
    BY CallsAreTyped DEF CallInv
  <2>3. ~ Idle'
    BY <2>1, <2>2 DEF NoCall
  <2> QED
    BY <2>1, <2>3 DEF ResultInv, Answered
<1>2. CASE Send
  <2>1. ~ reply'.given /\ UNCHANGED <<hostVars, appHistory>>
    BY <1>2, Sending DEF QueueInv
  <2> QED
    BY <2>1 DEF ResultInv, Answered, hostVars, appHistory
<1>3. ASSUME NEW r, Returns(r), r \in Results, wrong' \in BOOLEAN,
             DocumentedCodes => (r < 0 <=> wrong'), ~ busy'
      PROVE  ResultInv'
  BY <1>3 DEF Returns, ResultInv, Answered
<1>4. CASE Refused
  <2>1. LL_IFC_ERROR_INCORRECT_PARAMETER \in Results /\ LL_IFC_ERROR_INCORRECT_PARAMETER < 0
    BY DEF Results, LL_IFC_ERROR_INCORRECT_PARAMETER
  <2> QED
    BY <1>3, <1>4, <2>1 DEF Refused, channelVars
<1>5. ASSUME NEW e \in ErrorCodes, Fails(e)
      PROVE  ResultInv'
  <2>1. /\ Failure(Head(todo), e) \in Results
        /\ DocumentedCodes => Failure(Head(todo), e) < 0
    BY FailureIsResult
  <2>2. Returns(Failure(Head(todo), e)) /\ wrong' = TRUE /\ ~ busy'
    BY <1>5 DEF Fails, Misses, Channel!Fail
  <2> QED
    BY <1>3, <2>1, <2>2
<1>6. CASE Succeeds
  <2>1. Answered /\ ~ Idle /\ ~ busy' /\ wrong' = wrong
    BY <1>6 DEF Succeeds, Channel!Succeed, Answered, CallInv
  <2>2. Fits(Head(todo).cmd, reply.data) /\ Getting(Head(todo)) /\ ~ wrong
    BY <2>1, NextStepStands DEF ResultInv
  <2>3. CASE Rest = <<>>
    <3>1. Returns(Success(Head(todo), reply.data))
      BY <1>6, <2>3 DEF Succeeds
    <3>2. /\ Success(Head(todo), reply.data) \in Results
          /\ Success(Head(todo), reply.data) >= 0
      BY <2>2, SuccessIsResult
    <3>3. \A r \in Results : r \in Int
      BY SizeTyped, CommandsAssumption DEF Results, LL_IFC_ERROR_INCORRECT_PARAMETER
    <3>4. ~ (Success(Head(todo), reply.data) < 0)
      BY <3>2, <3>3
    <3> QED
      BY <1>3, <2>1, <2>2, <3>1, <3>2, <3>4 DEF ResultInv
  <2>4. CASE Rest # <<>>
    BY <1>6, <2>1, <2>4 DEF Succeeds, ResultInv, Answered
  <2> QED
    BY <2>3, <2>4
<1>7. CASE TtyClose \/ (\E rate \in {"default", "other"} : TtyOpen(rate))
  <2>1. Idle /\ \E r \in {0, -1} : TtyReturns(r)
    BY <1>7 DEF TtyClose, TtyOpen
  <2>2. PICK r \in {0, -1} : TtyReturns(r)
    BY <2>1
  <2>3. ret' = r /\ wrong' = (r < 0) /\ UNCHANGED <<call, busy>> /\ ~ busy
    BY <2>1, <2>2 DEF TtyReturns, channelVars, CallInv
  <2>4. ret' \in Results
    BY <2>3 DEF Results
  <2>5. (r < 0) \in BOOLEAN
    OBVIOUS
  <2>6. wrong' \in BOOLEAN /\ (ret' < 0 <=> wrong')
    BY <2>3, <2>5, Zenon
  <2> QED
    BY <2>1, <2>3, <2>4, <2>6 DEF ResultInv, Answered
<1>8. CASE Executes
  <2>1. UNCHANGED <<call, todo, ret, wrong, busy>>
    BY <1>8, Taking DEF QueueInv, hostVars, appHistory
  <2>2. ASSUME Answered' PROVE Fits(Head(todo).cmd, reply'.data)
    <3>1. CASE reply' = reply
      BY <2>1, <2>2, <3>1 DEF Answered, ResultInv
    <3>2. CASE reply' # reply
      <4>1. Head(queue).mine /\ Fits(Head(queue).cmd, reply'.data)
        BY <1>8, <2>2, <3>2, AnswersFit DEF Answered
      <4>2. Head(queue).cmd = Head(todo).cmd
        BY <1>8, <2>1, <2>2, <4>1, NextToTake DEF Answered
      <4> QED
        BY <4>1, <4>2
    <3> QED
      BY <3>1, <3>2
  <2> QED
    BY <2>1, <2>2 DEF ResultInv
<1>9. CASE UNCHANGED <<hostVars, channelVars, wrong>>
  BY <1>9 DEF hostVars, channelVars, ResultInv, Answered
<1>10. CASE ModuleReset \/ Arrive \/ (\E flag \in Flags \ {"RESET"} : Raise(flag))
  BY <1>9, <1>10 DEF ModuleReset, Arrive, Raise, Event, appHistory
<1>11. CASE UNCHANGED vars
  BY <1>9, <1>11 DEF vars, appHistory
<1> QED
  BY <1>1, <1>2, <1>4, <1>5, <1>6, <1>7, <1>8, <1>10, <1>11 DEF Next

\* ErrorIsReported: a call returns a negative number exactly when a parameter was
\* refused or one of its commands failed, as long as the module's codes are the
\* documented ones. A command that fails ends its call, its code stays negative
\* through the cast to int8_t, and no answer is a negative one.
THEOREM ErrorsAreReported ==
    ASSUME DocumentedCodes
    PROVE  Spec => []ErrorIsReported
<1>1. ResultInv => ErrorIsReported
  BY DEF ResultInv, ErrorIsReported
<1> QED
  BY AlwaysOfCall, StandsInit, StandsStep, QueueInit, QueueStep, SettingsInit,
     SettingsStep, ResultInit, ResultStep, <1>1, PTL DEF Spec

-----------------------------------------------------------------------------
(* Types *)

TypesInv ==
    /\ ll_ul_max_port \in {127, LL_FTP_PORT}
    /\ irq \subseteq Flags /\ unseen \subseteq Flags
    /\ DOMAIN got = Items

LEMMA TypesStep == PortInv /\ TypesInv /\ [Next]_vars => TypesInv'
<1> SUFFICES ASSUME PortInv, TypesInv, [Next]_vars PROVE TypesInv'
  OBVIOUS
<1>1. old_max_port = 127 /\ "RESET" \in Flags
  BY CommandsAssumption DEF PortInv
<1>2. ASSUME NEW c \in api.calls, Begin(c)
      PROVE  TypesInv'
  BY <1>2 DEF Begin, moduleVars, TypesInv
<1>3. ASSUME NEW e, Fails(e)
      PROVE  TypesInv'
  BY <1>1, <1>3 DEF Fails, Misses, Returns, moduleVars, TypesInv
<1>4. CASE Send \/ UNCHANGED vars
  BY <1>4 DEF Send, vars, hostVars, moduleVars, TypesInv
<1>5. CASE Refused
  BY <1>1, <1>5 DEF Refused, Returns, moduleVars, TypesInv
<1>6. CASE Succeeds
  <2>1. DOMAIN got' = Items /\ unseen' \subseteq unseen /\ irq' = irq
    BY <1>6 DEF Succeeds, moduleVars
  <2>2. ll_ul_max_port' \in {old_max_port, ll_ul_max_port}
    BY <1>6 DEF Succeeds, Returns
  <2> QED
    BY <1>1, <2>1, <2>2 DEF TypesInv
<1>7. CASE TtyClose \/ (\E rate \in {"default", "other"} : TtyOpen(rate))
  <2>1. \E r : TtyReturns(r)
    BY <1>7 DEF TtyClose, TtyOpen
  <2> QED
    BY <2>1 DEF TtyReturns, moduleVars, TypesInv
<1>8. CASE Executes
  <2>1. UNCHANGED <<ll_ul_max_port, got>>
    BY <1>8 DEF Executes, hostVars
  <2>2. \/ irq' \subseteq irq /\ unseen' = unseen
        \/ irq' = {"RESET"} /\ unseen' = {"RESET"}
    BY <1>8 DEF Executes, Nack, Drops, Store, Load, Keep, ReadFlags, HandOver,
       QueueUplink, Obey, ResetMcu, Reboots, moduleVars
  <2> QED
    BY <1>1, <2>1, <2>2 DEF TypesInv
<1>9. CASE ModuleReset \/ Arrive \/ (\E flag \in Flags \ {"RESET"} : Raise(flag))
  <2>1. UNCHANGED <<ll_ul_max_port, got>>
    BY <1>9 DEF ModuleReset, Arrive, Raise, Event, hostVars
  <2>2. \/ irq' = irq /\ unseen' = unseen
        \/ irq' = {"RESET"} /\ unseen' = {"RESET"}
        \/ \E flag \in Flags : irq' = irq \cup {flag} /\ unseen' = unseen \cup {flag}
    BY <1>9 DEF ModuleReset, Arrive, Raise, Reboots
  <2> QED
    BY <1>1, <2>1, <2>2 DEF TypesInv
<1> QED
  BY <1>2, <1>3, <1>4, <1>5, <1>6, <1>7, <1>8, <1>9 DEF Next

\* TypeOK: every variable keeps its type; what a call returns is an error code,
\* a signed byte or the size of a field, and a command is in flight only while a
\* call runs.
THEOREM TypesAreKept == Spec => []TypeOK
<1>1. Init => TypesInv
  BY DEF Init, TypesInv
<1>2. /\ CallInv /\ TtyInv /\ StandsInv /\ SettingsInv /\ ResultInv /\ TypesInv
      => TypeOK
  <2> SUFFICES ASSUME CallInv, TtyInv, StandsInv, SettingsInv, ResultInv, TypesInv
               PROVE  TypeOK
    OBVIOUS
  <2>1. calls \in 0 .. api.max
    BY DEF StandsInv
  <2>2. Idle <=> todo = <<>>
    BY DEF CallInv, StandsInv
  <2>3. DOMAIN settings = Fields
    BY DEF SettingsInv, Stored
  <2>4. g_tty_fd \in Int
    BY DEF TtyInv
  <2>5. ret \in Results
    BY DEF ResultInv
  <2> QED
    BY <2>1, <2>2, <2>3, <2>4, <2>5 DEF TypeOK, TypesInv, Results, CallInv
<1> QED
  BY AlwaysOfCall, TtyInit, TtyStep, StandsInit, StandsStep, QueueInit, QueueStep,
     SettingsInit, SettingsStep, ResultInit, ResultStep, PortInit, PortStep, TypesStep,
     <1>1, <1>2, PTL DEF Spec

-----------------------------------------------------------------------------
(* The messages *)

\* The messages differ by their signal strength, a signed number of 16 bits.
FewMessages == MaxEvents \in Nat /\ 2 * MaxEvents <= Values[2]

LEMMA BodyFollows ==
    ASSUME NEW a \in Seq(Nat), NEW b \in Seq(Nat)
    PROVE  SubSeq(a \o b, Len(a) + 1, Len(a \o b)) = b
<1> DEFINE s == a \o b
           r == SubSeq(s, Len(a) + 1, Len(s))
<1>1. /\ s \in Seq(Nat) /\ Len(s) = Len(a) + Len(b)
      /\ \A k \in 1 .. Len(b) : s[Len(a) + k] = b[k]
  BY Joined
<1> HIDE DEF s
<1>2. CASE Len(b) = 0
  <2>1. Len(a) + 1 > Len(s)
    BY <1>1, <1>2
  <2>2. r = <<>>
    BY <1>1, <2>1
  <2>3. b = <<>>
    BY <1>2
  <2> QED
    BY <2>2, <2>3 DEF s
<1>3. CASE Len(b) # 0
  <2>1. /\ Len(a) + 1 \in 1 .. Len(s) /\ Len(s) \in Len(a) + 1 .. Len(s)
        /\ Len(s) - (Len(a) + 1) + 1 = Len(b)
    BY <1>1, <1>3
  <2>2. /\ r \in Seq(Nat) /\ Len(r) = Len(s) - (Len(a) + 1) + 1
        /\ \A k \in 1 .. Len(s) - (Len(a) + 1) + 1 : r[k] = s[Len(a) + 1 + k - 1]
    BY <1>1, <2>1, Between
  <2> HIDE DEF r
  <2>3. ASSUME NEW k \in 1 .. Len(b)
        PROVE  r[k] = b[k]
    <3>1. Len(a) + 1 + k - 1 = Len(a) + k
      OBVIOUS
    <3>2. r[k] = s[Len(a) + k]
      BY <2>1, <2>2, <3>1
    <3> QED
      BY <1>1, <3>2
  <2>4. r = b
    BY <2>1, <2>2, <2>3, SameSequence
  <2> QED
    BY <2>4 DEF r, s
<1> QED
  BY <1>2, <1>3

\* What ll_retrieve_message hands over of a message: all of it if its number of
\* bytes fits the byte it is cut to.
Faithful(m) ==
    LET s == Sent(m.port)
    IN  m.rssi = s.rssi /\ (Len(s.body) + 4 < ByteMod => m = s)

LEMMA ShortSize ==
    ASSUME NEW l \in Nat, l + 4 < ByteMod
    PROVE  MessageSize(l + 4) = l
<1>1. Values[2] = ByteMod * ByteMod /\ ByteMod \in Nat /\ ByteMod > 1
  BY ValuesAre, ByteModAssumption
<1>2. \A k \in Nat : k > 1 => k * k >= k
  OBVIOUS
<1>3. Values[2] >= ByteMod
  BY <1>1, <1>2
<1>4. (l + 4) % ByteMod = l + 4
  BY <1>1
<1>5. l % Values[2] = l
  BY <1>1, <1>3
<1> QED
  BY <1>4, <1>5 DEF MessageSize

\* ll_retrieve_message takes a message apart as the module put it together.
LEMMA MessageIsSent ==
    ASSUME FewMessages, NEW n \in 1 .. MaxEvents
    PROVE  /\ Message(Packed(Sent(n))).port = n
           /\ Faithful(Message(Packed(Sent(n))))
<1> DEFINE w == (-n) % Values[2]
           b == ToBytes(w, 2)
           h == <<b[2], b[1], 0, n>>
           d == h \o Body(n)
           m == Message(d)
           l == BodyLen[n]
<1>1. Values[2] \in Nat /\ 2 \in Widths
  BY ValuesTyped DEF Widths
<1>2. w \in 0 .. Values[2] - 1 /\ Signed(w, 2) = -n
  <2>1. "net_info" \in Fields \ {"radio"} /\ <<"net_info", 6>> \in SignedMembers
    BY DEF Fields, NetworkFields, SignedMembers
  <2>2. 6 \in DOMAIN Layout["net_info"] /\ Layout["net_info"][6] = 2
    BY DEF Layout
  <2>3. -n \in Member("net_info", 6)
    BY <1>1, <2>1, <2>2 DEF FewMessages, Member
  <2> QED
    BY <2>1, <2>2, <2>3, MemberIs
<1>3. /\ b \in Seq(Nat) /\ Len(b) = 2 /\ FromBytes(b) = w
      /\ FromBytes(b) = b[1] * ByteMod + b[2]
      /\ b[1] \in Nat /\ b[2] \in Nat
  <2>1. w \in Nat
    BY <1>1, <1>2
  <2>2. b \in Seq(Nat) /\ Len(b) = 2 /\ FromBytes(b) = w
    BY <1>1, <1>2, <2>1, BytesTyped, ReadUndoesWrite
  <2> HIDE DEF b
  <2>3. FromBytes(b) = b[1] * ByteMod + b[2]
    BY <1>1, <2>2, FromBytesIs
  <2>4. \A k \in 1 .. 2 : b[k] \in 0 .. ByteMod - 1
    BY <1>1, <2>1, BytesTyped DEF b
  <2>5. ByteMod \in Nat
    BY ByteModAssumption
  <2> QED
    BY <2>2, <2>3, <2>4, <2>5
<1>4. Packed(Sent(n)) = d
  BY DEF Packed, Sent
<1> HIDE DEF w, b
<1>5. l \in Nat /\ Body(n) \in Seq(Nat) /\ Len(Body(n)) = l
  <2>1. l \in Nat /\ n \in Nat
    BY CommandsAssumption
  <2> HIDE DEF l
  <2>2. Body(n) = [i \in 1 .. l |-> n]
    BY DEF Body, l
  <2> QED
    BY <2>1, <2>2
<1>6. /\ h \in Seq(Nat) /\ Len(h) = 4
      /\ h[1] = b[2] /\ h[2] = b[1] /\ h[4] = n
  BY <1>3
<1> HIDE DEF h
<1>7. SubSeq(d, Len(h) + 1, Len(d)) = Body(n)
  BY <1>5, <1>6, BodyFollows
<1>8. Len(d) = l + 4 /\ \A k \in 1 .. Len(h) : d[k] = h[k]
  <2>1. /\ Len(d) = Len(h) + Len(Body(n))
        /\ \A k \in 1 .. Len(h) : d[k] = h[k]
    BY <1>5, <1>6, Joined
  <2> HIDE DEF d
  <2> QED
    BY <1>5, <1>6, <2>1
<1> HIDE DEF d, l
<1>9. d[1] = b[2] /\ d[2] = b[1] /\ d[4] = n /\ SubSeq(d, 5, Len(d)) = Body(n)
  <2>1. 1 \in 1 .. Len(h) /\ 2 \in 1 .. Len(h) /\ 4 \in 1 .. Len(h) /\ Len(h) + 1 = 5
    BY <1>6
  <2> QED
    BY <1>6, <1>7, <1>8, <2>1
<1>10. d[1] + ByteMod * d[2] = w
  <2>1. ByteMod \in Nat
    BY ByteModAssumption
  <2>2. b[2] + ByteMod * b[1] = b[1] * ByteMod + b[2]
    BY <1>3, <2>1
  <2> QED
    BY <1>3, <1>9, <2>2
<1>11. m.rssi = -n /\ m.port = n
  BY <1>2, <1>9, <1>10 DEF Message
<1>12. /\ Sent(n).rssi = -n /\ Sent(n).body = Body(n)
       /\ Sent(n) = [rssi |-> -n, port |-> n, size |-> l, body |-> Body(n)]
  BY DEF Sent, l
<1>13. ASSUME l + 4 < ByteMod
       PROVE  m = Sent(n)
  <2>1. MessageSize(Len(d)) = l
    BY <1>5, <1>8, <1>13, ShortSize
  <2>2. Len(d) - 4 = l
    BY <1>5, <1>8
  <2>3. (IF l <= l THEN l + 4 ELSE Len(d)) = Len(d)
    BY <1>5, <1>8
  <2>4. m = [rssi |-> -n, port |-> n, size |-> l, body |-> Body(n)]
    BY <1>2, <1>9, <1>10, <2>1, <2>2, <2>3 DEF Message
  <2> QED
    BY <1>12, <2>4
<1> HIDE DEF m
<1>14. Faithful(m)
  BY <1>5, <1>11, <1>12, <1>13 DEF Faithful
<1> QED
  BY <1>4, <1>11, <1>14 DEF m

\* So many messages have left the module, handed over or lost with a reset.
Handed == arrived - Len(inbox)

Retrieving == Answered /\ Head(todo).cmd.op = "retrieve_message"

MessageInv ==
    /\ arrived \in Nat /\ events \in Nat /\ arrived <= events /\ events <= MaxEvents
    /\ Sequence(inbox) /\ Len(inbox) <= arrived
    /\ \A k \in DOMAIN inbox : inbox[k] = Packed(Sent(Handed + k))
    /\ Sequence(received)
    /\ \A k \in DOMAIN received :
          /\ received[k].port \in 1 .. Handed
          /\ Faithful(received[k])
          /\ \A l \in DOMAIN received : l < k => received[l].port < received[k].port
    /\ Retrieving =>
          \E n \in 1 .. Handed :
              /\ reply.data = Packed(Sent(n))
              /\ \A k \in DOMAIN received : received[k].port < n

LEMMA SequenceIs ==
    ASSUME NEW s, Sequence(s)
    PROVE  Len(s) \in Nat /\ DOMAIN s = 1 .. Len(s)
<1>1. PICK S : s \in Seq(S)
  BY DEF Sequence
<1> QED
  BY <1>1

LEMMA MessageInit == FewMessages /\ Init => MessageInv
<1> SUFFICES ASSUME FewMessages, Init PROVE MessageInv
  OBVIOUS
<1>1. /\ arrived = 0 /\ events = 0 /\ inbox = <<>> /\ received = <<>> /\ busy = FALSE
      /\ MaxEvents \in Nat
  BY DEF Init, Channel!Init, FewMessages
<1>2. Len(<<>>) = 0
  OBVIOUS
<1> QED
  BY <1>1, <1>2, EmptySequence DEF MessageInv, Retrieving, Answered

\* The module hands over its oldest message, loses all, or keeps them.
LEMMA MessageExecutes ==
    ASSUME QueueInv, MessageInv, Executes
    PROVE  MessageInv'
<1> DEFINE c == Head(queue).cmd
<1>1. UNCHANGED <<todo, busy, events, arrived, received>>
  BY Taking DEF QueueInv, hostVars, appHistory
<1>2. /\ arrived \in Nat /\ events \in Nat /\ Len(inbox) \in Nat
      /\ DOMAIN inbox = 1 .. Len(inbox) /\ Len(inbox) <= arrived
      /\ Handed \in Nat /\ Sequence(inbox)
  <2>1. /\ arrived \in Nat /\ events \in Nat /\ Len(inbox) \in Nat
        /\ DOMAIN inbox = 1 .. Len(inbox) /\ Len(inbox) <= arrived /\ Sequence(inbox)
    BY SequenceIs DEF MessageInv
  <2> QED
    BY <2>1 DEF Handed
<1>3. \/ /\ inbox' = inbox
         /\ reply' = reply \/ reply'.nack # 0 \/ c.op # "retrieve_message"
      \/ inbox' = <<>> /\ c.op = "reset_mcu"
      \/ /\ c.op = "retrieve_message" /\ inbox # <<>> /\ inbox' = Tail(inbox)
         /\ reply' = reply \/ reply' = Channel!Acked(Head(inbox))
  <2>1. Channel!Nacked(1).nack # 0
    BY DEF Channel!Nacked
  <2> QED
    BY <2>1 DEF Executes, Nack, Drops, Store, Load, Keep, ReadFlags, HandOver,
       QueueUplink, Obey, ResetMcu, Reboots, Answer, Channel!Execute, Channel!Drop,
       moduleVars
<1>4. /\ (reply' = reply \/ (Head(queue).mine /\ reply'.given))
      /\ Head(queue).mine => ~ reply.given
      /\ Head(queue).mine /\ busy => c = Head(todo).cmd
  BY Taking, NextToTake DEF QueueInv
<1>5. /\ Sequence(inbox') /\ Len(inbox') <= arrived' /\ Handed' \in Nat
      /\ Handed <= Handed'
      /\ \A k \in DOMAIN inbox' : inbox'[k] = Packed(Sent(Handed' + k))
  <2>1. CASE inbox' = inbox
    BY <1>1, <1>2, <2>1 DEF MessageInv, Handed
  <2>2. CASE inbox' = <<>>
    <3>1. Len(inbox') = 0
      BY <2>2
    <3>2. Handed' = arrived
      BY <1>1, <1>2, <3>1 DEF Handed
    <3> QED
      BY <1>1, <1>2, <2>2, <3>1, <3>2, EmptySequence DEF Handed
  <2>3. CASE inbox # <<>> /\ inbox' = Tail(inbox)
    <3>1. /\ Sequence(inbox') /\ Len(inbox') = Len(inbox) - 1 /\ Len(inbox) > 0
          /\ \A k \in DOMAIN inbox' :
                k \in Nat /\ k + 1 \in DOMAIN inbox /\ inbox'[k] = inbox[k + 1]
      BY <1>2, <2>3, TailOf
    <3>2. Handed' = Handed + 1
      BY <1>1, <1>2, <3>1 DEF Handed
    <3>3. ASSUME NEW k \in DOMAIN inbox'
          PROVE  inbox'[k] = Packed(Sent(Handed' + k))
      <4>1. inbox'[k] = Packed(Sent(Handed + (k + 1))) /\ k \in Nat
        BY <3>1 DEF MessageInv
      <4>2. Handed + (k + 1) = Handed' + k
        BY <1>2, <3>2, <4>1
      <4> QED
        BY <4>1, <4>2
    <3>4. Len(inbox') <= arrived' /\ Handed' \in Nat /\ Handed <= Handed'
      BY <1>1, <1>2, <3>1, <3>2
    <3> QED
      BY <3>1, <3>3, <3>4
  <2> QED
    BY <1>3, <2>1, <2>2, <2>3
<1>6. \A k \in DOMAIN received :
         /\ received[k].port \in 1 .. Handed /\ received[k].port \in 1 .. Handed'
         /\ Faithful(received[k])
         /\ \A l \in DOMAIN received : l < k => received[l].port < received[k].port
  BY <1>2, <1>5 DEF MessageInv
<1>7. ASSUME Retrieving'
      PROVE  \E n \in 1 .. Handed' :
                /\ reply'.data = Packed(Sent(n))
                /\ \A k \in DOMAIN received' : received'[k].port < n
  <2>1. busy /\ reply'.given /\ reply'.nack = 0 /\ Head(todo).cmd.op = "retrieve_message"
    BY <1>1, <1>7 DEF Retrieving, Answered
  <2>2. CASE reply' = reply
    <3>1. PICK n \in 1 .. Handed :
              /\ reply.data = Packed(Sent(n))
              /\ \A k \in DOMAIN received : received[k].port < n
      BY <2>1, <2>2 DEF MessageInv, Retrieving, Answered
    <3>2. n \in 1 .. Handed'
      BY <1>2, <1>5
    <3> QED
      BY <1>1, <2>2, <3>1, <3>2
  <2>3. CASE reply' # reply
    <3>1. c.op = "retrieve_message"
      BY <1>4, <2>1, <2>3
    <3>2. /\ inbox # <<>> /\ inbox' = Tail(inbox)
          /\ reply' = Channel!Acked(Head(inbox))
      BY <1>3, <2>1, <2>3, <3>1
    <3>3. Head(inbox) = inbox[1] /\ Len(inbox') = Len(inbox) - 1 /\ Len(inbox) > 0
      BY <1>2, <3>2, TailOf
    <3>4. Handed' = Handed + 1
      BY <1>1, <1>2, <3>3 DEF Handed
    <3>5. reply'.data = Packed(Sent(Handed + 1))
      <4>1. 1 \in DOMAIN inbox /\ reply'.data = Head(inbox)
        BY <1>2, <3>2, <3>3 DEF Channel!Acked
      <4> QED
        BY <3>3, <4>1 DEF MessageInv
    <3>6. \A k \in DOMAIN received' : received'[k].port < Handed + 1
      BY <1>1, <1>2, <1>6
    <3>7. Handed + 1 \in 1 .. Handed'
      BY <1>2, <3>4
    <3> QED
      BY <3>5, <3>6, <3>7
  <2> QED
    BY <2>2, <2>3
<1> QED
  BY <1>1, <1>5, <1>6, <1>7 DEF MessageInv

LEMMA MessageStep ==
    ASSUME FewMessages, CallInv, StandsInv, QueueInv, MessageInv, [Next]_vars
    PROVE  MessageInv'
<1>1. ASSUME UNCHANGED <<arrived, inbox, received>>,
             events' \in Nat, events <= events', events' <= MaxEvents,
             ~ Answered' \/ UNCHANGED <<busy, reply, todo>>
      PROVE  MessageInv'
  <2>1. Handed' = Handed /\ (Retrieving' => Retrieving /\ reply' = reply)
    BY <1>1 DEF Handed, Retrieving, Answered
  <2>2. arrived <= events'
    BY <1>1 DEF MessageInv
  <2> QED
    BY <1>1, <2>1, <2>2 DEF MessageInv
<1>2. events \in Nat /\ events <= events /\ events <= MaxEvents
  BY DEF MessageInv
<1>3. CASE Send
  <2>1. ~ reply'.given /\ UNCHANGED <<moduleVars, appHistory, moduleHistory>>
    BY <1>3, Sending DEF QueueInv
  <2> QED
    BY <1>1, <1>2, <2>1 DEF Answered, moduleVars, appHistory, moduleHistory
<1>4. ASSUME NEW c \in api.calls, Begin(c)
      PROVE  MessageInv'
  <2>1. ~ busy' /\ UNCHANGED <<moduleVars, received, moduleHistory>>
    BY <1>4 DEF Begin, channelVars, CallInv
  <2> QED
    BY <1>1, <1>2, <2>1 DEF Answered, moduleVars, moduleHistory
<1>5. CASE Refused
  BY <1>1, <1>2, <1>5 DEF Refused, channelVars, moduleVars, moduleHistory, Answered
<1>6. ASSUME NEW e, Fails(e)
      PROVE  MessageInv'
  BY <1>1, <1>2, <1>6 DEF Fails, Misses, Channel!Fail, moduleVars, moduleHistory, Answered
<1>7. CASE Succeeds
  <2>1. /\ ~ Answered' /\ Answered /\ UNCHANGED <<inbox, arrived, events>>
        /\ received' = IF Head(todo).cmd.op = "retrieve_message"
                       THEN Append(received, Message(reply.data)) ELSE received
    BY <1>7 DEF Succeeds, Channel!Succeed, Answered, moduleVars, moduleHistory
  <2>2. CASE Head(todo).cmd.op # "retrieve_message"
    BY <1>1, <1>2, <2>1, <2>2
  <2>3. CASE Head(todo).cmd.op = "retrieve_message"
    <3>1. PICK n \in 1 .. Handed :
              /\ reply.data = Packed(Sent(n))
              /\ \A k \in DOMAIN received : received[k].port < n
      BY <2>1, <2>3 DEF MessageInv, Retrieving
    <3>2. n \in 1 .. MaxEvents
      <4>1. Len(inbox) \in Nat
        BY SequenceIs DEF MessageInv
      <4> QED
        BY <4>1 DEF Handed, MessageInv, FewMessages
    <3> DEFINE e == Message(reply.data)
    <3>3. received' = Append(received, e)
      BY <2>1, <2>3
    <3>4. e.port = n /\ Faithful(e)
      BY <3>1, <3>2, MessageIsSent
    <3> HIDE DEF e
    <3>5. /\ Sequence(received') /\ Len(received) \in Nat
          /\ DOMAIN received = 1 .. Len(received)
          /\ DOMAIN received' = 1 .. Len(received) + 1
          /\ \A k \in DOMAIN received : received'[k] = received[k]
          /\ received'[Len(received) + 1] = e
      BY <3>3, AppendTo DEF MessageInv
    <3>6. Handed' = Handed
      BY <2>1 DEF Handed
    <3>7. ASSUME NEW k \in DOMAIN received'
          PROVE  /\ received'[k].port \in 1 .. Handed'
                 /\ Faithful(received'[k])
                 /\ \A l \in DOMAIN received' : l < k => received'[l].port < received'[k].port
      <4>1. CASE k \in DOMAIN received
        <5>1. \A l \in DOMAIN received' : l < k => l \in DOMAIN received
          BY <3>5, <4>1
        <5> QED
          BY <3>5, <3>6, <4>1, <5>1 DEF MessageInv
      <4>2. CASE k = Len(received) + 1
        <5>1. \A l \in DOMAIN received' : l < k => l \in DOMAIN received
          BY <3>5, <4>2
        <5> QED
          BY <3>1, <3>4, <3>5, <3>6, <4>2, <5>1
      <4> QED
        BY <3>5, <4>1, <4>2
    <3> QED
      BY <2>1, <3>5, <3>6, <3>7 DEF MessageInv, Retrieving
  <2> QED
    BY <2>2, <2>3
<1>8. CASE TtyClose \/ (\E rate \in {"default", "other"} : TtyOpen(rate))
  <2>1. Idle /\ \E r : TtyReturns(r)
    BY <1>8 DEF TtyClose, TtyOpen
  <2>2. ~ busy' /\ UNCHANGED <<moduleVars, received, moduleHistory>>
    BY <2>1 DEF TtyReturns, channelVars, CallInv
  <2> QED
    BY <1>1, <1>2, <2>2 DEF Answered, moduleVars, moduleHistory
<1>9. ASSUME NEW kind, Event(kind)
      PROVE  /\ events' = events + 1 /\ events' \in Nat /\ events' <= MaxEvents
             /\ UNCHANGED <<received, busy, reply, todo>>
  BY <1>9 DEF Event, MessageInv, FewMessages, hostVars, channelVars, appHistory
<1>10. CASE ModuleReset
  <2>1. Event("reset") /\ arrived' = arrived /\ inbox' = <<>>
    BY <1>10 DEF ModuleReset, Reboots
  <2>2. Len(inbox) \in Nat /\ Len(inbox') = 0 /\ DOMAIN inbox' = {}
    BY <2>1, SequenceIs, EmptySequence DEF MessageInv
  <2>3. Handed' = arrived /\ Handed <= Handed' /\ Handed \in Nat /\ Handed' \in Nat
    BY <2>1, <2>2 DEF Handed, MessageInv
  <2>4. \A n \in 1 .. Handed : n \in 1 .. Handed'
    BY <2>3
  <2>5. Retrieving' => Retrieving /\ reply' = reply
    BY <1>9, <2>1 DEF Retrieving, Answered
  <2>6. Len(inbox') <= arrived' /\ arrived' \in Nat /\ arrived' <= events'
    BY <1>9, <2>1, <2>2 DEF MessageInv
  <2>7. \A k \in DOMAIN received' :
           /\ received'[k].port \in 1 .. Handed'
           /\ Faithful(received'[k])
           /\ \A l \in DOMAIN received' : l < k => received'[l].port < received'[k].port
    BY <1>9, <2>1, <2>4 DEF MessageInv
  <2>8. Retrieving' =>
          \E n \in 1 .. Handed' :
              /\ reply'.data = Packed(Sent(n))
              /\ \A k \in DOMAIN received' : received'[k].port < n
    BY <1>9, <2>1, <2>4, <2>5 DEF MessageInv
  <2>9. Sequence(inbox') /\ Sequence(received')
    BY <1>9, <2>1, EmptySequence DEF MessageInv
  <2> QED
    BY <1>9, <2>1, <2>2, <2>6, <2>7, <2>8, <2>9 DEF MessageInv
<1>11. CASE Arrive
  <2> DEFINE e == Packed(Sent(arrived + 1))
  <2>1. Event("arrive") /\ arrived' = arrived + 1 /\ inbox' = Append(inbox, e)
    BY <1>11 DEF Arrive
  <2> HIDE DEF e
  <2>2. /\ Sequence(inbox') /\ Len(inbox) \in Nat /\ Len(inbox') = Len(inbox) + 1
        /\ DOMAIN inbox = 1 .. Len(inbox) /\ DOMAIN inbox' = 1 .. Len(inbox) + 1
        /\ \A k \in DOMAIN inbox : inbox'[k] = inbox[k]
        /\ inbox'[Len(inbox) + 1] = e
    BY <2>1, AppendTo DEF MessageInv
  <2>3. Handed' = Handed /\ Handed + (Len(inbox) + 1) = arrived + 1
    BY <2>1, <2>2 DEF Handed, MessageInv
  <2>4. ASSUME NEW k \in DOMAIN inbox'
        PROVE  inbox'[k] = Packed(Sent(Handed' + k))
    <3>1. CASE k \in DOMAIN inbox
      BY <2>2, <2>3, <3>1 DEF MessageInv
    <3>2. CASE k = Len(inbox) + 1
      BY <2>2, <2>3, <3>2 DEF e
    <3> QED
      BY <2>2, <3>1, <3>2
  <2>5. Retrieving' => Retrieving /\ reply' = reply
    BY <1>9, <2>1 DEF Retrieving, Answered
  <2>6. Len(inbox') <= arrived' /\ arrived' \in Nat /\ arrived' <= events'
    BY <1>9, <2>1, <2>2 DEF MessageInv
  <2> QED
    BY <1>9, <2>1, <2>2, <2>3, <2>4, <2>5, <2>6 DEF MessageInv
<1>12. ASSUME NEW flag, Raise(flag)
       PROVE  MessageInv'
  <2>1. Event("raise") /\ UNCHANGED <<arrived, inbox>>
    BY <1>12 DEF Raise
  <2>2. events' = events + 1 /\ events' \in Nat /\ events' <= MaxEvents
        /\ UNCHANGED <<received, busy, reply, todo>>
    BY <1>9, <2>1
  <2> QED
    BY <1>1, <1>2, <2>1, <2>2
<1>13. CASE UNCHANGED vars
  BY <1>1, <1>2, <1>13 DEF vars, hostVars, channelVars, moduleVars, appHistory,
     moduleHistory
<1> QED
  BY <1>3, <1>4, <1>5, <1>6, <1>7, <1>8, <1>10, <1>11, <1>12, <1>13, MessageExecutes
  DEF Next

\* The commands in the queue whose answer nobody waits for any more, and that
\* cost a message.
Lost ==
    {k \in DOMAIN queue :
        queue[k].cmd.op = "retrieve_message" /\ ~ (queue[k].mine /\ busy)}

OnWay == IF Retrieving THEN 1 ELSE 0

\* Messages that left the module and will not be got are those of failed calls.
MissInv ==
    /\ resets \in Nat /\ missed \in Nat
    /\ resets = 0 => Handed + Cardinality(Lost) <= Len(received) + missed + OnWay

LEMMA PlacesAreFinite ==
    ASSUME NEW q, Sequence(q), NEW S \in SUBSET DOMAIN q
    PROVE  S \subseteq Nat /\ IsFiniteSet(S) /\ Cardinality(S) \in Nat
<1>1. DOMAIN q = 1 .. Len(q) /\ Len(q) \in Nat
  BY SequenceIs
<1>2. IsFiniteSet(1 .. Len(q))
  BY <1>1, FS_Interval
<1>3. S \in SUBSET (1 .. Len(q))
  BY <1>1
<1>4. IsFiniteSet(S)
  BY <1>2, <1>3, FS_Subset
<1> QED
  BY <1>1, <1>3, <1>4, FS_CardinalityType

\* Numbers that are each one less than a number of another set are no more.
LEMMA MovedUp ==
    ASSUME NEW S, S \subseteq Nat, NEW T, IsFiniteSet(T), \A k \in S : k + 1 \in T
    PROVE  IsFiniteSet(S) /\ Cardinality(S) <= Cardinality(T)
<1> DEFINE f == [k \in S |-> k + 1]
<1>1. f \in [S -> T] /\ \A k \in S : f[k] = k + 1
  OBVIOUS
<1> HIDE DEF f
<1>2. \A k, l \in S : f[k] = f[l] => k = l
  BY <1>1
<1>3. f \in Injection(S, T)
  BY <1>1, <1>2 DEF Injection, IsInjective
<1> QED
  BY <1>3, FS_Injection

LEMMA MissInit == Init => MissInv
<1> SUFFICES ASSUME Init PROVE MissInv
  OBVIOUS
<1>1. /\ resets = 0 /\ missed = 0 /\ arrived = 0 /\ inbox = <<>> /\ received = <<>>
      /\ queue = <<>> /\ busy = FALSE
  BY DEF Init, Channel!Init
<1>2. Lost = {}
  BY <1>1, EmptySequence DEF Lost
<1>3. Len(received) = 0 /\ Len(inbox) = 0
  BY <1>1, EmptySequence
<1>4. Handed = 0
  <2>1. \A a, n : a = 0 /\ n = 0 => a - n = 0
    OBVIOUS
  <2> QED
    BY <1>1, <1>3, <2>1, Zenon DEF Handed
<1>5. OnWay = 0
  BY <1>1 DEF OnWay, Retrieving, Answered
<1>6. Cardinality(Lost) = 0
  BY <1>2, FS_EmptySet
<1> QED
  BY <1>1, <1>3, <1>4, <1>5, <1>6 DEF MissInv

\* A message is handed over to the call that runs, or to nobody.
LEMMA MissExecutes ==
    ASSUME QueueInv, QueueInv', MessageInv, MissInv, Executes
    PROVE  MissInv'
<1> DEFINE c == Head(queue).cmd
           gone == c.op = "retrieve_message"
<1>1. /\ UNCHANGED <<todo, busy, arrived, received, missed>>
      /\ 1 \in DOMAIN queue /\ Head(queue) = queue[1]
      /\ Head(queue).mine => queue' = <<>> /\ ~ reply.given
      /\ Head(queue).mine /\ busy => c = Head(todo).cmd
      /\ reply' = reply \/ (Head(queue).mine /\ reply'.given)
      /\ \A k \in DOMAIN queue' :
            k \in Nat /\ k + 1 \in DOMAIN queue /\ queue'[k] = queue[k + 1]
  BY Taking, NextToTake DEF QueueInv, hostVars, appHistory
<1>2. /\ Lost \subseteq Nat /\ IsFiniteSet(Lost) /\ Cardinality(Lost) \in Nat
      /\ Lost' \subseteq Nat /\ IsFiniteSet(Lost') /\ Cardinality(Lost') \in Nat
  <2>1. Sequence(queue) /\ Sequence(queue')
    BY DEF QueueInv
  <2>2. Lost \in SUBSET DOMAIN queue /\ Lost' \in SUBSET DOMAIN queue'
    BY DEF Lost
  <2> QED
    BY <2>1, <2>2, PlacesAreFinite
<1>3. /\ arrived \in Nat /\ Len(inbox) \in Nat /\ Len(received) \in Nat
      /\ DOMAIN inbox = 1 .. Len(inbox) /\ Sequence(inbox) /\ missed \in Nat
      /\ resets \in Nat
  BY SequenceIs DEF MessageInv, MissInv
<1>4. \/ inbox' = inbox /\ resets' = resets
      \/ resets' = resets + 1
      \/ /\ gone /\ inbox # <<>> /\ inbox' = Tail(inbox) /\ resets' = resets
         /\ Head(queue).mine => reply' = Channel!Acked(Head(inbox))
  BY DEF Executes, Nack, Drops, Store, Load, Keep, ReadFlags, HandOver,
     QueueUplink, Obey, ResetMcu, Reboots, Answer, Channel!Execute, Channel!Drop,
     moduleVars
<1>5. resets' \in Nat /\ missed' \in Nat
  BY <1>1, <1>3, <1>4
<1>6. ASSUME resets' = 0
      PROVE  /\ resets = 0
             /\ \/ inbox' = inbox /\ Handed' = Handed
                \/ /\ gone /\ Handed' = Handed + 1
                   /\ Head(queue).mine => reply' = Channel!Acked(Head(inbox))
  <2>1. CASE inbox' = inbox /\ resets' = resets
    BY <1>1, <1>6, <2>1 DEF Handed
  <2>2. CASE resets' = resets + 1
    BY <1>3, <1>6, <2>2
  <2>3. CASE /\ gone /\ inbox # <<>> /\ inbox' = Tail(inbox) /\ resets' = resets
             /\ Head(queue).mine => reply' = Channel!Acked(Head(inbox))
    <3>1. Len(inbox') = Len(inbox) - 1
      BY <1>3, <2>3, TailOf
    <3>2. Handed' = Handed + 1
      BY <1>1, <1>3, <3>1 DEF Handed
    <3> QED
      BY <1>6, <2>3, <3>2
  <2> QED
    BY <1>4, <2>1, <2>2, <2>3
<1>7. Handed \in Int /\ OnWay \in {0, 1} /\ OnWay' \in {0, 1}
  BY <1>3 DEF Handed, OnWay
<1>8. ASSUME resets' = 0
      PROVE  Handed' + Cardinality(Lost') <= Len(received') + missed' + OnWay'
  <2>1. Handed + Cardinality(Lost) <= Len(received) + missed + OnWay
    BY <1>6, <1>8 DEF MissInv
  <2>2. CASE Head(queue).mine /\ busy
    <3>1. Lost' = {}
      BY <1>1, <2>2, EmptySequence DEF Lost
    <3>2. Cardinality(Lost') = 0
      BY <3>1, FS_EmptySet
    <3>3. OnWay = 0
      BY <1>1, <2>2 DEF OnWay, Retrieving, Answered
    <3>4. CASE Handed' = Handed
      BY <1>1, <1>2, <1>3, <1>7, <2>1, <3>2, <3>3, <3>4
    <3>5. CASE gone /\ Handed' = Handed + 1 /\ reply' = Channel!Acked(Head(inbox))
      <4>1. OnWay' = 1
        BY <1>1, <2>2, <3>5 DEF OnWay, Retrieving, Answered, Channel!Acked
      <4> QED
        BY <1>1, <1>2, <1>3, <1>7, <2>1, <3>2, <3>3, <3>5, <4>1
    <3> QED
      BY <1>6, <1>8, <2>2, <3>4, <3>5
  <2>3. CASE ~ (Head(queue).mine /\ busy)
    <3>1. OnWay' = OnWay
      BY <1>1, <2>3 DEF OnWay, Retrieving, Answered
    <3>2. ASSUME NEW k \in Lost'
          PROVE  k + 1 \in Lost /\ k + 1 # 1
      <4>1. /\ k \in DOMAIN queue' /\ queue'[k].cmd.op = "retrieve_message"
            /\ ~ (queue'[k].mine /\ busy')
        BY <3>2 DEF Lost
      <4>2. k \in Nat /\ k + 1 \in DOMAIN queue /\ queue'[k] = queue[k + 1]
        BY <1>1, <4>1
      <4>3. k + 1 \in Lost
        BY <1>1, <4>1, <4>2 DEF Lost
      <4>4. k \in 1 .. Len(queue')
        BY <4>1, SequenceIs DEF QueueInv
      <4>5. k + 1 # 1
        BY <4>2, <4>4
      <4> QED
        BY <4>3, <4>5
    <3>3. CASE Handed' = Handed
      <4>1. Cardinality(Lost') <= Cardinality(Lost)
        BY <1>2, <3>2, MovedUp
      <4> QED
        BY <1>1, <1>2, <1>3, <1>7, <2>1, <3>1, <3>3, <4>1
    <3>4. CASE gone /\ Handed' = Handed + 1
      <4>1. 1 \in Lost
        BY <1>1, <2>3, <3>4 DEF Lost
      <4>2. /\ IsFiniteSet(Lost \ {1})
            /\ Cardinality(Lost \ {1}) = Cardinality(Lost) - 1
        BY <1>2, <4>1, FS_RemoveElement
      <4>3. \A k \in Lost' : k + 1 \in Lost \ {1}
        BY <3>2
      <4>4. Cardinality(Lost') <= Cardinality(Lost) - 1
        BY <1>2, <4>2, <4>3, MovedUp
      <4> QED
        BY <1>1, <1>2, <1>3, <1>7, <2>1, <3>1, <3>4, <4>4
    <3> QED
      BY <1>6, <1>8, <3>3, <3>4
  <2> QED
    BY <2>2, <2>3
<1> QED
  BY <1>5, <1>8 DEF MissInv

LEMMA MissStep ==
    ASSUME CallInv, QueueInv, QueueInv', MessageInv, MissInv, [Next]_vars
    PROVE  MissInv'
<1>1. /\ Lost \subseteq Nat /\ IsFiniteSet(Lost) /\ Cardinality(Lost) \in Nat
      /\ IsFiniteSet(Lost') /\ Cardinality(Lost') \in Nat
  <2>1. Sequence(queue) /\ Sequence(queue')
    BY DEF QueueInv
  <2>2. Lost \in SUBSET DOMAIN queue /\ Lost' \in SUBSET DOMAIN queue'
    BY DEF Lost
  <2> QED
    BY <2>1, <2>2, PlacesAreFinite
<1>2. /\ arrived \in Nat /\ Len(inbox) \in Nat /\ Len(received) \in Nat
      /\ Handed \in Int /\ missed \in Nat /\ resets \in Nat
      /\ Sequence(inbox) /\ Sequence(received)
  BY SequenceIs DEF MessageInv, MissInv, Handed
<1>3. OnWay \in {0, 1} /\ OnWay' \in {0, 1} /\ (~ busy => OnWay = 0)
  BY DEF OnWay, Retrieving, Answered
<1>4. ASSUME UNCHANGED <<resets, missed, received>>, Handed' = Handed,
             Lost' \subseteq Lost, OnWay' = OnWay
      PROVE  MissInv'
  <2>1. Cardinality(Lost') <= Cardinality(Lost)
    BY <1>1, <1>4, FS_Subset
  <2>2. ASSUME resets = 0
        PROVE  Handed' + Cardinality(Lost') <= Len(received') + missed' + OnWay'
    <3>1. Handed + Cardinality(Lost) <= Len(received) + missed + OnWay
      BY <2>2 DEF MissInv
    <3>2. Handed + Cardinality(Lost') <= Len(received) + missed + OnWay
      BY <1>1, <1>2, <1>3, <2>1, <3>1
    <3> QED
      BY <1>4, <3>2
  <2> QED
    BY <1>2, <1>4, <2>2 DEF MissInv
<1>5. ASSUME UNCHANGED <<resets, missed, received, inbox, arrived, queue, busy>>,
             ~ busy \/ UNCHANGED <<reply, todo>>
      PROVE  MissInv'
  <2>1. Handed' = Handed /\ Lost' = Lost
    BY <1>5 DEF Handed, Lost
  <2>2. OnWay' = OnWay
    BY <1>5 DEF OnWay, Retrieving, Answered
  <2> QED
    BY <1>4, <1>5, <2>1, <2>2
<1>6. ASSUME NEW c \in api.calls, Begin(c)
      PROVE  MissInv'
  <2>1. ~ busy /\ UNCHANGED <<channelVars, moduleVars, received, missed, moduleHistory>>
    BY <1>6 DEF Begin, CallInv
  <2> QED
    BY <1>5, <2>1 DEF channelVars, moduleVars, moduleHistory
<1>7. CASE Send
  <2>1. /\ ~ busy /\ busy' /\ ~ reply'.given
        /\ UNCHANGED <<moduleVars, appHistory, moduleHistory>>
        /\ \A k \in DOMAIN queue' :
              \/ /\ k \in DOMAIN queue
                 /\ queue'[k].cmd = queue[k].cmd /\ ~ queue'[k].mine
              \/ queue'[k].mine
    BY <1>7, Sending DEF QueueInv
  <2>2. Lost' \subseteq Lost
    BY <2>1 DEF Lost
  <2>3. OnWay = 0 /\ OnWay' = 0 /\ Handed' = Handed
    BY <1>3, <2>1 DEF OnWay, Retrieving, Answered, Handed, moduleVars, moduleHistory
  <2> QED
    BY <1>4, <2>1, <2>2, <2>3 DEF appHistory, moduleHistory
<1>8. CASE Refused
  <2>1. ~ busy /\ UNCHANGED <<channelVars, moduleVars, received, missed, moduleHistory>>
    BY <1>8 DEF Refused
  <2> QED
    BY <1>5, <2>1 DEF channelVars, moduleVars, moduleHistory
<1>9. ASSUME NEW e, Fails(e)
      PROVE  MissInv'
  <2> DEFINE w == IF Head(todo).cmd.op = "retrieve_message" THEN 1 ELSE 0
  <2>1. /\ busy /\ busy' = FALSE /\ missed' = missed + w
        /\ UNCHANGED <<queue, reply, received, inbox, arrived, resets>>
    BY <1>9 DEF Fails, Misses, Channel!Fail, moduleVars, moduleHistory
  <2>2. w \in {0, 1} /\ OnWay' = 0 /\ Handed' = Handed /\ OnWay <= w
    BY <2>1 DEF OnWay, Retrieving, Answered, Handed
  <2>3. ASSUME NEW k \in Lost', k \notin Lost
        PROVE  k = Len(queue) /\ OnWay = 0 /\ w = 1
    <3>1. k \in DOMAIN queue /\ queue[k].mine /\ queue[k].cmd.op = "retrieve_message"
      BY <2>1, <2>3 DEF Lost
    <3>2. k = Len(queue) /\ ~ reply.given /\ queue[k].cmd = Head(todo).cmd
      BY <2>1, <3>1 DEF QueueInv
    <3> QED
      BY <3>1, <3>2 DEF OnWay, Retrieving, Answered
  <2> HIDE DEF w
  <2>4. Cardinality(Lost') + OnWay <= Cardinality(Lost) + w
    <3>1. CASE Lost' \subseteq Lost
      <4>1. Cardinality(Lost') <= Cardinality(Lost)
        BY <1>1, <3>1, FS_Subset
      <4> QED
        BY <1>1, <1>3, <2>2, <4>1
    <3>2. CASE ~ (Lost' \subseteq Lost)
      <4>1. Lost' \subseteq Lost \cup {Len(queue)} /\ OnWay = 0 /\ w = 1
        BY <2>3, <3>2
      <4>2. /\ IsFiniteSet(Lost \cup {Len(queue)})
            /\ Cardinality(Lost \cup {Len(queue)}) <= Cardinality(Lost) + 1
            /\ Cardinality(Lost \cup {Len(queue)}) \in Nat
        <5>1. /\ IsFiniteSet(Lost \cup {Len(queue)})
              /\ \/ Cardinality(Lost \cup {Len(queue)}) = Cardinality(Lost)
                 \/ Cardinality(Lost \cup {Len(queue)}) = Cardinality(Lost) + 1
          BY <1>1, FS_AddElement
        <5> QED
          BY <1>1, <5>1
      <4>3. Cardinality(Lost') <= Cardinality(Lost \cup {Len(queue)})
        BY <4>1, <4>2, FS_Subset
      <4> QED
        BY <1>1, <4>1, <4>2, <4>3
    <3> QED
      BY <3>1, <3>2
  <2>5. ASSUME resets = 0
        PROVE  Handed' + Cardinality(Lost') <= Len(received') + missed' + OnWay'
    <3>1. Handed + Cardinality(Lost) <= Len(received) + missed + OnWay
      BY <2>5 DEF MissInv
    <3>2. Handed + Cardinality(Lost') <= Len(received) + (missed + w) + 0
      BY <1>1, <1>2, <1>3, <2>2, <2>4, <3>1
    <3> QED
      BY <2>1, <2>2, <3>2
  <2>6. missed' \in Nat
    BY <1>2, <2>1, <2>2
  <2> QED
    BY <1>2, <2>1, <2>5, <2>6 DEF MissInv
<1>10. CASE Succeeds
  <2>1. /\ Answered /\ busy' = FALSE
        /\ UNCHANGED <<queue, missed, inbox, arrived, resets>>
        /\ received' = IF Head(todo).cmd.op = "retrieve_message"
                       THEN Append(received, Message(reply.data)) ELSE received
    BY <1>10 DEF Succeeds, Channel!Succeed, Answered, moduleVars, moduleHistory
  <2>2. queue = <<>>
    BY <2>1 DEF QueueInv, Answered
  <2>3. Lost' = Lost
    BY <2>1, <2>2, EmptySequence DEF Lost
  <2>4. Handed' = Handed /\ OnWay' = 0 /\ Len(received') = Len(received) + OnWay
    <3>1. Len(Append(received, Message(reply.data))) = Len(received) + 1
      BY <1>2, AppendTo
    <3>2. Len(received') = Len(received) + OnWay
      BY <1>2, <2>1, <3>1 DEF OnWay, Retrieving
    <3> QED
      BY <2>1, <3>2 DEF Handed, OnWay, Retrieving, Answered
  <2>5. ASSUME resets = 0
        PROVE  Handed' + Cardinality(Lost') <= Len(received') + missed' + OnWay'
    <3>1. Handed + Cardinality(Lost) <= Len(received) + missed + OnWay
      BY <2>5 DEF MissInv
    <3>2. Handed + Cardinality(Lost) <= (Len(received) + OnWay) + missed + 0
      BY <1>1, <1>2, <1>3, <3>1
    <3> QED
      BY <2>1, <2>3, <2>4, <3>2
  <2> QED
    BY <1>2, <2>1, <2>5 DEF MissInv
<1>11. CASE TtyClose \/ (\E rate \in {"default", "other"} : TtyOpen(rate))
  <2>1. Idle /\ \E r : TtyReturns(r)
    BY <1>11 DEF TtyClose, TtyOpen
  <2>2. ~ busy /\ UNCHANGED <<channelVars, moduleVars, received, missed, moduleHistory>>
    BY <2>1 DEF TtyReturns, CallInv
  <2> QED
    BY <1>5, <2>2 DEF channelVars, moduleVars, moduleHistory
<1>12. CASE ModuleReset
  <2>1. resets' = resets + 1 /\ missed' = missed
    BY <1>12 DEF ModuleReset, Event, Reboots, appHistory
  <2> QED
    BY <1>2, <2>1 DEF MissInv
<1>13. CASE Arrive
  <2>1. /\ arrived' = arrived + 1 /\ \E e : inbox' = Append(inbox, e)
        /\ UNCHANGED <<queue, busy, reply, todo, received, missed, resets>>
    BY <1>13 DEF Arrive, Event, hostVars, channelVars, appHistory
  <2>2. Len(inbox') = Len(inbox) + 1
    BY <1>2, <2>1, AppendTo
  <2>3. Handed' = Handed
    BY <1>2, <2>1, <2>2 DEF Handed
  <2>4. Lost' = Lost /\ OnWay' = OnWay
    BY <2>1 DEF Lost, OnWay, Retrieving, Answered
  <2> QED
    BY <1>4, <2>1, <2>3, <2>4
<1>14. ASSUME NEW flag, Raise(flag)
       PROVE  MissInv'
  BY <1>5, <1>14 DEF Raise, Event, hostVars, channelVars, appHistory
<1>15. CASE UNCHANGED vars
  BY <1>5, <1>15 DEF vars, hostVars, channelVars, moduleVars, appHistory, moduleHistory
<1> QED
  BY <1>6, <1>7, <1>8, <1>9, <1>10, <1>11, <1>12, <1>13, <1>14, <1>15, MissExecutes
  DEF Next

\* MessagesOnceInOrder: ll_retrieve_message hands over the module's messages each
\* once and in order, and as they are if their bytes fit the byte their number is
\* cut to; as long as the module has not reset no more of them are missing than
\* calls of it failed. It needs so few messages that their signal strengths
\* differ.
THEOREM MessagesAreKept ==
    ASSUME FewMessages
    PROVE  Spec => []MessagesOnceInOrder
<1>1. CallInv /\ QueueInv /\ MessageInv /\ MissInv => MessagesOnceInOrder
  <2> SUFFICES ASSUME CallInv, QueueInv, MessageInv, MissInv
               PROVE  MessagesOnceInOrder
    OBVIOUS
  <2>1. DOMAIN received = 1 .. Len(received) /\ Len(received) \in Nat
    BY SequenceIs DEF MessageInv
  <2>2. ASSUME NEW k \in DOMAIN received
        PROVE  /\ Faithful(received[k])
               /\ k > 1 => received[k - 1].port < received[k].port
    <3>1. k > 1 => k - 1 \in DOMAIN received /\ k - 1 < k
      BY <2>1
    <3> QED
      BY <3>1 DEF MessageInv
  <2>3. ASSUME Idle, resets = 0
        PROVE  arrived - Len(inbox) - Len(received) <= missed
    <3>1. OnWay = 0
      BY <2>3 DEF CallInv, OnWay, Retrieving, Answered
    <3>2. Handed + Cardinality(Lost) <= Len(received) + missed + OnWay
      BY <2>3 DEF MissInv
    <3>3. Cardinality(Lost) \in Nat /\ Handed \in Int /\ missed \in Nat
      <4>1. Sequence(queue) /\ Lost \in SUBSET DOMAIN queue
        BY DEF QueueInv, Lost
      <4>2. Len(inbox) \in Nat /\ arrived \in Nat /\ missed \in Nat
        BY SequenceIs DEF MessageInv, MissInv
      <4> QED
        BY <4>1, <4>2, PlacesAreFinite DEF Handed
    <3>4. Handed - Len(received) <= missed
      BY <2>1, <3>1, <3>2, <3>3
    <3> QED
      BY <3>4 DEF Handed
  <2> QED
    BY <2>2, <2>3 DEF MessagesOnceInOrder, Faithful
<1>2. FewMessages
  OBVIOUS
<1>3. Init => MessageInv
  BY <1>2, MessageInit
<1>4. CallInv /\ StandsInv /\ QueueInv /\ MessageInv /\ [Next]_vars => MessageInv'
  BY <1>2, MessageStep
<1>5. CallInv /\ QueueInv /\ QueueInv' /\ MessageInv /\ MissInv /\ [Next]_vars => MissInv'
  BY MissStep
<1> QED
  BY AlwaysOfCall, StandsInit, StandsStep, QueueInit, QueueStep, MissInit, <1>1, <1>3,
     <1>4, <1>5, PTL DEF Spec

-----------------------------------------------------------------------------
(* What the application believes *)

\* The items a command writes.
CmdWrites(m) ==
    CASE m.op = "set" -> IF m.field = "radio" THEN m.mask ELSE {m.field}
      [] m.op = "restore_defaults" -> RestoredItems
      [] OTHER -> {}

\* The module has reset, and the application knows or will know of it.
Signalled == "RESET" \in irq \cup given_up \cup OnTheWay

Writing(x) == ~ Idle /\ x \in Writes(call)

\* The running call has not sent a command yet.
Fresh == ~ busy /\ (call[1] = "config_set" => Len(todo) = 4)

\* The running call has set x for certain.
Certain(x) ==
    \/ call[1] = "config_set" /\ \E i \in 1 .. 4 - Len(todo) : x = ConfigFields[i]
    \/ Answered /\ x \in CmdWrites(Head(todo).cmd)

\* What the module itself is keeps.
FactsInv ==
    /\ \A x \in ReadOnly : belief[x] = Defaults[x] /\ got[x] \in {Unknown, Defaults[x]}
    /\ Answered /\ Head(todo).cmd.op = "get" /\ Head(todo).cmd.field \in ReadOnly =>
           reply.data = DefaultBytes[Head(todo).cmd.field]

\* Of what a waiting command writes nothing is believed, unless it is the running
\* call's; and such is each one that waits after the first of ll_config_set.
WaitInv ==
    /\ \A k \in DOMAIN queue : \A x \in CmdWrites(queue[k].cmd) :
          belief[x] = Unknown \/ (busy /\ queue[k].mine)
    /\ ~ Idle /\ call[1] = "config_set" /\ Len(todo) < 4 =>
          \A k \in DOMAIN queue : busy /\ queue[k].mine
    /\ busy => Head(todo).ok
    /\ \A x \in Items : got[x] # Unknown => Idle \/ Writes(call) = {}

ValueInv ==
    ~ Signalled =>
        /\ \A x \in Items :
              /\ ~ Writing(x) \/ Fresh =>
                     (belief[x] # Unknown => Read(settings, x) = belief[x])
              /\ Writing(x) /\ Certain(x) =>
                     (Written(call, x) # Unknown => Read(settings, x) = Written(call, x))
              /\ got[x] # Unknown /\ belief[x] # Unknown => got[x] = belief[x]
        /\ Answered /\ Head(todo).cmd.op = "get" =>
               reply.data = settings[Head(todo).cmd.field]

LEMMA ItemsAre ==
    /\ ReadOnly \subseteq Items /\ ReadOnly \subseteq Fields \ {"radio"}
    /\ RadioParams \subseteq Items /\ RadioParams \cap (Fields \cup ReadOnly) = {}
    /\ Items \subseteq Fields \cup RadioParams /\ "radio" \notin Items
    /\ "radio" \in Fields
  BY DEF Items, ReadOnly, Fields, ToSet, ConfigFields, NetworkFields, InterfaceFields,
     RadioFields, RadioParams

LEMMA RestoredItemsAre ==
    /\ RestoredItems \subseteq Items \ ReadOnly
    /\ \A x \in Items \ RestoredItems :
          /\ x \in RadioParams => "radio" \notin Restored
          /\ x \notin RadioParams => x \notin Restored
<1>1. ASSUME NEW f \in Restored
      PROVE  ItemsOf(f) \subseteq Items \ ReadOnly
  <2>1. f \in Fields \ ReadOnly
    BY FlashFieldsAre
  <2>2. CASE f = "radio"
    BY <2>2, ItemsAre DEF ItemsOf
  <2>3. CASE f # "radio"
    BY <2>1, <2>3 DEF ItemsOf, Items
  <2> QED
    BY <2>2, <2>3
<1>2. RestoredItems \subseteq Items \ ReadOnly
  BY <1>1 DEF RestoredItems
<1>3. ASSUME NEW x \in Items \ RestoredItems
      PROVE  \A f \in Restored : x \notin ItemsOf(f)
  BY <1>3 DEF RestoredItems
<1>4. ASSUME NEW x \in Items \ RestoredItems, x \in RadioParams
      PROVE  "radio" \notin Restored
  <2>1. ItemsOf("radio") = RadioParams
    BY DEF ItemsOf
  <2> QED
    BY <1>3, <1>4, <2>1
<1>5. ASSUME NEW x \in Items \ RestoredItems, x \notin RadioParams
      PROVE  x \notin Restored
  <2>1. x \in ItemsOf(x)
    BY ItemsAre DEF ItemsOf
  <2> QED
    BY <1>3, <2>1
<1> QED
  BY <1>2, <1>4, <1>5

\* Reading what was written: the item x of a module with the settings s.
LEMMA ItemIsRead ==
    ASSUME NEW s, NEW x \in Items
    PROVE  /\ x \in RadioParams => Read(s, x) = Radio(UnpackRadio(s["radio"]))[x]
           /\ x \notin RadioParams => x \in Fields /\ Read(s, x) = Decode(x, s[x])
<1>1. x \notin RadioParams => x \in Fields /\ x # "radio"
  BY ItemsAre
<1> QED
  BY <1>1 DEF Read, Part, Decode

\* What ll_restore_defaults does not restore reads as before.
LEMMA RestoredIsRead ==
    ASSUME NEW s, NEW t, NEW x \in Items \ RestoredItems
    PROVE  Read(With(s, Restored, t), x) = Read(s, x)
<1>1. CASE x \in RadioParams
  <2>1. With(s, Restored, t)["radio"] = s["radio"]
    BY <1>1, ItemsAre, RestoredItemsAre DEF With
  <2> QED
    BY <1>1, <2>1, ItemIsRead
<1>2. CASE x \notin RadioParams
  <2>1. x \in Fields
    BY <1>2, ItemIsRead
  <2>2. With(s, Restored, t)[x] = s[x]
    BY <1>2, <2>1, RestoredItemsAre DEF With
  <2> QED
    BY <1>2, <2>2, ItemIsRead
<1> QED
  BY <1>1, <1>2

LEMMA FactsAreRead ==
    ASSUME NEW s, Stored(s), NEW x \in ReadOnly
    PROVE  Read(s, x) = Defaults[x] /\ Decode(x, DefaultBytes[x]) = Defaults[x]
<1>1. x \in Items /\ x \in Fields /\ x # "radio" /\ x \notin RadioParams
  BY ItemsAre
<1>2. Typed(x, Defaults[x]) /\ Accepts(x, Defaults[x])
  BY <1>1, CommandsAssumption
<1>3. Decode(x, Encode(x, Defaults[x])) = Defaults[x]
  BY <1>1, <1>2, GettersUndoSetters DEF AsRead
<1>4. s[x] = DefaultBytes[x] /\ DefaultBytes[x] = Encode(x, Defaults[x])
  BY <1>1 DEF Stored, DefaultBytes
<1> QED
  BY <1>1, <1>3, <1>4, ItemIsRead

\* A setter changes the items it writes, to what its getter makes of the value.
LEMMA StoreIsRead ==
    ASSUME SettingsInv, NEW m, Sound(m), Store(m), NEW x \in Items
    PROVE  /\ x \notin CmdWrites(m) => Read(settings', x) = Read(settings, x)
           /\ \A f \in Fields : \A v :
                 /\ x \in CmdWrites(m)
                 /\ Typed(f, v) /\ Accepts(f, v) /\ m.field = f /\ m.data = Encode(f, v)
                 /\ f = "radio" => m.mask = v.flags
                 => Read(settings', x) = Part(f, AsRead(f, v), x)
<1>1. /\ m.op = "set" /\ m.field \in Fields
      /\ \A f \in Fields : settings'[f] =
            IF f = m.field THEN (IF f = "radio" THEN Blend(m, settings[f]) ELSE m.data)
            ELSE settings[f]
  BY StoreKeepsStored
<1>2. CASE m.field = "radio"
  <2>1. CmdWrites(m) = m.mask /\ m.mask \subseteq RadioParams
    BY <1>1, <1>2 DEF CmdWrites, Sound, Typed
  <2>2. Bytes("radio", settings["radio"])
    BY ItemsAre DEF SettingsInv, Stored
  <2>3. \A y \in RadioParams :
           Radio(UnpackRadio(Blend(m, settings["radio"])))[y] =
               IF y \in m.mask THEN Radio(UnpackRadio(m.data))[y]
               ELSE Radio(UnpackRadio(settings["radio"]))[y]
    BY <1>1, <1>2, <2>2, BlendIsLegal
  <2>4. settings'["radio"] = Blend(m, settings["radio"])
    BY <1>1, <1>2
  <2>5. CASE x \notin RadioParams
    <3>1. x \in Fields /\ x # "radio" /\ Read(settings', x) = Decode(x, settings'[x])
          /\ Read(settings, x) = Decode(x, settings[x])
      BY <2>5, ItemIsRead, ItemsAre
    <3>2. settings'[x] = settings[x]
      BY <1>1, <1>2, <3>1
    <3> QED
      BY <2>1, <2>5, <3>1, <3>2
  <2>6. CASE x \in RadioParams
    <3>1. /\ Read(settings', x) = Radio(UnpackRadio(settings'["radio"]))[x]
          /\ Read(settings, x) = Radio(UnpackRadio(settings["radio"]))[x]
      BY <2>6, ItemIsRead
    <3>2. Read(settings', x) = IF x \in m.mask THEN Radio(UnpackRadio(m.data))[x]
                               ELSE Read(settings, x)
      BY <2>3, <2>4, <2>6, <3>1
    <3>3. ASSUME NEW v, Typed("radio", v), Accepts("radio", v),
                 m.data = Encode("radio", v), m.mask = v.flags, x \in m.mask
          PROVE  Radio(UnpackRadio(m.data))[x] = Radio(v.params)[x]
      <4>1. /\ v.flags \in SUBSET RadioParams /\ RadioTyped(v.params)
            /\ RadioAccepts(v.flags, v.params)
            /\ m.data = PackRadio(v.flags, v.params)
        BY <3>3 DEF Typed, Accepts, Encode
      <4> QED
        BY <3>3, <4>1, RadioReadsBack
    <3>4. \A f, v : f = "radio" => Part(f, AsRead(f, v), x) = Radio(v.params)[x]
      BY DEF Part, AsRead
    <3>5. \A f \in Fields : \A v :
             /\ x \in CmdWrites(m)
             /\ Typed(f, v) /\ Accepts(f, v) /\ m.field = f /\ m.data = Encode(f, v)
             /\ f = "radio" => m.mask = v.flags
             => Read(settings', x) = Part(f, AsRead(f, v), x)
      BY <1>2, <2>1, <3>2, <3>3, <3>4
    <3> QED
      BY <2>1, <3>2, <3>5
  <2> QED
    BY <2>5, <2>6
<1>3. CASE m.field # "radio"
  <2>1. CmdWrites(m) = {m.field} /\ m.field \in Fields /\ m.field \notin RadioParams
    BY <1>1, <1>3, ItemsAre DEF CmdWrites
  <2>2. x # m.field => Read(settings', x) = Read(settings, x)
    <3> SUFFICES ASSUME x # m.field PROVE Read(settings', x) = Read(settings, x)
      OBVIOUS
    <3>1. CASE x \in RadioParams
      <4>1. settings'["radio"] = settings["radio"]
        BY <1>1, <1>3, ItemsAre
      <4> QED
        BY <3>1, <4>1, ItemIsRead
    <3>2. CASE x \notin RadioParams
      <4>1. x \in Fields
        BY <3>2, ItemIsRead
      <4>2. settings'[x] = settings[x]
        BY <1>1, <4>1
      <4> QED
        BY <3>2, <4>2, ItemIsRead
    <3> QED
      BY <3>1, <3>2
  <2>3. ASSUME NEW v, x = m.field, Typed(x, v), Accepts(x, v), m.data = Encode(x, v)
        PROVE  Read(settings', x) = Part(x, AsRead(x, v), x)
    <3>1. settings'[x] = Encode(x, v) /\ x \in Fields /\ x # "radio"
      BY <1>1, <1>3, <2>1, <2>3
    <3>2. Decode(x, Encode(x, v)) = AsRead(x, v)
      BY <2>3, <3>1, GettersUndoSetters
    <3>3. Read(settings', x) = Decode(x, settings'[x])
      BY <2>1, <2>3, ItemIsRead
    <3> QED
      BY <3>1, <3>2, <3>3 DEF Part
  <2> QED
    BY <2>1, <2>2, <2>3
<1> QED
  BY <1>2, <1>3

LEMMA WritesAre ==
    ASSUME NEW c, IsCall(c), c[1] \in Made
    PROVE  /\ Writes(c) \subseteq Items \ ReadOnly
           /\ c[1] = "set" => Writes(c) = IF c[2] = "radio" THEN c[3].flags ELSE {c[2]}
           /\ c[1] = "config_set" => Writes(c) = {ConfigFields[i] : i \in 1 .. 4}
           /\ c[1] \notin {"set", "config_set", "plain"} => Writes(c) = {}
           /\ c[1] = "plain" =>
                 Writes(c) = IF c[2] = "restore_defaults" THEN RestoredItems ELSE {}
<1>1. CASE c[1] = "set"
  <2>1. c[2] \in Fields \ ReadOnly /\ Typed(c[2], c[3])
    BY <1>1 DEF IsCall
  <2>2. Writes(c) = IF c[2] = "radio" THEN c[3].flags ELSE {c[2]}
    BY <1>1 DEF Writes
  <2>3. CASE c[2] = "radio"
    BY <1>1, <2>1, <2>2, <2>3, ItemsAre DEF Typed
  <2>4. CASE c[2] # "radio"
    BY <1>1, <2>1, <2>2, <2>4 DEF Items
  <2> QED
    BY <2>3, <2>4
<1>2. CASE c[1] = "config_set"
  <2>1. Writes(c) = {ConfigFields[i] : i \in 1 .. 4}
    BY <1>2, ConfigFieldsAre DEF Writes, Range
  <2>2. \A i \in 1 .. 4 : ConfigFields[i] \in Items \ ReadOnly
    BY ConfigFieldsAre DEF Items, ReadOnly, ConfigFields
  <2> QED
    BY <1>2, <2>1, <2>2
<1>3. CASE c[1] \notin {"set", "config_set"}
  BY <1>3, RestoredItemsAre DEF Writes, Made
<1> QED
  BY <1>1, <1>2, <1>3

LEMMA ConfigWritten ==
    ASSUME NEW c, c[1] = "config_set", NEW i \in 1 .. 4
    PROVE  Written(c, ConfigFields[i]) = c[2][i]
<1> DEFINE j == CHOOSE k \in DOMAIN ConfigFields : ConfigFields[k] = ConfigFields[i]
<1>1. j = i
  BY ConfigFieldsAre
<1>2. Written(c, ConfigFields[i]) = c[2][j]
  BY DEF Written
<1> QED
  BY <1>1, <1>2

\* What the next command writes of what the call writes.
LEMMA NextWrites ==
    ASSUME CallInv, StandsInv, ~ Idle
    PROVE  LET m == Head(todo).cmd IN
           /\ CmdWrites(m) \subseteq Writes(call)
           /\ call[1] = "config_set" =>
                 Len(todo) \in 1 .. 4 /\ CmdWrites(m) = {ConfigFields[5 - Len(todo)]}
           /\ call[1] # "config_set" => CmdWrites(m) = Writes(call)
           /\ call[1] # "config_set" /\ Writes(call) # {} => Len(todo) = 1
           /\ m.op = "irq_flags" => Len(todo) = 1
           /\ m.op \in {"get", "irq_flags"} => Writes(call) = {}
           /\ m.op = "restore_defaults" => \A x : Written(call, x) = Unknown
           /\ call[1] = "plain" => \A x : Written(call, x) = Unknown
<1> DEFINE s == todo[1]
           m == s.cmd
<1>1. /\ Head(todo) = s /\ DOMAIN todo = 1 .. Len(todo) /\ Len(todo) \in Nat
      /\ Len(todo) > 0 /\ 1 \in DOMAIN todo
      /\ IsCall(call) /\ call[1] \in Made /\ StepsLeft(todo, call)
      /\ OfCall(m, call)
  BY NextStepStands, NextStepIsOfCall DEF StandsInv
<1>2. /\ Writes(call) \subseteq Items \ ReadOnly
      /\ call[1] = "set" =>
            Writes(call) = IF call[2] = "radio" THEN call[3].flags ELSE {call[2]}
      /\ call[1] = "config_set" => Writes(call) = {ConfigFields[i] : i \in 1 .. 4}
      /\ call[1] \notin {"set", "config_set", "plain"} => Writes(call) = {}
      /\ call[1] = "plain" => Writes(call) = IF call[2] = "restore_defaults"
                                             THEN RestoredItems ELSE {}
  BY <1>1, WritesAre
<1>3. \A x : call[1] = "plain" => Written(call, x) = Unknown
  BY DEF Written
<1>4. "set" \notin Keepers /\ "get" \notin Keepers /\ "irq_flags" \notin Keepers
      /\ "restore_defaults" \in Keepers
  BY DEF Keepers
<1>5. CASE call[1] = "set"
  <2>1. Len(todo) = 1 /\ SetsTo(s, call[2], call[3])
    BY <1>1, <1>5 DEF StepsLeft
  <2>2. m.op = "set" /\ CmdWrites(m) = Writes(call)
    BY <1>2, <1>5, <2>1 DEF SetsTo, CmdWrites
  <2> QED
    BY <1>1, <1>4, <1>5, <2>1, <2>2
<1>6. CASE call[1] = "config_set"
  <2>1. Len(todo) \in 1 .. 4
        /\ SetsTo(s, ConfigFields[4 - Len(todo) + 1], call[2][4 - Len(todo) + 1])
    BY <1>1, <1>6 DEF StepsLeft
  <2>2. 5 - Len(todo) \in 1 .. 4 /\ 4 - Len(todo) + 1 = 5 - Len(todo)
    <3>1. \A n \in 1 .. 4 : 5 - n \in 1 .. 4 /\ 4 - n + 1 = 5 - n
      OBVIOUS
    <3> QED
      BY <2>1, <3>1
  <2>3. m.op = "set" /\ m.field = ConfigFields[5 - Len(todo)]
    BY <2>1, <2>2 DEF SetsTo
  <2>4. ConfigFields[5 - Len(todo)] # "radio"
    BY <2>2, ConfigFieldsAre
  <2>5. CmdWrites(m) = {ConfigFields[5 - Len(todo)]}
    BY <2>3, <2>4 DEF CmdWrites
  <2> QED
    BY <1>1, <1>2, <1>4, <1>6, <2>1, <2>2, <2>3, <2>5
<1>7. CASE call[1] = "plain"
  <2>1. Len(todo) = 1 /\ m.op = call[2] /\ call[2] \in Keepers
    BY <1>1, <1>7 DEF StepsLeft, IsCall, Keepers
  <2>2. CmdWrites(m) = Writes(call)
    BY <1>2, <1>4, <1>7, <2>1 DEF CmdWrites
  <2> QED
    BY <1>1, <1>3, <1>4, <1>7, <2>1, <2>2
<1>8. CASE call[1] \notin {"set", "config_set", "plain"}
  <2>1. m.op # "set" /\ m.op \notin Keepers
    BY <1>1, <1>8 DEF StepsLeft
  <2>2. CmdWrites(m) = {}
    BY <1>4, <2>1 DEF CmdWrites
  <2>3. m.op = "irq_flags" => Len(todo) = 1
    BY <1>1 DEF OfCall, StepsLeft
  <2> QED
    BY <1>1, <1>2, <1>4, <1>8, <2>1, <2>2, <2>3
<1> QED
  BY <1>5, <1>6, <1>7, <1>8

\* The next command sets what the call writes.
LEMMA NextSets ==
    ASSUME CallInv, StandsInv, ~ Idle, Head(todo).cmd.op = "set"
    PROVE  LET m == Head(todo).cmd IN
           \E f \in Fields : \E v :
              /\ Typed(f, v) /\ (Head(todo).ok => Accepts(f, v))
              /\ m.field = f /\ m.data = Encode(f, v)
              /\ f = "radio" => m.mask = v.flags
              /\ \A x \in CmdWrites(m) : Written(call, x) = Part(f, AsRead(f, v), x)
<1> DEFINE s == todo[1]
           m == s.cmd
<1>1. /\ Head(todo) = s /\ 1 \in DOMAIN todo /\ Len(todo) \in Nat
      /\ StepsLeft(todo, call)
  BY NextStepStands DEF StandsInv
<1>2. PICK f, v :
          /\ f \in Fields \ ReadOnly
          /\ Typed(f, v) /\ SetsTo(s, f, v)
          /\ call[1] = "set" => f = call[2] /\ v = call[3]
          /\ call[1] = "config_set" =>
                LET i == 4 - Len(todo) + 1
                IN  i \in 1 .. 4 /\ f = ConfigFields[i] /\ v = call[2][i]
  BY <1>1, SettersSetFields
<1>3. CmdWrites(m) = IF f = "radio" THEN v.flags ELSE {f}
  BY <1>1, <1>2 DEF SetsTo, CmdWrites
<1>4. call[1] \in {"set", "config_set"}
  BY <1>1 DEF StepsLeft
<1>5. ASSUME NEW x \in CmdWrites(m)
      PROVE  Written(call, x) = Part(f, AsRead(f, v), x)
  <2>1. CASE call[1] = "set"
    <3>1. f = call[2] /\ v = call[3]
      BY <1>2, <2>1
    <3>2. CASE f = "radio"
      BY <2>1, <3>1, <3>2 DEF Written, Part, AsRead
    <3>3. CASE f # "radio"
      BY <2>1, <3>1, <3>3 DEF Written, Part, AsRead
    <3> QED
      BY <3>2, <3>3
  <2>2. CASE call[1] = "config_set"
    <3> DEFINE i == 4 - Len(todo) + 1
    <3>1. i \in 1 .. 4 /\ f = ConfigFields[i] /\ v = call[2][i]
      BY <1>2, <2>2
    <3>2. f # "radio"
      BY <3>1, ConfigFieldsAre
    <3>3. x = f
      BY <1>3, <1>5, <3>2
    <3>4. Written(call, x) = call[2][i]
      BY <2>2, <3>1, <3>3, ConfigWritten
    <3> QED
      BY <3>1, <3>2, <3>4 DEF Part, AsRead
  <2> QED
    BY <1>4, <2>1, <2>2
<1>6. s.ok => Accepts(f, v)
  BY <1>2 DEF SetsTo
<1> QED
  BY <1>1, <1>2, <1>5, <1>6 DEF SetsTo

\* What the application learns at the end of a call.
LEMMA LearnIs ==
    ASSUME CallInv, StandsInv, ~ Idle, NEW ok, NEW seen, Learn(ok, seen)
    PROVE  /\ \A x \in Items :
                 belief'[x] = IF x \in Writes(call)
                              THEN (IF ok THEN Written(call, x) ELSE Unknown)
                              ELSE IF "RESET" \in seen /\ x \notin ReadOnly
                              THEN Unknown ELSE belief[x]
           /\ \A x \in ReadOnly : x \in Items /\ belief'[x] = belief[x]
<1>1. \A x \in Items :
         belief'[x] = IF x \in Writes(call)
                      THEN (IF ok THEN Written(call, x) ELSE Unknown)
                      ELSE IF "RESET" \in seen /\ x \notin ReadOnly
                      THEN Unknown ELSE belief[x]
  BY DEF Learn
<1>2. Writes(call) \subseteq Items \ ReadOnly
  BY WritesAre DEF StandsInv
<1> QED
  BY <1>1, <1>2, ItemsAre

\* The steps that are not part of a call or a command leave what the application
\* knows and waits for alone; the settings change only when the module resets.
LEMMA QuietSteps ==
    ASSUME [Next]_vars
    PROVE  \/ (\E c \in api.calls : Begin(c)) \/ Send \/ Refused
           \/ (\E e \in ErrorCodes : Fails(e)) \/ Succeeds \/ Executes
           \/ /\ UNCHANGED <<belief, call, todo, busy, queue, reply, given_up>>
              /\ \A x \in Items : got'[x] \in {got[x], Unknown}
              /\ irq' = {"RESET"} \/ (irq \subseteq irq' /\ settings' = settings)
<1> DEFINE Quiet ==
              /\ UNCHANGED <<belief, call, todo, busy, queue, reply, given_up>>
              /\ \A x \in Items : got'[x] \in {got[x], Unknown}
              /\ irq' = {"RESET"} \/ (irq \subseteq irq' /\ settings' = settings)
<1>1. CASE TtyClose \/ (\E rate \in {"default", "other"} : TtyOpen(rate))
  <2>1. \E r : TtyReturns(r)
    BY <1>1 DEF TtyClose, TtyOpen
  <2>2. Quiet
    BY <2>1 DEF TtyReturns, channelVars, moduleVars
  <2> QED
    BY <2>2
<1>2. CASE ModuleReset \/ Arrive \/ (\E flag \in Flags \ {"RESET"} : Raise(flag))
  <2>1. UNCHANGED <<belief, got, call, todo, busy, queue, reply, given_up>>
    BY <1>2 DEF ModuleReset, Arrive, Raise, Event, hostVars, channelVars, appHistory
  <2>2. irq' = {"RESET"} \/ (irq \subseteq irq' /\ settings' = settings)
    BY <1>2 DEF ModuleReset, Arrive, Raise, Reboots
  <2> QED
    BY <2>1, <2>2
<1>3. CASE UNCHANGED vars
  <2>1. Quiet
    BY <1>3 DEF vars, hostVars, channelVars, moduleVars, appHistory
  <2> QED
    BY <2>1
<1> QED
  BY <1>1, <1>2, <1>3 DEF Next

\* What the module answers a getter.
LEMMA AnswersGet ==
    ASSUME QueueInv, Executes, reply' # reply, reply'.nack = 0,
           Head(queue).cmd.op = "get"
    PROVE  reply'.data = settings[Head(queue).cmd.field] /\ settings' = settings
<1> DEFINE c == Head(queue).cmd
<1>1. reply' # Channel!Nacked(1)
  BY DEF Channel!Nacked
<1>2. Load(c)
  BY <1>1 DEF Executes, Nack, Drops, Store, Load, Keep, ReadFlags, HandOver,
     QueueUplink, Obey, ResetMcu, Answer, Channel!Execute, Channel!Drop
<1>3. reply' = Channel!Acked(settings[c.field]) /\ settings' = settings
  BY <1>2 DEF Load, Answer, Channel!Execute, moduleVars
<1> QED
  BY <1>3 DEF Channel!Acked

\* What ends a call with r keeps the rest.
LEMMA EndOfCall ==
    ASSUME NEW r, Returns(r)
    PROVE  Idle' /\ todo' = <<>>
  BY DEF Returns, Idle

LEMMA FactsInit == Init => FactsInv
<1> SUFFICES ASSUME Init PROVE FactsInv
  OBVIOUS
<1>1. /\ belief = [x \in Items |-> IF x \in ReadOnly THEN Defaults[x] ELSE Unknown]
      /\ got = [x \in Items |-> Unknown] /\ busy = FALSE
  BY DEF Init, Channel!Init
<1>2. ReadOnly \subseteq Items
  BY ItemsAre
<1> QED
  BY <1>1, <1>2 DEF FactsInv, Answered

LEMMA GotIs ==
    ASSUME Succeeds
    PROVE  LET m == Head(todo).cmd IN
           \A x \in Items :
              got'[x] = IF m.op = "get" /\ x \in ItemsOf(m.field)
                        THEN Part(m.field, Decode(m.field, reply.data), x) ELSE got[x]
  BY DEF Succeeds

LEMMA GotIsRead ==
    ASSUME NEW s, NEW f \in Fields, NEW x \in Items, x \in ItemsOf(f)
    PROVE  /\ Part(f, Decode(f, s[f]), x) = Read(s, x)
           /\ x \in ReadOnly => f = x /\ f # "radio"
<1>1. CASE f = "radio"
  BY <1>1, ItemsAre DEF ItemsOf, Read
<1>2. CASE f # "radio"
  <2>1. x = f /\ x \notin RadioParams
    BY <1>2, ItemsAre DEF ItemsOf
  <2> QED
    BY <1>2, <2>1 DEF Read
<1> QED
  BY <1>1, <1>2

LEMMA FactsStep ==
    CallInv /\ StandsInv /\ QueueInv /\ SettingsInv /\ FactsInv /\ [Next]_vars => FactsInv'
<1> SUFFICES ASSUME CallInv, StandsInv, QueueInv, SettingsInv, FactsInv, [Next]_vars
             PROVE  FactsInv'
  OBVIOUS
<1>1. ASSUME \A x \in ReadOnly : belief'[x] = belief[x] /\ got'[x] \in {Unknown, Defaults[x]},
             ~ Answered' \/ UNCHANGED <<busy, reply, todo>>
      PROVE  FactsInv'
  BY <1>1 DEF FactsInv, Answered
<1>2. \A x \in ReadOnly : got[x] \in {Unknown, Defaults[x]} /\ x \in Items
  BY ItemsAre DEF FactsInv
<1>3. ASSUME NEW c \in api.calls, Begin(c)
      PROVE  FactsInv'
  <2>1. ~ busy' /\ belief' = belief /\ got' = [x \in Items |-> Unknown]
    BY <1>3 DEF Begin, channelVars, CallInv
  <2> QED
    BY <1>1, <1>2, <2>1 DEF Answered
<1>4. CASE Send
  <2>1. ~ reply'.given /\ UNCHANGED <<hostVars, appHistory>>
    BY <1>4, Sending DEF QueueInv
  <2> QED
    BY <1>1, <1>2, <2>1 DEF Answered, hostVars, appHistory
<1>5. CASE Refused
  <2>1. /\ ~ Idle /\ ~ busy' /\ got' = got
        /\ belief' = belief \/ Learn(FALSE, {})
    BY <1>5 DEF Refused, channelVars
  <2>2. \A x \in ReadOnly : belief'[x] = belief[x]
    BY <2>1, LearnIs
  <2> QED
    BY <1>1, <1>2, <2>1, <2>2 DEF Answered
<1>6. ASSUME NEW e, Fails(e)
      PROVE  FactsInv'
  <2>1. ~ Idle /\ ~ busy' /\ got' = got /\ Learn(FALSE, {})
    BY <1>6 DEF Fails, Misses, Channel!Fail, CallInv
  <2>2. \A x \in ReadOnly : belief'[x] = belief[x]
    BY <2>1, LearnIs
  <2> QED
    BY <1>1, <1>2, <2>1, <2>2 DEF Answered
<1>7. CASE Succeeds
  <2> DEFINE m == Head(todo).cmd
  <2>1. /\ Answered /\ ~ Idle /\ ~ busy'
        /\ belief' = belief \/ \E seen : Learn(TRUE, seen)
    BY <1>7 DEF Succeeds, Channel!Succeed, Answered, CallInv
  <2>2. \A x \in ReadOnly : belief'[x] = belief[x]
    BY <2>1, LearnIs
  <2>3. ASSUME NEW x \in ReadOnly
        PROVE  got'[x] \in {Unknown, Defaults[x]}
    <3>1. CASE m.op = "get" /\ x \in ItemsOf(m.field)
      <4>1. got'[x] = Part(m.field, Decode(m.field, reply.data), x)
        BY <1>2, <1>7, <3>1, GotIs
      <4>2. m.field \in Fields
        BY <2>1, <3>1, NextStepStands DEF Getting
      <4>3. m.field = x /\ m.field # "radio"
        BY <1>2, <3>1, <4>2, GotIsRead
      <4>4. reply.data = DefaultBytes[x]
        BY <2>1, <3>1, <4>3 DEF FactsInv
      <4>5. Decode(x, DefaultBytes[x]) = Defaults[x]
        BY FactsAreRead DEF SettingsInv
      <4> QED
        BY <4>1, <4>3, <4>4, <4>5 DEF Part
    <3>2. CASE ~ (m.op = "get" /\ x \in ItemsOf(m.field))
      BY <1>2, <1>7, <3>2, GotIs
    <3> QED
      BY <3>1, <3>2
  <2> QED
    BY <1>1, <2>1, <2>2, <2>3 DEF Answered
<1>8. CASE Executes
  <2>1. UNCHANGED <<belief, got, todo, busy>>
    BY <1>8, Taking DEF QueueInv, hostVars, appHistory
  <2>2. ASSUME Answered', Head(todo).cmd.op = "get", Head(todo).cmd.field \in ReadOnly
        PROVE  reply'.data = DefaultBytes[Head(todo).cmd.field]
    <3>1. CASE reply' = reply
      BY <2>1, <2>2, <3>1 DEF FactsInv, Answered
    <3>2. CASE reply' # reply
      <4>1. Head(queue).mine /\ busy /\ Head(queue).cmd = Head(todo).cmd
        BY <1>8, <2>1, <2>2, <3>2, Taking, NextToTake DEF Answered, QueueInv
      <4>2. reply'.data = settings[Head(todo).cmd.field]
        BY <1>8, <2>2, <3>2, <4>1, AnswersGet DEF Answered
      <4> QED
        BY <2>2, <4>2 DEF SettingsInv, Stored
    <3> QED
      BY <3>1, <3>2
  <2> QED
    BY <1>2, <2>1, <2>2 DEF FactsInv
<1>9. CASE /\ UNCHANGED <<belief, call, todo, busy, queue, reply, given_up>>
           /\ \A x \in Items : got'[x] \in {got[x], Unknown}
  BY <1>1, <1>2, <1>9
<1> QED
  BY <1>3, <1>4, <1>5, <1>6, <1>7, <1>8, <1>9, QuietSteps

LEMMA WaitInit == Init => WaitInv
<1> SUFFICES ASSUME Init PROVE WaitInv
  OBVIOUS
<1>1. queue = <<>> /\ got = [x \in Items |-> Unknown] /\ call = NoCall /\ busy = FALSE
  BY DEF Init, Channel!Init
<1> QED
  BY <1>1, EmptySequence DEF WaitInv, Idle

LEMMA WaitStep ==
    CallInv /\ StandsInv /\ QueueInv /\ WaitInv /\ [Next]_vars => WaitInv'
<1> SUFFICES ASSUME CallInv, StandsInv, QueueInv, WaitInv, [Next]_vars
             PROVE  WaitInv'
  OBVIOUS
<1>0. \A k \in DOMAIN queue : CmdWrites(queue[k].cmd) \subseteq Items
  <2>1. ASSUME NEW m, Sound(m)
        PROVE  CmdWrites(m) \subseteq Items
    <3>1. m.op = "set" /\ m.field # "radio" => m.field \in Items
      BY <2>1 DEF Sound, Items
    <3>2. m.op = "set" /\ m.field = "radio" => m.mask \subseteq RadioParams
      BY <2>1 DEF Sound, Typed
    <3> QED
      BY <3>1, <3>2, ItemsAre, RestoredItemsAre DEF CmdWrites
  <2> QED
    BY <2>1 DEF QueueInv
\* A call that ends forgets what its commands write.
<1>1. ASSUME Idle', queue' = queue, ~ busy',
             \/ ~ busy /\ \A x \in Items : belief'[x] \in {belief[x], Unknown}
             \/ queue = <<>>
             \/ ~ Idle /\ busy /\ \A x \in Items :
                   belief'[x] = IF x \in Writes(call) THEN Unknown ELSE belief[x]
      PROVE  WaitInv'
  <2>1. ASSUME NEW k \in DOMAIN queue, NEW x \in CmdWrites(queue[k].cmd)
        PROVE  belief'[x] = Unknown
    <3>1. x \in Items /\ queue # <<>>
      BY <1>0, EmptySequence
    <3>2. CASE belief[x] = Unknown
      BY <1>1, <3>1, <3>2
    <3>3. CASE busy /\ queue[k].mine
      <4>1. queue[k].cmd = Head(todo).cmd
        BY <3>3 DEF QueueInv
      <4>2. x \in Writes(call)
        BY <3>3, <4>1, NextWrites DEF CallInv
      <4> QED
        BY <1>1, <3>1, <3>3, <4>2
    <3> QED
      BY <3>2, <3>3 DEF WaitInv
  <2> QED
    BY <1>1, <2>1 DEF WaitInv
<1>2. CASE /\ UNCHANGED <<belief, call, todo, busy, queue>>
           /\ \A x \in Items : got'[x] \in {got[x], Unknown}
  <2>1. \A x \in Items : got'[x] # Unknown => got[x] # Unknown
    BY <1>2
  <2> QED
    BY <1>2, <2>1 DEF WaitInv, Idle
<1>3. ASSUME NEW c \in api.calls, Begin(c)
      PROVE  WaitInv'
  <2>1. /\ ~ busy /\ UNCHANGED <<busy, belief, queue>> /\ call' = c /\ todo' = StepsOf(c)
        /\ got' = [x \in Items |-> Unknown]
    BY <1>3 DEF Begin, channelVars, CallInv
  <2>2. call' = c /\ c[1] = "config_set" => Len(todo') = 4
    <3>1. DOMAIN ConfigFields = 1 .. 4
      BY ConfigFieldsAre
    <3>2. c[1] = "config_set" =>
            StepsOf(c) = [k \in 1 .. 4 |-> Set(ConfigFields[k], c[2][k])]
      BY <3>1 DEF StepsOf
    <3>3. Len([k \in 1 .. 4 |-> Set(ConfigFields[k], c[2][k])]) = 4
      OBVIOUS
    <3> QED
      BY <2>1, <3>2, <3>3
  <2>3. call'[1] = "config_set" => ~ (Len(todo') < 4)
    BY <2>1, <2>2
  <2>4. \A x \in Items : got'[x] = Unknown
    BY <2>1
  <2>5. \A k \in DOMAIN queue' : \A x \in CmdWrites(queue'[k].cmd) :
           belief'[x] = Unknown \/ (busy' /\ queue'[k].mine)
    BY <2>1 DEF WaitInv
  <2> QED
    BY <2>1, <2>3, <2>4, <2>5 DEF WaitInv
<1>4. CASE Send
  <2>1. /\ ~ Idle /\ ~ busy /\ busy' /\ UNCHANGED <<hostVars, appHistory>>
        /\ \A k \in DOMAIN queue' :
              \/ k \in DOMAIN queue /\ queue'[k].cmd = queue[k].cmd
              \/ queue'[k].mine
    BY <1>4, Sending DEF QueueInv
  <2>2. ASSUME NEW k \in DOMAIN queue', NEW x \in CmdWrites(queue'[k].cmd)
        PROVE  belief'[x] = Unknown \/ (busy' /\ queue'[k].mine)
    BY <2>1, <2>2 DEF WaitInv, appHistory
  <2>3. ASSUME call[1] = "config_set", Len(todo) < 4
        PROVE  \A k \in DOMAIN queue' : queue'[k].mine
    BY <2>1, <2>3 DEF WaitInv
  <2>4. \A x \in Items : got'[x] # Unknown => Idle' \/ Writes(call') = {}
    BY <2>1 DEF WaitInv, hostVars, Idle
  <2>5. Head(todo').ok
    BY <1>4 DEF Send, Accepted, hostVars
  <2> QED
    BY <2>1, <2>2, <2>3, <2>4, <2>5 DEF WaitInv, hostVars
<1>5. CASE Refused
  <2>1. /\ ~ Idle /\ ~ busy /\ ~ busy' /\ Idle' /\ queue' = queue
        /\ belief' = belief \/ Learn(FALSE, {})
    BY <1>5, EndOfCall DEF Refused, channelVars
  <2>2. \A x \in Items : belief'[x] \in {belief[x], Unknown}
    BY <2>1, LearnIs
  <2> QED
    BY <1>1, <2>1, <2>2
<1>6. ASSUME NEW e, Fails(e)
      PROVE  WaitInv'
  <2>1. ~ Idle /\ busy /\ ~ busy' /\ Idle' /\ queue' = queue /\ Learn(FALSE, {})
    BY <1>6, EndOfCall DEF Fails, Misses, Channel!Fail, CallInv
  <2>2. \A x \in Items : belief'[x] = IF x \in Writes(call) THEN Unknown ELSE belief[x]
    BY <2>1 DEF Learn
  <2> QED
    BY <1>1, <2>1, <2>2
<1>7. CASE Succeeds
  <2>1. ~ Idle /\ Answered /\ ~ busy' /\ queue' = queue /\ queue = <<>>
    BY <1>7 DEF Succeeds, Channel!Succeed, CallInv, QueueInv, Answered
  <2>2. CASE Rest = <<>>
    <3>1. Idle'
      BY <1>7, <2>2, EndOfCall DEF Succeeds
    <3> QED
      BY <1>1, <2>1, <3>1
  <2>3. CASE Rest # <<>>
    <3>1. call' = call /\ DOMAIN queue' = {}
      BY <1>7, <2>1, <2>3, EmptySequence DEF Succeeds
    <3>2. ASSUME NEW x \in Items, got'[x] # Unknown
          PROVE  Writes(call) = {}
      <4>1. got[x] # Unknown \/ Head(todo).cmd.op = "get"
        BY <1>7, <3>2, GotIs
      <4> QED
        BY <2>1, <4>1, NextWrites DEF WaitInv
    <3> QED
      BY <2>1, <3>1, <3>2 DEF WaitInv
  <2> QED
    BY <2>2, <2>3
<1>8. CASE Executes
  <2>1. /\ UNCHANGED <<belief, got, call, todo, busy>>
        /\ \A k \in DOMAIN queue' : k + 1 \in DOMAIN queue /\ queue'[k] = queue[k + 1]
    BY <1>8, Taking DEF QueueInv, hostVars, appHistory
  <2> QED
    BY <2>1 DEF WaitInv, Idle
<1> QED
  BY <1>2, <1>3, <1>4, <1>5, <1>6, <1>7, <1>8, QuietSteps

LEMMA NoneLeft == ASSUME NEW s, Sequence(s), Len(s) = 0 PROVE s = <<>>
<1>1. PICK S : s \in Seq(S)
  BY DEF Sequence
<1> QED
  BY <1>1

\* Only a call of ll_irq_flags that succeeds hands a reset over.
LEMMA SignalStays ==
    ASSUME CallInv, StandsInv, QueueInv, FlagInv, [Next]_vars, Signalled, ~ Signalled'
    PROVE  /\ Succeeds /\ ~ Idle /\ Rest = <<>>
           /\ Head(todo).cmd.op = "irq_flags" /\ "RESET" \in reply.data[1]
<1>1. ~ busy => OnTheWay = {}
  BY DEF OnTheWay
<1>2. ASSUME ~ busy, UNCHANGED <<irq, given_up>>
      PROVE  FALSE
  BY <1>1, <1>2 DEF Signalled
<1>3. ASSUME NEW c \in api.calls, Begin(c)
      PROVE  FALSE
  BY <1>2, <1>3 DEF Begin, moduleVars, CallInv
<1>4. ~ Send
  BY <1>2, Sending DEF QueueInv, moduleVars, appHistory
<1>5. ~ Refused
  BY <1>2 DEF Refused, moduleVars
<1>6. ASSUME NEW e, Fails(e)
      PROVE  FALSE
  <2>1. /\ irq' = irq
        /\ given_up' = given_up \cup (IF call[1] = "irq_flags" THEN call[2] ELSE {})
    BY <1>6 DEF Fails, Misses, moduleVars
  <2> QED
    BY <2>1 DEF Signalled, OnTheWay
<1>7. CASE Succeeds
  <2>1. UNCHANGED <<irq, given_up>> /\ ~ Idle
    BY <1>7 DEF Succeeds, Channel!Succeed, moduleVars, CallInv
  <2>2. "RESET" \in OnTheWay
    BY <2>1 DEF Signalled
  <2>3. call[1] = "irq_flags" /\ "RESET" \in reply.data[1]
    BY <2>2 DEF OnTheWay
  <2>4. Head(todo).cmd.op = "irq_flags"
    BY <2>1, <2>3, NextStepIsOfCall DEF OfCall
  <2>5. Rest = <<>>
    <3>1. Len(todo) = 1
      BY <2>1, <2>4, NextWrites
    <3>2. Sequence(Tail(todo)) /\ Len(Tail(todo)) = 0
      BY <2>1, <3>1, TailOf DEF CallInv
    <3> QED
      BY <3>2, NoneLeft DEF Rest
  <2> QED
    BY <1>7, <2>1, <2>3, <2>4, <2>5
<1>8. ~ Executes
  <2> SUFFICES ASSUME Executes PROVE FALSE
    OBVIOUS
  <2> DEFINE h == Head(queue)
             m == Head(queue).cmd
  <2>1. /\ queue # <<>> /\ 1 \in DOMAIN queue /\ h = queue[1]
        /\ UNCHANGED <<busy, call, given_up>>
    BY Taking DEF QueueInv, hostVars, appHistory
  <2>2. ~ reply.given
    BY <2>1 DEF QueueInv
  <2>3. "RESET" \in irq /\ "RESET" \notin irq' /\ "RESET" \notin given_up
    BY <2>1, <2>2 DEF Signalled, OnTheWay
  <2>4. ReadFlags(m)
    BY <2>3 DEF Executes, Nack, Drops, Store, Load, Keep, HandOver, QueueUplink, Obey,
       ResetMcu, Reboots, moduleVars
  <2>5. /\ m.op = "irq_flags" /\ irq' = irq \ m.mask
        /\ reply' = IF h.mine THEN Channel!Acked(<<irq>>) ELSE reply
    BY <2>4 DEF ReadFlags, Answer, Channel!Execute
  <2>6. "RESET" \in m.mask
    BY <2>3, <2>5
  <2>7. h.mine /\ busy /\ call[1] = "irq_flags" /\ m.mask = call[2]
    BY <2>1, <2>3, <2>5, <2>6 DEF FlagInv, Waiting
  <2>8. reply'.given /\ reply'.nack = 0 /\ reply'.data[1] = irq
    BY <2>5, <2>7 DEF Channel!Acked
  <2>9. "RESET" \in OnTheWay'
    BY <2>1, <2>3, <2>6, <2>7, <2>8 DEF OnTheWay
  <2> QED
    BY <2>9 DEF Signalled
<1>9. CASE /\ UNCHANGED <<belief, call, todo, busy, queue, reply, given_up>>
           /\ \A x \in Items : got'[x] \in {got[x], Unknown}
           /\ irq' = {"RESET"} \/ (irq \subseteq irq' /\ settings' = settings)
  <2>1. OnTheWay' = OnTheWay
    BY <1>9 DEF OnTheWay
  <2> QED
    BY <1>9, <2>1 DEF Signalled
<1> QED
  BY <1>3, <1>4, <1>5, <1>6, <1>7, <1>8, <1>9, QuietSteps

LEMMA ValueInit == Init => ValueInv
<1> SUFFICES ASSUME Init PROVE ValueInv
  OBVIOUS
<1>1. /\ belief = [x \in Items |-> IF x \in ReadOnly THEN Defaults[x] ELSE Unknown]
      /\ got = [x \in Items |-> Unknown] /\ busy = FALSE /\ call = NoCall
      /\ settings = DefaultBytes
  BY DEF Init, Channel!Init
<1>2. \A x \in Items : belief[x] # Unknown => Read(settings, x) = belief[x]
  BY <1>1, FactsAreRead, DefaultsAreStored
<1>3. \A x \in Items : got[x] = Unknown /\ ~ Writing(x)
  BY <1>1 DEF Writing, Idle
<1> QED
  BY <1>1, <1>2, <1>3 DEF ValueInv, Answered

\* What the module executes, unless it resets: it changes what its command writes.
LEMMA ExecutesIsRead ==
    ASSUME QueueInv, SettingsInv, Executes, ~ Signalled'
    PROVE  LET m == Head(queue).cmd IN
           /\ \A x \in Items \ CmdWrites(m) : Read(settings', x) = Read(settings, x)
           /\ \/ m.op = "set" /\ Store(m)
              \/ m.op = "restore_defaults"
              \/ /\ settings' = settings
                 /\ m.op = "set" => reply' = reply \/ reply'.nack # 0
<1> DEFINE m == Head(queue).cmd
<1>1. Sound(m)
  BY NextToTake
<1>2. irq' # {"RESET"}
  BY DEF Signalled
<1>3. Channel!Nacked(1).nack # 0
  BY DEF Channel!Nacked
<1>4. \/ /\ settings' = settings
         /\ m.op = "set" => reply' = reply \/ reply'.nack # 0
      \/ m.op = "set" /\ Store(m)
      \/ m.op = "restore_defaults" /\ settings' = With(settings, Restored, DefaultBytes)
  BY <1>2, <1>3 DEF Executes, Nack, Drops, Load, Store, Keep, ReadFlags, HandOver,
     QueueUplink, Obey, ResetMcu, Reboots, Answer, Channel!Execute, Channel!Drop,
     moduleVars
<1>5. CASE settings' = settings /\ (m.op = "set" => reply' = reply \/ reply'.nack # 0)
  BY <1>5
<1>6. CASE m.op = "set" /\ Store(m)
  BY <1>1, <1>6, StoreIsRead
<1>7. CASE m.op = "restore_defaults" /\ settings' = With(settings, Restored, DefaultBytes)
  <2>1. CmdWrites(m) = RestoredItems
    BY <1>7 DEF CmdWrites
  <2>2. \A x \in Items \ RestoredItems : Read(settings', x) = Read(settings, x)
    BY <1>7, RestoredIsRead
  <2> QED
    BY <1>7, <2>1, <2>2
<1> QED
  BY <1>4, <1>5, <1>6, <1>7

\* At the end of a call nothing is being written.
LEMMA ValueAtEnd ==
    ASSUME Idle', ~ busy',
           \A x \in Items :
              /\ belief'[x] # Unknown => Read(settings', x) = belief'[x]
              /\ got'[x] # Unknown /\ belief'[x] # Unknown => got'[x] = belief'[x]
    PROVE  ValueInv'
  BY DEF ValueInv, Writing, Answered

LEMMA ValueExecutes ==
    ASSUME CallInv, StandsInv, QueueInv, SettingsInv, WaitInv, ValueInv,
           ~ Signalled, ~ Signalled', Executes
    PROVE  ValueInv'
<1> DEFINE h == Head(queue)
           m == Head(queue).cmd
<1>1. /\ UNCHANGED <<belief, got, call, todo, busy, calls>>
      /\ queue # <<>> /\ 1 \in DOMAIN queue /\ h = queue[1] /\ Sound(m)
      /\ h.mine => ~ reply.given
      /\ h.mine /\ busy => m = Head(todo).cmd
      /\ reply' = reply \/ (h.mine /\ reply'.given)
      /\ ~ reply.given
  BY Taking, NextToTake DEF QueueInv, hostVars, appHistory
<1>2. /\ \A x \in Items \ CmdWrites(m) : Read(settings', x) = Read(settings, x)
      /\ \/ m.op = "set" /\ Store(m)
         \/ m.op = "restore_defaults"
         \/ /\ settings' = settings
            /\ m.op = "set" => reply' = reply \/ reply'.nack # 0
  BY ExecutesIsRead
<1>3. Answered' => h.mine /\ busy /\ reply' # reply /\ m = Head(todo).cmd /\ ~ Idle
  BY <1>1 DEF Answered, CallInv
<1> HIDE DEF h, m
<1>4. \A x : Writing(x)' = Writing(x)
  BY <1>1 DEF Writing, Idle
<1>5. Fresh' = Fresh /\ (Fresh => ~ busy)
  BY <1>1 DEF Fresh
<1>6. ASSUME NEW x \in Items, ~ Writing(x) \/ Fresh, belief[x] # Unknown
      PROVE  Read(settings', x) = belief[x]
  <2>1. Read(settings, x) = belief[x]
    BY <1>6 DEF ValueInv
  <2>2. x \notin CmdWrites(m)
    <3> SUFFICES ASSUME x \in CmdWrites(m) PROVE FALSE
      OBVIOUS
    <3>1. busy /\ h.mine
      BY <1>1, <1>6 DEF WaitInv, h, m
    <3>2. ~ Idle /\ x \in Writes(call)
      BY <1>1, <3>1, NextWrites DEF CallInv
    <3> QED
      BY <1>5, <1>6, <3>1, <3>2 DEF Writing
  <2> QED
    BY <1>2, <2>1, <2>2
<1>7. ASSUME NEW x \in Items, Writing(x), Certain(x)', Written(call, x) # Unknown
      PROVE  Read(settings', x) = Written(call, x)
  <2>1. ~ Answered
    BY <1>1 DEF Answered
  <2>2. \/ Certain(x) /\ call[1] = "config_set" /\ Len(todo) < 4
        \/ Answered' /\ x \in CmdWrites(Head(todo).cmd)
    <3>1. CASE call[1] = "config_set" /\ \E i \in 1 .. 4 - Len(todo) : x = ConfigFields[i]
      <4>1. Len(todo) < 4
        BY <3>1, NextStepStands, <1>7 DEF Writing
      <4> QED
        BY <3>1, <4>1 DEF Certain
    <3>2. CASE Answered' /\ x \in CmdWrites(Head(todo).cmd)
      BY <3>2
    <3> QED
      BY <1>1, <1>7, <3>1, <3>2 DEF Certain
  <2>3. Certain(x) => Read(settings, x) = Written(call, x)
    BY <1>7 DEF ValueInv
  <2>4. CASE x \notin CmdWrites(m)
    <3>1. Certain(x)
      BY <1>3, <2>2, <2>4
    <3> QED
      BY <1>2, <2>3, <2>4, <3>1
  <2>5. CASE x \in CmdWrites(m)
    <3>1. h.mine /\ busy /\ m = Head(todo).cmd /\ ~ Idle
      <4>1. ~ Idle
        BY <1>7 DEF Writing
      <4> QED
        BY <1>1, <1>3, <2>2, <4>1 DEF WaitInv, h
    <3>2. m.op = "set"
      <4>1. m.op \in {"set", "restore_defaults"}
        BY <2>5 DEF CmdWrites
      <4>2. m.op # "restore_defaults"
        BY <1>7, <3>1, NextWrites
      <4> QED
        BY <4>1, <4>2
    <3>3. CASE Store(m)
      <4>1. PICK f, v :
                /\ f \in Fields
                /\ Typed(f, v) /\ (Head(todo).ok => Accepts(f, v))
                /\ m.field = f /\ m.data = Encode(f, v)
                /\ f = "radio" => m.mask = v.flags
                /\ \A y \in CmdWrites(m) : Written(call, y) = Part(f, AsRead(f, v), y)
        BY <3>1, <3>2, NextSets
      <4>2. Accepts(f, v)
        BY <3>1, <4>1 DEF WaitInv
      <4> QED
        BY <1>1, <2>5, <3>3, <4>1, <4>2, StoreIsRead
    <3>4. CASE ~ Store(m)
      <4>1. settings' = settings /\ (reply' = reply \/ reply'.nack # 0)
        BY <1>2, <3>2, <3>4
      <4>2. ~ Answered'
        BY <1>3, <4>1 DEF Answered
      <4> QED
        BY <2>2, <2>3, <4>1, <4>2
    <3> QED
      BY <3>3, <3>4
  <2> QED
    BY <2>4, <2>5
<1>8. ASSUME NEW x \in Items, got[x] # Unknown, belief[x] # Unknown
      PROVE  got[x] = belief[x]
  BY <1>8 DEF ValueInv
<1>9. ASSUME Answered', Head(todo).cmd.op = "get"
      PROVE  reply'.data = settings'[Head(todo).cmd.field]
  <2>1. reply' # reply /\ m = Head(todo).cmd /\ reply'.nack = 0
    BY <1>3, <1>9 DEF Answered
  <2> QED
    BY <1>9, <2>1, AnswersGet DEF m
<1> QED
  BY <1>1, <1>4, <1>5, <1>6, <1>7, <1>8, <1>9 DEF ValueInv

\* A call that fails or is refused after its first command.
LEMMA ValueFails ==
    ASSUME CallInv, StandsInv, ValueInv, ~ Idle, ~ Signalled,
           Idle', ~ busy', Learn(FALSE, {}), UNCHANGED <<settings, got>>
    PROVE  ValueInv'
<1>1. ASSUME NEW x \in Items, belief'[x] # Unknown
      PROVE  /\ Read(settings', x) = belief'[x]
             /\ got'[x] # Unknown => got'[x] = belief'[x]
  <2>1. x \notin Writes(call) /\ belief'[x] = belief[x]
    BY <1>1 DEF Learn
  <2> QED
    BY <1>1, <2>1 DEF ValueInv, Writing
<1> QED
  BY <1>1, ValueAtEnd

LEMMA ValueSucceeds ==
    ASSUME CallInv, StandsInv, QueueInv, WaitInv, ValueInv, ~ Signalled, Succeeds
    PROVE  ValueInv'
<1> DEFINE m == Head(todo).cmd
<1>1. /\ Answered /\ ~ Idle /\ ~ busy' /\ settings' = settings
      /\ todo # <<>> /\ Sequence(todo) /\ Getting(Head(todo))
  BY NextStepStands DEF Succeeds, Channel!Succeed, Answered, CallInv, moduleVars
<1>2. /\ Len(todo) \in Nat /\ Len(todo) > 0 /\ Sequence(Rest)
      /\ Len(Rest) = Len(todo) - 1
  BY <1>1, TailOf DEF Rest
<1>3. /\ CmdWrites(m) \subseteq Writes(call)
      /\ call[1] = "config_set" =>
            Len(todo) \in 1 .. 4 /\ CmdWrites(m) = {ConfigFields[5 - Len(todo)]}
      /\ call[1] # "config_set" => CmdWrites(m) = Writes(call)
      /\ call[1] # "config_set" /\ Writes(call) # {} => Len(todo) = 1
      /\ m.op \in {"get", "irq_flags"} => Writes(call) = {}
  BY <1>1, NextWrites
<1> HIDE DEF m
\* What has been got so far is believed.
<1>4. ASSUME NEW x \in Items, got'[x] # Unknown, belief[x] # Unknown
      PROVE  got'[x] = belief[x]
  <2>1. CASE m.op = "get" /\ x \in ItemsOf(m.field)
    <3>1. got'[x] = Part(m.field, Decode(m.field, reply.data), x)
      BY <2>1, GotIs DEF m
    <3>2. reply.data = settings[m.field] /\ m.field \in Fields
      BY <1>1, <2>1 DEF ValueInv, Getting, m
    <3>3. got'[x] = Read(settings, x)
      BY <2>1, <3>1, <3>2, GotIsRead
    <3>4. ~ Writing(x)
      BY <1>3, <2>1 DEF Writing
    <3> QED
      BY <1>4, <3>3, <3>4 DEF ValueInv
  <2>2. CASE ~ (m.op = "get" /\ x \in ItemsOf(m.field))
    <3>1. got'[x] = got[x]
      BY <2>2, GotIs DEF m
    <3> QED
      BY <1>4, <3>1 DEF ValueInv
  <2> QED
    BY <2>1, <2>2
<1>5. \A x \in Items : got'[x] # Unknown => Writes(call) = {}
  <2>1. ASSUME NEW x \in Items, got'[x] # Unknown, m.op # "get"
        PROVE  Writes(call) = {}
    <3>1. got'[x] = got[x]
      BY <2>1, GotIs DEF m
    <3> QED
      BY <1>1, <2>1, <3>1 DEF WaitInv
  <2> QED
    BY <1>3, <2>1
<1>6. CASE Rest = <<>>
  <2>1. PICK r, seen : Returns(r) /\ Learn(TRUE, seen)
    BY <1>6 DEF Succeeds
  <2>2. Idle'
    BY <2>1, EndOfCall
  <2>3. Len(todo) = 1
    <3>1. Len(Rest) = 0
      BY <1>6, EmptySequence
    <3> QED
      BY <1>2, <3>1
  <2>4. ASSUME NEW x \in Writes(call)
        PROVE  Certain(x)
    <3>1. CASE call[1] = "config_set"
      <4>1. PICK i \in 1 .. 4 : x = ConfigFields[i]
        BY <1>1, <3>1, WritesAre DEF StandsInv
      <4>2. CASE i = 4
        <5>1. CmdWrites(m) = {ConfigFields[4]}
          BY <1>3, <2>3, <3>1
        <5> QED
          BY <1>1, <4>1, <4>2, <5>1 DEF Certain, m
      <4>3. CASE i # 4
        <5>1. i \in 1 .. 4 - Len(todo)
          BY <2>3, <4>3
        <5> QED
          BY <3>1, <4>1, <5>1 DEF Certain
      <4> QED
        BY <4>2, <4>3
    <3>2. CASE call[1] # "config_set"
      BY <1>1, <1>3, <3>2 DEF Certain, m
    <3> QED
      BY <3>1, <3>2
  <2>5. \A x \in Items :
           belief'[x] = IF x \in Writes(call) THEN Written(call, x)
                        ELSE IF "RESET" \in seen /\ x \notin ReadOnly
                        THEN Unknown ELSE belief[x]
    BY <1>1, <2>1, LearnIs
  <2>6. ASSUME NEW x \in Items, belief'[x] # Unknown
        PROVE  /\ Read(settings', x) = belief'[x]
               /\ got'[x] # Unknown => got'[x] = belief'[x]
    <3>1. CASE x \in Writes(call)
      <4>1. Writing(x) /\ Certain(x) /\ Written(call, x) # Unknown
            /\ belief'[x] = Written(call, x)
        BY <1>1, <2>4, <2>5, <2>6, <3>1 DEF Writing
      <4>2. Read(settings, x) = Written(call, x)
        BY <4>1 DEF ValueInv
      <4> QED
        BY <1>1, <1>5, <3>1, <4>1, <4>2
    <3>2. CASE x \notin Writes(call)
      <4>1. belief'[x] = belief[x] /\ ~ Writing(x)
        BY <2>5, <2>6, <3>2 DEF Writing
      <4> QED
        BY <1>1, <1>4, <2>6, <4>1 DEF ValueInv
    <3> QED
      BY <3>1, <3>2
  <2> QED
    BY <1>1, <2>2, <2>6, ValueAtEnd
<1>7. CASE Rest # <<>>
  <2>1. UNCHANGED <<call, belief>> /\ todo' = Rest
    BY <1>7 DEF Succeeds
  <2>2. Len(todo) # 1
    BY <1>2, <1>7, NoneLeft
  <2>3. \A x \in Items : Writing(x)' = Writing(x)
    BY <2>1 DEF Writing, Idle
  <2>4. ASSUME NEW x \in Items, ~ Writing(x) \/ Fresh', belief[x] # Unknown
        PROVE  Read(settings', x) = belief[x]
    <3>1. CASE ~ Writing(x)
      BY <1>1, <2>4, <3>1 DEF ValueInv
    <3>2. CASE Writing(x) /\ Fresh'
      <4>1. call[1] = "config_set"
        BY <1>3, <2>2, <3>2 DEF Writing
      <4>2. Len(todo') = 4 /\ Len(todo) \in 1 .. 4 /\ Len(todo') = Len(todo) - 1
        BY <1>2, <1>3, <2>1, <3>2, <4>1 DEF Fresh
      <4>3. \A n \in 1 .. 4 : n - 1 # 4
        OBVIOUS
      <4> QED
        BY <4>2, <4>3
    <3> QED
      BY <2>4, <3>1, <3>2
  <2>5. ASSUME NEW x \in Items, Writing(x), Certain(x)', Written(call, x) # Unknown
        PROVE  Read(settings', x) = Written(call, x)
    <3>1. /\ call[1] = "config_set"
          /\ \E i \in 1 .. 4 - Len(todo') : x = ConfigFields[i]
      BY <1>1, <2>1, <2>5 DEF Certain, Answered
    <3>2. PICK i \in 1 .. 4 - Len(todo') : x = ConfigFields[i]
      BY <3>1
    <3>3. Len(todo) \in 1 .. 4 /\ Len(todo') = Len(todo) - 1
      BY <1>2, <1>3, <2>1, <3>1
    <3>4. Certain(x)
      <4>1. i = 5 - Len(todo) => x \in CmdWrites(m)
        BY <1>3, <3>1, <3>2
      <4>2. i # 5 - Len(todo) => i \in 1 .. 4 - Len(todo)
        BY <3>3
      <4> QED
        BY <1>1, <3>1, <3>2, <4>1, <4>2 DEF Certain, m
    <3> QED
      BY <1>1, <2>5, <3>4 DEF ValueInv
  <2>6. ~ Answered'
    BY <1>1 DEF Answered
  <2> QED
    BY <1>4, <2>1, <2>3, <2>4, <2>5, <2>6 DEF ValueInv
<1> QED
  BY <1>6, <1>7

\* A reset that ll_irq_flags hands over ends what the application believes.
LEMMA ValueForgets ==
    ASSUME CallInv, StandsInv, SettingsInv, FactsInv, FactsInv', ~ Idle, Succeeds,
           Rest = <<>>, Head(todo).cmd.op = "irq_flags", "RESET" \in reply.data[1]
    PROVE  ValueInv'
<1>1. PICK r : Returns(r) /\ Learn(TRUE, reply.data[1])
  BY DEF Succeeds
<1>2. /\ Idle' /\ ~ busy' /\ settings' = settings
  BY <1>1, EndOfCall DEF Succeeds, Channel!Succeed, moduleVars
<1>3. Writes(call) = {}
  BY NextWrites
<1>4. ASSUME NEW x \in Items, belief'[x] # Unknown
      PROVE  /\ Read(settings', x) = belief'[x]
             /\ got'[x] # Unknown => got'[x] = belief'[x]
  <2>1. x \in ReadOnly
    BY <1>1, <1>3, <1>4, LearnIs
  <2>2. Read(settings, x) = Defaults[x]
    BY <2>1, FactsAreRead DEF SettingsInv
  <2> QED
    BY <1>2, <2>1, <2>2 DEF FactsInv
<1> QED
  BY <1>2, <1>4, ValueAtEnd

LEMMA ValueStep ==
    ASSUME CallInv, StandsInv, QueueInv, SettingsInv, FlagInv, FactsInv, FactsInv',
           WaitInv, ValueInv, [Next]_vars
    PROVE  ValueInv'
<1>1. CASE Signalled'
  BY <1>1 DEF ValueInv
<1>2. CASE Signalled /\ ~ Signalled'
  BY <1>2, SignalStays, ValueForgets
<1>3. CASE ~ Signalled /\ ~ Signalled'
  <2>1. ASSUME NEW c \in api.calls, Begin(c)
        PROVE  ValueInv'
    <3>1. /\ Idle /\ ~ busy' /\ UNCHANGED <<belief, settings>>
          /\ got' = [x \in Items |-> Unknown] /\ call' = c /\ todo' = StepsOf(c)
      BY <2>1 DEF Begin, channelVars, moduleVars, CallInv
    <3>2. \A x \in Items : belief[x] # Unknown => Read(settings, x) = belief[x]
      BY <1>3, <3>1 DEF ValueInv, Writing
    <3>3. ASSUME NEW x, Certain(x)' PROVE FALSE
      <4>1. /\ c[1] = "config_set"
            /\ \E i \in 1 .. 4 - Len(StepsOf(c)) : x = ConfigFields[i]
        BY <3>1, <3>3 DEF Certain, Answered
      <4>2. StepsOf(c) = [k \in 1 .. 4 |-> Set(ConfigFields[k], c[2][k])]
        BY <4>1, ConfigFieldsAre DEF StepsOf
      <4>3. Len([k \in 1 .. 4 |-> Set(ConfigFields[k], c[2][k])]) = 4
        OBVIOUS
      <4>4. 1 .. 4 - Len(StepsOf(c)) = {}
        BY <4>2, <4>3
      <4> QED
        BY <4>1, <4>4
    <3>4. \A x \in Items : got'[x] = Unknown
      BY <3>1
    <3>5. ~ Answered'
      BY <3>1 DEF Answered
    <3> QED
      BY <3>1, <3>2, <3>3, <3>4, <3>5 DEF ValueInv
  <2>2. CASE Send
    <3>1. /\ ~ busy /\ busy' /\ ~ reply'.given
          /\ UNCHANGED <<settings, belief, got, call, todo>>
      BY <2>2, Sending DEF QueueInv, hostVars, moduleVars, appHistory
    <3>2. ~ Answered' /\ ~ Fresh'
      BY <3>1 DEF Answered, Fresh
    <3>3. \A x : Writing(x)' = Writing(x) /\ (Certain(x)' => Certain(x))
      BY <3>1, <3>2 DEF Writing, Idle, Certain
    <3> QED
      BY <1>3, <3>1, <3>2, <3>3 DEF ValueInv
  <2>3. CASE Refused
    <3>1. /\ ~ Idle /\ ~ busy /\ ~ busy' /\ Idle' /\ UNCHANGED <<settings, got>>
          /\ \/ Learn(FALSE, {})
             \/ belief' = belief /\ Len(todo) = Len(StepsOf(call))
      BY <2>3, EndOfCall DEF Refused, channelVars, moduleVars
    <3>2. CASE Learn(FALSE, {})
      BY <1>3, <3>1, <3>2, ValueFails
    <3>3. CASE belief' = belief /\ Len(todo) = Len(StepsOf(call))
      <4>1. call[1] = "config_set" => Len(todo) = 4
        <5>1. call[1] = "config_set" =>
                 StepsOf(call) = [k \in 1 .. 4 |-> Set(ConfigFields[k], call[2][k])]
          BY ConfigFieldsAre DEF StepsOf
        <5>2. Len([k \in 1 .. 4 |-> Set(ConfigFields[k], call[2][k])]) = 4
          OBVIOUS
        <5> QED
          BY <3>3, <5>1, <5>2
      <4>2. Fresh
        BY <3>1, <4>1 DEF Fresh
      <4>3. \A x \in Items :
               /\ belief'[x] # Unknown => Read(settings', x) = belief'[x]
               /\ got'[x] # Unknown /\ belief'[x] # Unknown => got'[x] = belief'[x]
        BY <1>3, <3>1, <3>3, <4>2 DEF ValueInv
      <4> QED
        BY <3>1, <4>3, ValueAtEnd
    <3> QED
      BY <3>1, <3>2, <3>3
  <2>4. ASSUME NEW e, Fails(e)
        PROVE  ValueInv'
    <3>1. /\ ~ Idle /\ ~ busy' /\ Idle' /\ UNCHANGED <<settings, got>>
          /\ Learn(FALSE, {})
      BY <2>4, EndOfCall DEF Fails, Misses, Channel!Fail, moduleVars, CallInv
    <3> QED
      BY <1>3, <3>1, ValueFails
  <2>5. CASE Succeeds
    BY <1>3, <2>5, ValueSucceeds
  <2>6. CASE Executes
    BY <1>3, <2>6, ValueExecutes
  <2>7. CASE /\ UNCHANGED <<belief, call, todo, busy, queue, reply, given_up>>
             /\ \A x \in Items : got'[x] \in {got[x], Unknown}
             /\ irq' = {"RESET"} \/ (irq \subseteq irq' /\ settings' = settings)
    <3>1. settings' = settings
      BY <1>3, <2>7 DEF Signalled
    <3>2. Answered' = Answered /\ Fresh' = Fresh
      BY <2>7 DEF Answered, Fresh
    <3>3. \A x : Writing(x)' = Writing(x) /\ (Certain(x)' => Certain(x))
      BY <2>7, <3>2 DEF Writing, Idle, Certain
    <3>4. \A x \in Items : got'[x] # Unknown => got'[x] = got[x]
      BY <2>7
    <3> QED
      BY <1>3, <2>7, <3>1, <3>2, <3>3, <3>4 DEF ValueInv
  <2> QED
    BY <2>1, <2>2, <2>3, <2>4, <2>5, <2>6, <2>7, QuietSteps
<1> QED
  BY <1>1, <1>2, <1>3

LEMMA AlwaysValued == Spec => [](CallInv /\ ValueInv)
  BY CallInit, CallStep, StandsInit, StandsStep, QueueInit, QueueStep, SettingsInit,
     SettingsStep, FlagInit, FlagStep, FactsInit, FactsStep, WaitInit, WaitStep,
     ValueInit, ValueStep, PTL DEF Spec

LEMMA NothingIsOnTheWay ==
    ASSUME CallInv, ValueInv, Idle, ~ ResetIsSignalled
    PROVE  \A x \in Items :
              /\ belief[x] # Unknown => Read(settings, x) = belief[x]
              /\ got[x] # Unknown /\ belief[x] # Unknown => got[x] = belief[x]
<1>1. ~ Signalled
  BY DEF CallInv, OnTheWay, Signalled, ResetIsSignalled
<1> QED
  BY <1>1 DEF ValueInv, Writing

\* BeliefIsSetting: what a setter that succeeded set is what the module has, however
\* many commands failed, were lost, late or refused, unless the module has reset and
\* the application has yet to learn of it or gave up learning of it.
THEOREM BeliefsAreTrue == Spec => []BeliefIsSetting
<1>1. CallInv /\ ValueInv => BeliefIsSetting
  BY NothingIsOnTheWay DEF BeliefIsSetting
<1> QED
  BY AlwaysValued, <1>1, PTL

\* A call that does not fail hands over no memory that its getter did not fill.
SpoilInv == ~ wrong => spoiled = {}

LEMMA SpoilStep == SpoilInv /\ [Next]_vars => SpoilInv'
<1> SUFFICES ASSUME SpoilInv, [Next]_vars PROVE SpoilInv'
  OBVIOUS
<1>1. ASSUME NEW c \in api.calls, Begin(c) PROVE SpoilInv'
  BY <1>1 DEF Begin, SpoilInv
<1>2. CASE TtyClose \/ (\E rate \in {"default", "other"} : TtyOpen(rate))
  <2>1. \E r : TtyReturns(r)
    BY <1>2 DEF TtyClose, TtyOpen
  <2> QED
    BY <2>1 DEF TtyReturns, SpoilInv
<1>3. CASE Refused \/ (\E e \in ErrorCodes : Fails(e))
  BY <1>3 DEF Refused, Fails, Misses, SpoilInv
<1>4. CASE Succeeds
  BY <1>4 DEF Succeeds, SpoilInv
<1>5. CASE Send \/ Executes \/ ModuleReset \/ Arrive
           \/ (\E flag \in Flags \ {"RESET"} : Raise(flag)) \/ UNCHANGED vars
  <2>1. UNCHANGED <<spoiled, wrong>>
    BY <1>5 DEF Send, Executes, ModuleReset, Arrive, Raise, Event, vars, hostVars,
       appHistory
  <2> QED
    BY <2>1 DEF SpoilInv
<1> QED
  BY <1>1, <1>2, <1>3, <1>4, <1>5 DEF Next

\* GetIsWhatWasSet: a getter returns what was last set, or the module's own fact,
\* after both went through the bytes of the interface.
THEOREM GettersReturnWhatWasSet == Spec => []GetIsWhatWasSet
<1>1. Init => SpoilInv
  BY DEF Init, SpoilInv
<1>2. Spec => []SpoilInv
  BY <1>1, SpoilStep, PTL DEF Spec
<1>3. CallInv /\ ValueInv /\ SpoilInv => GetIsWhatWasSet
  BY NothingIsOnTheWay DEF GetIsWhatWasSet, SpoilInv
<1> QED
  BY AlwaysValued, <1>2, <1>3, PTL
=============================================================================
