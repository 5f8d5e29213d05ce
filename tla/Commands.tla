------------------------------ MODULE Commands ------------------------------
(***************************************************************************)
(* The calls of the API, each a sequence of commands to the module through *)
(* hal_read_write (CommandChannel), and what the module makes of them.     *)
(*                                                                         *)
(* A command that fails may have been lost, refused, or executed; it may   *)
(* also be executed later, during a later call. The module loses its       *)
(* volatile state when it resets and says so with an IRQ flag.             *)
(*                                                                         *)
(* No call begins in doubt (CommandChannel): the application does not use  *)
(* ll_reset_state, and no command is as late as 256 commands.              *)
(***************************************************************************)
EXTENDS ModuleFields, FiniteSets, Functions

CONSTANTS
    Scenarios,      \* what the application does: [calls, events, max]
    Defaults,       \* the module's default settings, and facts about it
    FlashFields,    \* the settings ll_settings_store keeps
    Flags,          \* the IRQ flags; RESET is one of them
    ErrorCodes,     \* what hal_read_write returns when it fails
    Unknown,        \* no value
    BodyLen,        \* the length of the body of each message
    MaxEvents       \* bound: spontaneous events of the module

\* The fields without a setter, and those set and got only by ll_config_set
\* and ll_config_get; those got by ll_get_state; and those without a getter of
\* what was set.
ReadOnly ==
    {"state", "tx_state", "rx_state", "unique_id", "version", "firmware_type",
     "hardware_type", "stats", "time_info", "net_info", "app_reg", "timestamp",
     "assert_info"}
ConfigOnly == {"app_token", "rx_mode", "qos"}
States == {"state", "tx_state", "rx_state"}
SetOnly == {"sync_mode", "rssi_scan"}

\* A call of the API, with parameters of their types.
IsCall(c) ==
    CASE c[1] = "set"          -> c[2] \in Fields \ (ReadOnly \cup ConfigOnly)
                                  /\ Typed(c[2], c[3])
      [] c[1] = "get"          -> c[2] \in Fields \ (ConfigOnly \cup States \cup SetOnly)
      [] c[1] = "config_set"   -> \A k \in DOMAIN ConfigFields :
                                      Typed(ConfigFields[k], c[2][k])
      [] c[1] = "get_state"    -> c[2] \cap States # {}
      [] c[1] = "plain"        -> c[2] \in {"settings_store", "settings_delete",
                                           "restore_defaults", "reset_mcu"}
      [] c[1] = "message_send" -> c[2] \in Nat /\ c[3] \in Nat
      [] OTHER -> c[1] \in {"config_get", "irq_flags", "retrieve_message",
                            "ftp_uplink", "packet_send", "packet_recv",
                            "packet_send_timestamp", "tty_open", "tty_close"}

ASSUME CommandsAssumption ==
    /\ DOMAIN Defaults = Fields
    /\ \A f \in Fields : Typed(f, Defaults[f]) /\ Accepts(f, Defaults[f])
    /\ Defaults["radio"].flags = RadioParams
    /\ "RESET" \in Flags
    /\ FlashFields \subseteq Fields \ (ReadOnly \cup ToSet(ConfigFields))
    /\ ErrorCodes \subseteq -255 .. -1
    /\ MaxEvents \in Nat
    /\ BodyLen \in [1 .. MaxEvents -> Nat]
    /\ \A s \in Scenarios :
          /\ DOMAIN s = {"calls", "events", "max"}
          /\ s.events \subseteq {"reset", "arrive", "raise"}
          /\ s.max \in Nat
          /\ \A c \in s.calls : IsCall(c)

VARIABLES
    \* the application, and the host's side of the interface
    api,            \* the scenario
    call,           \* the call that runs
    todo,           \* its steps that are not done
    ret,            \* what the last call returned
    got,            \* what it handed over, by item
    spoiled,        \* the items for which it handed over what is no answer
    ll_ul_max_port, old_max_port,
    g_tty_fd,
    \* the channel
    busy, queue, reply, outcome, doubt,
    \* the module, and the operating system's open descriptors
    settings, flash, irq, inbox, outbox, fds,
    \* history
    calls,          \* calls made
    events,         \* spontaneous events of the module
    resets,         \* the module has reset
    wrong,          \* the last call was refused, or one of its commands failed
    belief,         \* by item, what the application knows of the module
    origin,         \* by field, the call whose command set it
    unseen,         \* flags raised that no ll_irq_flags handed over
    given_up,       \* flags that failed calls of ll_irq_flags were to clear
    arrived,        \* messages that arrived at the module
    received,       \* messages the application got
    missed          \* calls of ll_retrieve_message that failed

hostVars == <<api, call, todo, ret, got, spoiled, ll_ul_max_port, old_max_port>>
ttyVars == <<g_tty_fd, fds>>
channelVars == <<busy, queue, reply, outcome, doubt>>
moduleVars == <<settings, flash, irq, inbox, outbox>>
appHistory == <<calls, wrong, belief, given_up, received, missed>>
moduleHistory == <<events, resets, origin, arrived>>
vars == <<hostVars, ttyVars, channelVars, moduleVars, appHistory,
          moduleHistory, unseen>>

\* Only the actions are used, not the Next that ranges over these sets.
Channel == INSTANCE CommandChannel
             WITH Cmds <- {}, Payloads <- {}, NackCodes <- {}

LL_IFC_ERROR_INCORRECT_PARAMETER == -101
LL_FTP_PORT == 128

NoCall == <<"none">>
Idle == call = NoCall

\* What the application sets and gets: fields, and the radio's parameters.
Items == (Fields \ {"radio"}) \cup RadioParams
ItemsOf(f) == IF f = "radio" THEN RadioParams ELSE {f}
Part(f, v, x) == IF f = "radio" THEN v[x] ELSE v

\* The item x of a module with the settings s, read the way a getter reads it.
Read(s, x) ==
    LET f == IF x \in RadioParams THEN "radio" ELSE x
    IN  Part(f, Decode(f, s[f]), x)

DefaultBytes == [f \in Fields |-> Encode(f, Defaults[f])]

-----------------------------------------------------------------------------
(* Calls and their steps. A step is refused by its parameter check, or it  *)
(* sends a command and has room for so many bytes of answer.               *)

Cmd(op, f, mask, data) ==
    [op |-> op, field |-> f, mask |-> mask, data |-> data, by |-> calls]
Step(c, ok, room) == [cmd |-> c, ok |-> ok, room |-> room]

Set(f, v) ==
    Step(Cmd("set", f, IF f = "radio" THEN v.flags ELSE {}, Encode(f, v)),
         Accepts(f, v), 0)
Get(f) == Step(Cmd("get", f, {}, <<>>), TRUE, Size(f))
Plain(op) == Step(Cmd(op, "", {}, <<>>), TRUE, 0)
Sized(op, len, room) == Step(Cmd(op, "", {}, <<>>), len > 0, room)

\* Wrong on purpose: all flags are cleared, whatever the caller asks for.
ClearAllFlags(mask) == Step(Cmd("irq_flags", "", Flags, <<>>), TRUE, 1)

\* ll_irq_flags: the four bytes of a set of flags stand as one.
IrqFlags(mask) == Step(Cmd("irq_flags", "", mask, <<>>), TRUE, 1)

\* ll_message_send: whose message it is, its length (0 if there is no buffer),
\* and the port, which Accepted checks.
MessageSend(who, len, port) ==
    Step(Cmd("message_send", who, {}, <<port>>), len \in 1 .. 256, 0)

\* ll_get_state leaves out what it is given no pointer for.
Asked(f, F) == IF f \in F THEN <<Get(f)>> ELSE <<>>

StepsOf(c) ==
    CASE c[1] = "set"              -> <<Set(c[2], c[3])>>
      [] c[1] = "get"              -> <<Get(c[2])>>
      [] c[1] = "config_set"       ->
            [k \in DOMAIN ConfigFields |-> Set(ConfigFields[k], c[2][k])]
      [] c[1] = "config_get"       ->
            [k \in DOMAIN ConfigFields |-> Get(ConfigFields[k])]
      [] c[1] = "get_state"        ->
            Asked("state", c[2]) \o Asked("tx_state", c[2]) \o Asked("rx_state", c[2])
      [] c[1] = "plain"            -> <<Plain(c[2])>>
      [] c[1] = "irq_flags"        -> <<IrqFlags(c[2])>>
      [] c[1] = "retrieve_message" -> <<Sized("retrieve_message", c[2], c[2])>>
      [] c[1] = "message_send"     -> <<MessageSend("app", c[2], c[3])>>
      [] c[1] = "ftp_uplink"       -> <<MessageSend("ftp", 1, LL_FTP_PORT)>>
      [] c[1] = "packet_send"      -> <<Sized("packet_send", c[2], 1)>>
      [] c[1] = "packet_recv"      -> <<Sized("packet_recv", c[2], c[2])>>
      [] c[1] = "packet_send_timestamp" ->
            <<Plain("timestamp"), Sized("packet_send", c[2], 1)>>

Accepted(s) ==
    /\ s.ok
    /\ s.cmd.op = "message_send" => s.cmd.data[1] <= ll_ul_max_port

\* The cast of a result to int8_t, and (wrong on purpose) to uint8_t.
AsUint8(r) == r % 256
AsInt8(r) == ((r + 128) % 256) - 128

\* What a call returns when this step of it fails with r.
Failure(s, r) ==
    CASE s.cmd.op = "packet_send" -> AsInt8(r)
      [] s.cmd.op = "packet_recv" -> -1
      [] OTHER                    -> r

\* What a call returns when this, its last step, is answered data.
Success(s, data) ==
    CASE s.cmd.op = "packet_send"                           -> data[1]
      [] s.cmd.op \in {"packet_recv", "retrieve_message"} -> 0
      [] s.cmd.op = "get" /\ s.cmd.field = "timestamp"     -> 0
      [] OTHER                                              -> Len(data)

\* The size ll_retrieve_message returns for so many bytes of answer, a uint16_t:
\* the number is cut to a byte before the header is taken off.
MessageSize(n) == ((n % ByteMod) - 4) % Values[2]

\* Wrong on purpose: the header stays in front of the message.
MessageWithHeader(data) ==
    [rssi |-> Signed(data[1] + ByteMod * data[2], 2),
     port |-> data[4],
     size |-> MessageSize(Len(data)),
     body |-> data]

\* A message as ll_retrieve_message takes it apart. A size beyond the end of the
\* answer has memmove read on behind it; what it finds there is left out.
Message(data) ==
    LET size == MessageSize(Len(data))
        end == IF size <= Len(data) - 4 THEN size + 4 ELSE Len(data)
    IN  [rssi |-> Signed(data[1] + ByteMod * data[2], 2),
         port |-> data[4],
         size |-> size,
         body |-> SubSeq(data, 5, end)]

-----------------------------------------------------------------------------
Init ==
    /\ api \in Scenarios
    /\ call = NoCall /\ todo = <<>> /\ ret = 0
    /\ got = [x \in Items |-> Unknown] /\ spoiled = {}
    /\ ll_ul_max_port = 127 /\ old_max_port = 127
    /\ \/ g_tty_fd = -1 /\ fds = {}
       \/ g_tty_fd = 0 /\ fds = {0}
    /\ Channel!Init
    /\ settings = DefaultBytes /\ flash = DefaultBytes
    /\ irq = {} /\ inbox = <<>> /\ outbox = {}
    /\ calls = 0 /\ events = 0 /\ resets = 0 /\ wrong = FALSE
    /\ belief = [x \in Items |-> IF x \in ReadOnly THEN Defaults[x] ELSE Unknown]
    /\ origin = [f \in Fields |-> 0]
    /\ unseen = {} /\ given_up = {}
    /\ arrived = 0 /\ received = <<>> /\ missed = 0

\* The application makes the call c, with the device open or not. The FTP
\* client's uplink raises the highest port around its message.
Begin(c) ==
    /\ Idle /\ calls < api.max
    /\ c \in api.calls /\ c[1] \notin {"tty_open", "tty_close"}
    /\ calls' = calls + 1
    /\ call' = c
    /\ todo' = StepsOf(c)
    /\ got' = [x \in Items |-> Unknown] /\ spoiled' = {}
    /\ old_max_port' = ll_ul_max_port
    /\ ll_ul_max_port' = IF c[1] = "ftp_uplink" THEN LL_FTP_PORT ELSE ll_ul_max_port
    /\ wrong' = FALSE
    /\ UNCHANGED <<api, ret, ttyVars, channelVars, moduleVars, belief,
                   given_up, received, missed, moduleHistory, unseen>>

\* hal_read_write sends the command of the next step, if the device is open.
Send ==
    /\ ~ Idle /\ Accepted(Head(todo))
    /\ Channel!Call(Head(todo).cmd)
    /\ g_tty_fd < 0 => queue' = Channel!Older(queue)
    /\ doubt' = FALSE
    /\ UNCHANGED <<hostVars, ttyVars, moduleVars, appHistory, moduleHistory, unseen>>

-----------------------------------------------------------------------------
(* The end of a call, and what the application knows after it *)

\* What ll_restore_defaults restores: what is stored but the mode.
Restored == FlashFields \ {"mac_mode"}
RestoredItems == UNION {ItemsOf(f) : f \in Restored}

Writes(c) ==
    CASE c[1] = "set" -> IF c[2] = "radio" THEN c[3].flags ELSE {c[2]}
      [] c[1] = "config_set"      -> Range(ConfigFields)
      [] c[1] = "plain" /\ c[2] = "restore_defaults" -> RestoredItems
      [] OTHER                    -> {}

Written(c, x) ==
    CASE c[1] = "set" -> IF c[2] = "radio" THEN Radio(c[3].params)[x] ELSE c[3]
      [] c[1] = "config_set" -> c[2][CHOOSE k \in DOMAIN ConfigFields : ConfigFields[k] = x]
      [] OTHER -> Unknown

\* It believes in what it set, until it sees that the module has reset.
Learn(ok, seen) ==
    belief' = [x \in Items |->
        IF x \in Writes(call) THEN (IF ok THEN Written(call, x) ELSE Unknown)
        ELSE IF "RESET" \in seen /\ x \notin ReadOnly THEN Unknown
        ELSE belief[x]]

\* Wrong on purpose: ll_ftp_send_uplink leaves the port raised when it fails.
ReturnsPortRaised(r) ==
    /\ ret' = r
    /\ call' = NoCall
    /\ todo' = <<>>
    /\ ll_ul_max_port' = IF r < 0 THEN ll_ul_max_port ELSE old_max_port
    /\ UNCHANGED old_max_port

Returns(r) ==
    /\ ret' = r
    /\ call' = NoCall
    /\ todo' = <<>>
    /\ ll_ul_max_port' = old_max_port
    /\ UNCHANGED old_max_port

\* A parameter check fails; what was sent before stays sent.
Refused ==
    /\ ~ Idle /\ ~ busy /\ ~ Accepted(Head(todo))
    /\ Returns(LL_IFC_ERROR_INCORRECT_PARAMETER)
    /\ wrong' = TRUE
    /\ IF Len(todo) = Len(StepsOf(call)) THEN UNCHANGED belief ELSE Learn(FALSE, {})
    /\ UNCHANGED <<api, got, spoiled, ttyVars, channelVars, moduleVars, calls, given_up,
                   received, missed, moduleHistory, unseen>>

\* The getters that decode their buffer whatever hal_read_write returned, and
\* those that have it filled in the caller's memory, wholly, in part or not.
DecodesAnyway ==
    {"net_token", "net_info", "stats", "dl_band", "conn_filter", "time_info", "radio",
     "mac_mode", "unique_id"}
FillsDirectly ==
    {"app_token", "rx_mode", "qos", "app_reg", "antenna", "tx_power", "sync_word"}

\* What a failed command of the step s leaves in the caller's memory.
Spoils(s) ==
    spoiled' \in CASE s.cmd.op = "get" /\ s.cmd.field \in DecodesAnyway -> {ItemsOf(s.cmd.field)}
                   [] s.cmd.op = "get" /\ s.cmd.field \in FillsDirectly -> {{}, {s.cmd.field}}
                   [] OTHER -> {{}}

\* What a failed command of the step s costs the application.
Misses(s) ==
    /\ Spoils(s)
    /\ given_up' = given_up \cup (IF call[1] = "irq_flags" THEN call[2] ELSE {})
    /\ missed' = missed + (IF s.cmd.op = "retrieve_message" THEN 1 ELSE 0)
    /\ Learn(FALSE, {})
    /\ wrong' = TRUE
    /\ UNCHANGED <<api, got, ttyVars, moduleVars, calls, received,
                   moduleHistory, unseen>>

\* Wrong on purpose: a call goes on after a command that failed.
FailsGoingOn(e) ==
    /\ Channel!Fail
    /\ Misses(Head(todo))
    /\ IF Len(todo) > 1
       THEN todo' = Tail(todo) /\ UNCHANGED <<ret, call, ll_ul_max_port, old_max_port>>
       ELSE Returns(Failure(Head(todo), e))

\* hal_read_write fails with e: the call ends with it.
Fails(e) ==
    /\ Channel!Fail
    /\ Misses(Head(todo))
    /\ Returns(Failure(Head(todo), e))

\* The commands after a step that succeeded.
\* Wrong on purpose: none, as when LL_IFC_ACK >= ret ends ll_config_set.
NoMore == <<>>
Rest == Tail(todo)

\* hal_read_write succeeds: the call goes on, or ends with success.
Succeeds ==
    /\ Channel!Succeed
    /\ LET s == Head(todo)
           data == reply.data
           seen == IF s.cmd.op = "irq_flags" THEN data[1] ELSE {}
       IN
       /\ Len(data) <= s.room
       /\ got' = [x \in Items |->
                    IF s.cmd.op = "get" /\ x \in ItemsOf(s.cmd.field)
                    THEN Part(s.cmd.field, Decode(s.cmd.field, data), x)
                    ELSE got[x]]
       /\ received' = IF s.cmd.op = "retrieve_message"
                      THEN Append(received, Message(data)) ELSE received
       /\ unseen' = unseen \ seen
       /\ IF Rest = <<>>
          THEN Returns(Success(s, data)) /\ Learn(TRUE, seen)
          ELSE /\ todo' = Rest
               /\ UNCHANGED <<ret, call, ll_ul_max_port, old_max_port, belief>>
    /\ UNCHANGED <<api, spoiled, ttyVars, moduleVars, calls, wrong, given_up, missed,
                   moduleHistory>>

-----------------------------------------------------------------------------
(* ll_tty_open and ll_tty_close *)

Lowest == CHOOSE n \in 0 .. Cardinality(fds) :
              n \notin fds /\ \A k \in 0 .. n - 1 : k \in fds

\* What ll_tty_close leaves of g_tty_fd and fds: it closes a descriptor only
\* when it is not an open one.
Closed == IF g_tty_fd < 0 THEN <<-1, fds \ {g_tty_fd}>> ELSE <<g_tty_fd, fds>>

TtyReturns(r) ==
    /\ calls' = calls + 1
    /\ ret' = r /\ wrong' = (r < 0)
    /\ got' = [x \in Items |-> Unknown] /\ spoiled' = {}
    /\ UNCHANGED <<api, call, todo, ll_ul_max_port, old_max_port, channelVars,
                   moduleVars, belief, given_up, received, missed, moduleHistory,
                   unseen>>

TtyClose ==
    /\ Idle /\ calls < api.max
    /\ <<"tty_close">> \in api.calls
    /\ g_tty_fd' = Closed[1] /\ fds' = Closed[2]
    /\ TtyReturns(0)

\* Any rate but the default is refused, the device may not open, or it opens.
TtyOpen(rate) ==
    /\ Idle /\ calls < api.max
    /\ <<"tty_open", rate>> \in api.calls
    /\ LET closed == IF g_tty_fd >= 0 THEN Closed ELSE <<g_tty_fd, fds>> IN
       \/ /\ rate # "default"
          /\ g_tty_fd' = closed[1] /\ fds' = closed[2]
          /\ TtyReturns(-1)
       \/ /\ rate = "default"
          /\ g_tty_fd' = -1 /\ fds' = closed[2]
          /\ TtyReturns(-1)
       \/ /\ rate = "default"
          /\ g_tty_fd' = Lowest /\ fds' = closed[2] \cup {Lowest}
          /\ TtyReturns(0)

-----------------------------------------------------------------------------
(* The module (external): it executes its oldest command, refuses it, or   *)
(* drops it; it resets; messages arrive and flags are raised.              *)

Nack ==
    /\ Channel!Execute(Channel!Nacked(1))
    /\ UNCHANGED moduleVars /\ UNCHANGED <<resets, origin, unseen>>

Drops ==
    /\ Channel!Drop
    /\ UNCHANGED moduleVars /\ UNCHANGED <<resets, origin, unseen>>

Answer(data) == Channel!Execute(Channel!Acked(data))

Store(c) ==
    /\ c.op = "set"
    /\ settings' = [settings EXCEPT ![c.field] =
          IF c.field = "radio"
          THEN PackRadio(RadioParams, Merge(c.mask, UnpackRadio(c.data), UnpackRadio(@)))
          ELSE c.data]
    /\ origin' = [origin EXCEPT ![c.field] = c.by]
    /\ Answer(<<>>)
    /\ UNCHANGED <<flash, irq, inbox, outbox, resets, unseen>>

Load(c) ==
    /\ c.op = "get"
    /\ Answer(settings[c.field])
    /\ UNCHANGED moduleVars /\ UNCHANGED <<resets, origin, unseen>>

\* s with the fields F of t.
With(s, F, t) == [f \in Fields |-> IF f \in F THEN t[f] ELSE s[f]]

Keep(c) ==
    /\ c.op \in {"settings_store", "settings_delete", "restore_defaults"}
    /\ flash' = CASE c.op = "settings_store"  -> With(flash, FlashFields, settings)
                  [] c.op = "settings_delete" -> DefaultBytes
                  [] OTHER                    -> flash
    /\ settings' = IF c.op = "restore_defaults"
                   THEN With(settings, Restored, DefaultBytes)
                   ELSE settings
    /\ origin' = IF c.op = "restore_defaults"
                 THEN With(origin, Restored, [f \in Fields |-> c.by])
                 ELSE origin
    /\ Answer(<<>>)
    /\ UNCHANGED <<irq, inbox, outbox, resets, unseen>>

ReadFlags(c) ==
    /\ c.op = "irq_flags"
    /\ irq' = irq \ c.mask
    /\ Answer(<<irq>>)
    /\ UNCHANGED <<settings, flash, inbox, outbox, resets, origin, unseen>>

HandOver(c) ==
    /\ c.op = "retrieve_message" /\ inbox # <<>>
    /\ inbox' = Tail(inbox)
    /\ Answer(Head(inbox))
    /\ UNCHANGED <<settings, flash, irq, outbox, resets, origin, unseen>>

QueueUplink(c) ==
    /\ c.op = "message_send"
    /\ outbox' = outbox \cup {[who |-> c.field, port |-> c.data[1]]}
    /\ Answer(<<>>)
    /\ UNCHANGED <<settings, flash, irq, inbox, resets, origin, unseen>>

Obey(c) ==
    /\ c.op \in {"packet_send", "packet_recv", "timestamp"}
    /\ Answer(CASE c.op = "packet_send" -> <<0>>
                [] c.op = "packet_recv" -> <<1, 1>>
                [] OTHER                -> <<>>)
    /\ UNCHANGED moduleVars /\ UNCHANGED <<resets, origin, unseen>>

Reboots ==
    /\ settings' = flash
    /\ irq' = {"RESET"}
    /\ inbox' = <<>>
    /\ resets' = resets + 1
    /\ unseen' = {"RESET"}
    /\ UNCHANGED <<flash, outbox, origin>>

ResetMcu(c) ==
    /\ c.op = "reset_mcu"
    /\ Answer(<<>>)
    /\ Reboots

Executes ==
    /\ queue # <<>>
    /\ LET c == Head(queue).cmd IN
       \/ Nack \/ Drops \/ Store(c) \/ Load(c) \/ Keep(c) \/ ReadFlags(c)
       \/ HandOver(c) \/ QueueUplink(c) \/ Obey(c) \/ ResetMcu(c)
    /\ UNCHANGED <<hostVars, ttyVars, appHistory, events, arrived>>

\* The k-th message: its signal strength, its port and its body.
Body(k) == [i \in 1 .. BodyLen[k] |-> k]
Sent(k) == [rssi |-> -k, port |-> k, size |-> BodyLen[k], body |-> Body(k)]
Packed(m) ==
    LET b == ToBytes(m.rssi % Values[2], 2)
    IN  <<b[2], b[1], 0, m.port>> \o m.body

Event(kind) ==
    /\ kind \in api.events /\ events < MaxEvents
    /\ events' = events + 1
    /\ UNCHANGED <<hostVars, ttyVars, channelVars, appHistory>>

ModuleReset ==
    /\ Event("reset")
    /\ Reboots
    /\ UNCHANGED arrived

Arrive ==
    /\ Event("arrive")
    /\ arrived' = arrived + 1
    /\ inbox' = Append(inbox, Packed(Sent(arrived + 1)))
    /\ UNCHANGED <<settings, flash, irq, outbox, resets, origin, unseen>>

Raise(flag) ==
    /\ Event("raise")
    /\ irq' = irq \cup {flag}
    /\ unseen' = unseen \cup {flag}
    /\ UNCHANGED <<settings, flash, inbox, outbox, resets, origin, arrived>>

Next ==
    \/ \E c \in api.calls : Begin(c)
    \/ Send
    \/ Refused
    \/ \E e \in ErrorCodes : Fails(e)
    \/ Succeeds
    \/ TtyClose
    \/ \E rate \in {"default", "other"} : TtyOpen(rate)
    \/ Executes
    \/ ModuleReset
    \/ Arrive
    \/ \E flag \in Flags \ {"RESET"} : Raise(flag)

Spec == Init /\ [][Next]_vars

-----------------------------------------------------------------------------
(* Properties *)

\* Every variable has its type, and a command in flight is that of a call's
\* next step (hal_read_write).
TypeOK ==
    /\ ret \in ErrorCodes \cup -128 .. 127 \cup {Size(f) : f \in Fields}
    /\ calls \in 0 .. api.max /\ g_tty_fd \in Int
    /\ ll_ul_max_port \in {127, LL_FTP_PORT}
    /\ Idle <=> todo = <<>>
    /\ busy => ~ Idle
    /\ irq \subseteq Flags /\ unseen \subseteq Flags
    /\ DOMAIN settings = Fields /\ DOMAIN got = Items

ResetIsSignalled == "RESET" \in irq \cup given_up

\* What a setter that succeeded set is what the module has, whatever failed,
\* was late or was refused before and after, unless the module has reset and
\* its RESET flag waits for ll_irq_flags (or a failed call of it cleared it).
BeliefIsSetting ==
    Idle /\ ~ ResetIsSignalled =>
        \A x \in Items : belief[x] # Unknown => Read(settings, x) = belief[x]

\* A getter that succeeds returns what was last set, or the module's own
\* fact, through the bytes of the interface: ll_config_get, ll_radio_params_get
\* and the deserialisers undo their setters and serialisers. A call that fails
\* may hand over what is no answer, one that does not fail hands over none.
GetIsWhatWasSet ==
    /\ ~ wrong => spoiled = {}
    /\ Idle /\ ~ ResetIsSignalled =>
           \A x \in Items \ spoiled :
               got[x] # Unknown /\ belief[x] # Unknown => got[x] = belief[x]

\* As long as the module has not reset, a setting of ll_config_set is never
\* newer than those set before it: a call that fails half way leaves the old
\* end after the new beginning.
ConfigInOrder ==
    resets = 0 =>
        \A i, j \in DOMAIN ConfigFields :
            i < j => origin[ConfigFields[i]] >= origin[ConfigFields[j]]

\* A call returns a negative number exactly when a parameter was refused or
\* one of its commands failed; the cast to int8_t in ll_packet_send_queue and
\* the -1 of ll_packet_recv keep it negative, as long as the module refuses with
\* no code beyond 128 (ll_ifc_consts.h: -1 to -99).
ErrorIsReported == Idle => (ret < 0 <=> wrong)

\* A flag the module raised stays raised until ll_irq_flags has handed it over,
\* unless a call that failed was to clear it.
FlagIsNotLost == Idle => unseen \subseteq irq \cup given_up

\* ll_retrieve_message hands over the module's messages each once and in order,
\* and as they are if header and body are within the byte their number is cut to;
\* as long as the module has not reset, no more of them are missing than calls of
\* it failed.
MessagesOnceInOrder ==
    /\ \A k \in DOMAIN received :
          LET m == received[k]
              s == Sent(m.port)
          IN  /\ m.rssi = s.rssi
              /\ Len(s.body) + 4 < ByteMod => m = s
              /\ k > 1 => received[k - 1].port < m.port
    /\ Idle /\ resets = 0 =>
          arrived - Len(inbox) - Len(received) <= missed

\* Only the FTP client's messages leave on its port, and the port is closed
\* again after them, also when they fail (ll_ftp_send_uplink).
ReservedPortIsFtps ==
    /\ \A m \in outbox : m.port >= LL_FTP_PORT => m.who = "ftp"
    /\ Idle => ll_ul_max_port < LL_FTP_PORT

\* The device g_tty_fd names is the one that is open: ll_tty_close closes the
\* serial port (ll_ifc_transport_pc.h), also for ll_tty_open, before it opens one.
OneTtyIsOpen == fds \subseteq {g_tty_fd}
=============================================================================
