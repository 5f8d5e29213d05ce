--------------------------- MODULE CommandChannel ---------------------------
(***************************************************************************)
(* What hal_read_write promises its caller: a command goes to the module   *)
(* or is lost, the module executes what it gets in order and at its own    *)
(* pace, perhaps after the caller gave up, and a call that succeeds hands  *)
(* over the module's positive answer to that very command, unless it began *)
(* in doubt: with a command of its opcode and number still in flight. It   *)
(* may fail at any time, whatever the module did.                          *)
(*                                                                         *)
(* HostInterface implements this with bytes, message numbers, checksums    *)
(* and timeouts; Commands is built on it.                                  *)
(***************************************************************************)
EXTENDS Naturals, Sequences

CONSTANTS
    Cmds,           \* the commands
    Payloads,       \* the payloads of positive answers
    NackCodes       \* the codes of negative ones

VARIABLES
    busy,           \* a call of hal_read_write runs
    queue,          \* the commands the module got and has not executed; the
                    \* one of the last call is marked
    reply,          \* the module's answer to the last call's command
    outcome,        \* what the last call returned
    doubt           \* an answer to another command may pass for the last call's

vars == <<busy, queue, reply, outcome, doubt>>

NoReply == [given |-> FALSE, nack |-> 0, data |-> <<>>]
Acked(p) == [given |-> TRUE, nack |-> 0, data |-> p]
Nacked(n) == [given |-> TRUE, nack |-> n, data |-> <<>>]

NoOutcome == [status |-> "none", data |-> <<>>]
Failed == [status |-> "failed", data |-> <<>>]
Succeeded(p) == [status |-> "ok", data |-> p]

Entry(c, mine) == [cmd |-> c, mine |-> mine]
Older(q) == [k \in DOMAIN q |-> Entry(q[k].cmd, FALSE)]

Init ==
    /\ busy = FALSE
    /\ queue = <<>>
    /\ reply = NoReply
    /\ outcome = NoOutcome
    /\ doubt = FALSE

Call(c) ==
    /\ ~ busy
    /\ busy' = TRUE
    /\ queue' \in {Older(queue), Append(Older(queue), Entry(c, TRUE))}
    /\ reply' = NoReply
    /\ outcome' = NoOutcome
    /\ doubt' \in BOOLEAN

\* A command nobody waits for the answer of.
Post(c) ==
    /\ ~ busy
    /\ queue' \in {queue, Append(queue, Entry(c, FALSE))}
    /\ UNCHANGED <<busy, reply, outcome, doubt>>

\* The module executes its oldest command and answers a.
Execute(a) ==
    /\ queue # <<>>
    /\ reply' = IF Head(queue).mine THEN a ELSE reply
    /\ queue' = Tail(queue)
    /\ UNCHANGED <<busy, outcome, doubt>>

\* The module drops its oldest command unanswered.
Drop ==
    /\ queue # <<>>
    /\ queue' = Tail(queue)
    /\ UNCHANGED <<busy, reply, outcome, doubt>>

Succeed ==
    /\ busy
    /\ reply.given /\ reply.nack = 0
    /\ busy' = FALSE
    /\ outcome' = Succeeded(reply.data)
    /\ UNCHANGED <<queue, reply, doubt>>

\* The positive answer to an earlier command, taken for the last call's.
SucceedInDoubt(p) ==
    /\ busy
    /\ doubt
    /\ busy' = FALSE
    /\ outcome' = Succeeded(p)
    /\ UNCHANGED <<queue, reply, doubt>>

Fail ==
    /\ busy
    /\ busy' = FALSE
    /\ outcome' = Failed
    /\ UNCHANGED <<queue, reply, doubt>>

\* A call refused before it is made, or the last outcome forgotten.
Refuse ==
    /\ ~ busy
    /\ outcome' \in {Failed, NoOutcome}
    /\ UNCHANGED <<busy, queue, reply, doubt>>

Next ==
    \/ \E c \in Cmds : Call(c) \/ Post(c)
    \/ \E p \in Payloads : Execute(Acked(p))
    \/ \E n \in NackCodes : Execute(Nacked(n))
    \/ Drop
    \/ Succeed
    \/ \E p \in Payloads : SucceedInDoubt(p)
    \/ Fail
    \/ Refuse

Spec == Init /\ [][Next]_vars
=============================================================================
