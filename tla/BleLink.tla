------------------------------ MODULE BleLink ------------------------------
(***************************************************************************)
(* The BLE transport, src/src/transport/ble_gatt.c: the NimBLE host task,  *)
(* which reassembles writes and follows the connection, and ble_cmd_task,  *)
(* which answers the commands it queues.  The two share g_conn_handle,     *)
(* g_tx_notify_enabled and g_link_generation, and no lock.                 *)
(*                                                                         *)
(* A connection is named by the generation it was given, so that each is a *)
(* client of its own.  A command is two writes and its reply Pieces        *)
(* notifications; their bytes are left out.                                *)
(***************************************************************************)
EXTENDS Naturals, Sequences, FiniteSets

CONSTANTS
    MaxGeneration,  \* bound: g_link_generation stops here (32 bits in the code)
    MaxCommands,    \* bound: commands the clients complete
    QueueDepth,     \* CMD_QUEUE_DEPTH
    Pieces          \* notifications one reply takes

ASSUME BleAssumption ==
    MaxGeneration \in Nat /\ MaxCommands \in Nat /\ QueueDepth \in Nat \ {0}
    /\ Pieces \in Nat \ {0}

VARIABLES
    conn,       \* g_conn_handle: the client on the air, or Nobody
    generation, \* g_link_generation
    subscribed, \* g_tx_notify_enabled
    handler,    \* how far the GAP event being handled has got
    rx,         \* g_rx: the writes of an incomplete command, by their sender
    queue,      \* g_cmd_q
    task,       \* ble_cmd_task: where it is, its command, and what it remembers
    inbox,      \* what each client has been notified of
    drops,      \* g_drops, the three counters
    completed   \* history: commands completed so far

link == <<conn, generation, subscribed, handler>>
vars == <<link, rx, queue, task, inbox, drops, completed>>

Nobody == 0
Clients == 1..MaxGeneration

\* The senders of a command's two writes, and its place in the sequence.
Command == [first: Clients, last: Clients, no: 1..MaxCommands]
NoCommand == [no |-> 0]

Task == [at: {"receive", "dispatch", "subscribe", "send", "notify"},
         cmd: Command \cup {NoCommand}, gen: 0..MaxGeneration, sent: 0..Pieces]
Receiving == [at |-> "receive", cmd |-> NoCommand, gen |-> 0, sent |-> 0]

Drops == [rx: 0..MaxCommands, tx: 0..MaxCommands, stalled: 0..MaxCommands]

\* One notification of a reply.
Piece == [to: Command, k: 1..Pieces]

TypeOK ==
    /\ conn \in Clients \cup {Nobody}
    /\ generation \in 0..MaxGeneration
    /\ subscribed \in BOOLEAN
    /\ handler \in {"none", "connecting", "dropping", "dropped"}
    /\ rx \in Clients \cup {Nobody}
    /\ queue \in Seq(Command) /\ Len(queue) <= QueueDepth
    /\ task \in Task
    /\ inbox \in [Clients -> Seq(Piece)]
    /\ drops \in Drops
    /\ completed \in 0..MaxCommands

-----------------------------------------------------------------------------
(***************************************************************************)
(* The host task.  ble_cmd_task may look between any two assignments of a  *)
(* GAP event's handler, so each is a step.                                 *)
(***************************************************************************)
Bump == /\ generation < MaxGeneration
        /\ generation' = generation + 1

Connect ==
    /\ handler = "none" /\ conn = Nobody
    /\ Bump
    /\ handler' = "connecting"
    /\ UNCHANGED <<conn, subscribed, rx, queue, task, inbox, drops, completed>>

PublishHandle ==
    /\ handler = "connecting"
    /\ conn' = generation
    /\ handler' = "none"
    /\ UNCHANGED <<generation, subscribed, rx, queue, task, inbox, drops, completed>>

Disconnect ==
    /\ handler = "none" /\ conn # Nobody
    /\ Bump
    /\ handler' = "dropping"
    /\ UNCHANGED <<conn, subscribed, rx, queue, task, inbox, drops, completed>>

RetractHandle ==
    /\ handler = "dropping"
    /\ conn' = Nobody
    /\ handler' = "dropped"
    /\ UNCHANGED <<generation, subscribed, rx, queue, task, inbox, drops, completed>>

\* Mutant: the half-received command of the client that left is kept.
ForgetSubscriberOnly ==
    /\ handler = "dropped"
    /\ subscribed' = FALSE
    /\ handler' = "none"
    /\ UNCHANGED <<conn, generation, rx, queue, task, inbox, drops, completed>>

\* g_tx_notify_enabled, and ble_frame_reset(); advertising resumes.
ForgetClient ==
    /\ handler = "dropped"
    /\ subscribed' = FALSE
    /\ rx' = Nobody
    /\ handler' = "none"
    /\ UNCHANGED <<conn, generation, queue, task, inbox, drops, completed>>

Subscribe(on) ==
    /\ handler = "none" /\ conn # Nobody
    /\ subscribed' = on
    /\ UNCHANGED <<conn, generation, handler, rx, queue, task, inbox, drops, completed>>

FirstWrite ==
    /\ handler = "none" /\ conn # Nobody /\ rx = Nobody
    /\ rx' = conn
    /\ UNCHANGED <<link, queue, task, inbox, drops, completed>>

\* Mutants: the queue has no end; a command there is no room for is lost
\* without being counted.
OnMessageUnbounded(c) == queue' = Append(queue, c) /\ UNCHANGED drops
OnMessageUncounted(c) ==
    /\ queue' = IF Len(queue) < QueueDepth THEN Append(queue, c) ELSE queue
    /\ UNCHANGED drops

\* on_message(): queued if there is room, else counted as dropped.
OnMessage(c) ==
    IF Len(queue) < QueueDepth
    THEN queue' = Append(queue, c) /\ UNCHANGED drops
    ELSE drops' = [drops EXCEPT !.rx = @ + 1] /\ UNCHANGED queue

\* The write that completes what ble_frame has so far, whoever sent that.
LastWrite ==
    /\ handler = "none" /\ conn # Nobody /\ rx # Nobody
    /\ completed < MaxCommands
    /\ completed' = completed + 1
    /\ OnMessage([first |-> rx, last |-> conn, no |-> completed + 1])
    /\ rx' = Nobody
    /\ UNCHANGED <<link, task, inbox>>

Host == Connect \/ PublishHandle \/ Disconnect \/ RetractHandle \/ ForgetClient
        \/ (\E on \in BOOLEAN : Subscribe(on)) \/ FirstWrite \/ LastWrite

-----------------------------------------------------------------------------
(***************************************************************************)
(* ble_cmd_task.                                                           *)
(***************************************************************************)
Receive ==
    /\ task.at = "receive" /\ queue # <<>>
    /\ task' = [task EXCEPT !.at = "dispatch", !.cmd = Head(queue)]
    /\ queue' = Tail(queue)
    /\ UNCHANGED <<link, rx, inbox, drops, completed>>

\* dispatcher_handle(), the owner's answer included, has returned; then
\* send_response() captures the generation before its first wait.
Dispatched ==
    /\ task.at = "dispatch"
    /\ task' = [task EXCEPT !.at = "subscribe", !.gen = generation, !.sent = 0]
    /\ UNCHANGED <<link, rx, queue, inbox, drops, completed>>

\* Mutant: any client on the air will do.
SameLinkAnyClient(gen) == conn # Nobody

\* same_link()
SameLink(gen) == conn # Nobody /\ generation = gen

Subscribed ==
    /\ task.at = "subscribe"
    /\ subscribed /\ SameLink(task.gen)
    /\ task' = [task EXCEPT !.at = "send"]
    /\ UNCHANGED <<link, rx, queue, inbox, drops, completed>>

\* Mutant: no deadline on the wait for a subscriber.
NoSubscriberForever ==
    /\ task.at = "subscribe"
    /\ ~SameLink(task.gen)
    /\ task' = Receiving
    /\ drops' = [drops EXCEPT !.tx = @ + 1]
    /\ UNCHANGED <<link, rx, queue, inbox, completed>>

\* The link is gone, or nobody subscribed in TX_SUBSCRIBE_WAIT_MS.
NoSubscriber ==
    /\ task.at = "subscribe"
    /\ ~subscribed \/ ~SameLink(task.gen)
    /\ task' = Receiving
    /\ drops' = [drops EXCEPT !.tx = @ + 1]
    /\ UNCHANGED <<link, rx, queue, inbox, completed>>

\* same_link() holds; the notification, which reads g_conn_handle again, is a
\* step of its own, and clients may come and go before it.
Checked ==
    /\ task.at = "send" /\ task.sent < Pieces
    /\ SameLink(task.gen)
    /\ task' = [task EXCEPT !.at = "notify"]
    /\ UNCHANGED <<link, rx, queue, inbox, drops, completed>>

\* The link dropped, and perhaps was replaced.
LinkDropped ==
    /\ task.at = "send" /\ task.sent < Pieces
    /\ ~SameLink(task.gen)
    /\ task' = Receiving
    /\ drops' = [drops EXCEPT !.stalled = @ + 1]
    /\ UNCHANGED <<link, rx, queue, inbox, completed>>

\* ble_gatts_notify_custom() accepts the piece, for whoever is on the air.
Notify ==
    /\ task.at = "notify" /\ conn # Nobody
    /\ inbox' = [inbox EXCEPT ![conn] = Append(@, [to |-> task.cmd, k |-> task.sent + 1])]
    /\ task' = [task EXCEPT !.at = "send", !.sent = @ + 1]
    /\ UNCHANGED <<link, rx, queue, drops, completed>>

\* It is refused (no mbuf, or nobody on the air) and tried again, check and all.
Refused ==
    /\ task.at = "notify"
    /\ task' = [task EXCEPT !.at = "send"]
    /\ UNCHANGED <<link, rx, queue, inbox, drops, completed>>

\* It is refused after TX_GIVE_UP_MS.
GiveUp ==
    /\ task.at = "notify"
    /\ task' = Receiving
    /\ drops' = [drops EXCEPT !.stalled = @ + 1]
    /\ UNCHANGED <<link, rx, queue, inbox, completed>>

AllSent ==
    /\ task.at = "send" /\ task.sent = Pieces
    /\ task' = Receiving
    /\ UNCHANGED <<link, rx, queue, inbox, drops, completed>>

CmdTask == Receive \/ Dispatched \/ Subscribed \/ NoSubscriber \/ Checked \/ LinkDropped
           \/ Notify \/ Refused \/ GiveUp \/ AllSent

Init ==
    /\ conn = Nobody /\ generation = 0 /\ subscribed = FALSE /\ handler = "none"
    /\ rx = Nobody /\ queue = <<>> /\ task = Receiving
    /\ inbox = [c \in Clients |-> <<>>]
    /\ drops = [rx |-> 0, tx |-> 0, stalled |-> 0]
    /\ completed = 0

Next == Host \/ CmdTask

\* ble_cmd_task is scheduled, its wait for a subscriber has a deadline, and an
\* approval ends (module Approval).  A reply that is refused again and again is
\* given up, as its deadline is not put off by a retry or by a piece that went
\* through.  Nothing is assumed of the clients or of the link.
Spec == Init /\ [][Next]_vars /\ WF_vars(CmdTask) /\ SF_vars(GiveUp)

-----------------------------------------------------------------------------
(***************************************************************************)
(* Properties.                                                             *)
(***************************************************************************)
\* No command is made of the writes of two clients.
NeverSpliced ==
    /\ \A i \in DOMAIN queue : queue[i].first = queue[i].last
    /\ task.cmd # NoCommand => task.cmd.first = task.cmd.last

\* The i-th notification a client was sent goes on from the one before it.
GoesOn(c, i) == i > 1 /\ inbox[c][i - 1] = [inbox[c][i] EXCEPT !.k = @ - 1]

\* send_response(): what is left of a reply whose beginning went to another
\* client does not all go to the next one.  If a client is sent a piece that goes
\* on from nothing (replaced between same_link() and the notification), no piece
\* of that reply was as late and none is sent after it, to anyone.
TornTailIsOnePiece ==
    \A c \in Clients : \A i \in DOMAIN inbox[c] :
        inbox[c][i].k > 1 /\ ~GoesOn(c, i) =>
            \A d \in Clients : \A j \in DOMAIN inbox[d] :
                inbox[d][j].to = inbox[c][i].to /\ <<d, j>> # <<c, i>> =>
                    inbox[d][j].k < inbox[c][i].k

\* Replies sent to the end, one for each last piece accepted, whoever got it.
Answered == UNION {{<<c, i>> : i \in {j \in DOMAIN inbox[c] : inbox[c][j].k = Pieces}}
                   : c \in Clients}

\* The counters of get_info account for every command: with the ones
\* sent to the end, the queue and the one in hand they add up.
EveryCommandIsAccountedFor ==
    completed = drops.rx + drops.tx + drops.stalled + Len(queue) + Cardinality(Answered)
                + (IF task.cmd = NoCommand \/ (task.at = "send" /\ task.sent = Pieces)
                   THEN 0 ELSE 1)

\* ble_cmd_task is never wedged on a client that went away, does not
\* subscribe, or does not take its notifications.
NeverWedged == task.at # "receive" ~> task.at = "receive"

\* ble_gatt.c: a client that replaces another is not sent the previous
\* client's answer.
AnswersGoToAsker ==
    \A c \in Clients : \A i \in DOMAIN inbox[c] : inbox[c][i].to.last = c

\* ble_gatt.c:103, of a client that replaces another under a reply: no client
\* "receives mid-stream chunks" whose beginning it was not sent.
NoTornTail == \A c \in Clients : \A i \in DOMAIN inbox[c] : inbox[c][i].k > 1 => GoesOn(c, i)
=============================================================================
