----------------------------- MODULE SerialLink -----------------------------
(***************************************************************************)
(* The native USB serial link: src/src/transport/serial_cdc.c with         *)
(* src/src/proto/line_tx.c.  Three tasks meet here.  The TinyUSB task      *)
(* hands over lines (handle_rx), follows DTR (handle_line_state) and moves *)
(* bytes from the TX ring to the host; serial_rx_task runs one command     *)
(* after the other; serial_tx_task writes one reply after the other into   *)
(* the ring, a bounded number of bytes a call.                             *)
(*                                                                         *)
(* A byte is the reply it belongs to and its place in it.  What a command  *)
(* does is Device's subject: here a command is a line, and its reply is    *)
(* ReplyLen bytes and a newline.                                           *)
(***************************************************************************)
EXTENDS Naturals, Sequences

CONSTANTS
    ReplyLen,   \* bytes of a reply, its newline not counted
    RingSize,   \* CONFIG_TINYUSB_CDC_TX_BUFSIZE
    RxDepth,    \* RX_QUEUE_DEPTH
    TxDepth,    \* TX_QUEUE_DEPTH
    MaxLines,   \* bound: lines the hosts send
    MaxEdges    \* bound: times DTR changes

ASSUME SerialAssumption ==
    /\ {ReplyLen, RingSize, RxDepth, TxDepth} \subseteq Nat \ {0}
    /\ MaxLines \in Nat /\ MaxEdges \in Nat

VARIABLES
    generation,   \* g_link_generation; DTR is up when it is odd
    clearing,     \* handle_line_state() has bumped it and not cleared the ring yet
    rxQueue,      \* g_rx_queue
    running,      \* the command serial_rx_task is at, or None
    txQueue,      \* g_tx_queue
    tx,           \* what serial_tx_task is doing
    needsResync,  \* g_line_tx.needs_resync
    ring,         \* TinyUSB's TX ring
    drops,        \* g_drops and g_tx_before_byte_drops
    lines,        \* history: lines received
    sentWhole,    \* history: replies written to their newline
    abandoned,    \* history: replies left because the port changed under them
    got,          \* history: the current line as received since DTR last changed
    heard         \* history: the current line as received since the port was last closed

outbound == <<tx, needsResync>>
history == <<lines, sentWhole, abandoned, got, heard>>
vars == <<generation, clearing, rxQueue, running, txQueue, outbound, ring, drops, history>>

None == 0
PortOpen == generation % 2 = 1
Newline == <<0, 0>>
Commands == 1 .. MaxLines
Byte == (Commands \X (1 .. ReplyLen)) \cup {Newline}

\* serial_tx_task: waiting for a reply to send (cmd None), or in line_tx_send().
\* stage says which write_all() it is in, at says where in it: "check" and
\* "write" are the two calls of serial_write(), "wait" is
\* serial_wait_for_space(), and "failed" is after line_tx_send() gave up.
Task == [cmd: Commands \cup {None}, generation: Nat, sent: Nat,
         stage: {"resync", "body", "end"}, at: {"check", "write", "wait", "failed"}]
Idle == [cmd |-> None, generation |-> 0, sent |-> 0, stage |-> "body", at |-> "check"]

TypeOK ==
    /\ generation \in 0 .. MaxEdges /\ clearing \in BOOLEAN
    /\ rxQueue \in Seq(Commands) /\ Len(rxQueue) <= RxDepth
    /\ running \in Commands \cup {None}
    /\ txQueue \in Seq(Commands) /\ Len(txQueue) <= TxDepth
    /\ tx \in Task /\ tx.sent <= ReplyLen
    /\ needsResync \in BOOLEAN
    /\ ring \in Seq(Byte) /\ Len(ring) <= RingSize
    /\ drops \in [rx: Nat, tx: Nat, stalled: Nat, beforeByte: Nat]
    /\ lines \in 0 .. MaxLines /\ sentWhole \in Nat /\ abandoned \in Nat
    /\ got \in Seq(Byte \ {Newline}) /\ heard \in Seq(Byte \ {Newline})

Init ==
    /\ generation = 0 /\ clearing = FALSE
    /\ rxQueue = <<>> /\ running = None /\ txQueue = <<>>
    /\ tx = Idle /\ needsResync = FALSE /\ ring = <<>>
    /\ drops = [rx |-> 0, tx |-> 0, stalled |-> 0, beforeByte |-> 0]
    /\ lines = 0 /\ sentWhole = 0 /\ abandoned = 0 /\ got = <<>> /\ heard = <<>>

-----------------------------------------------------------------------------
(***************************************************************************)
(* The TinyUSB task.                                                       *)
(***************************************************************************)

\* Mutant: a command that does not fit is forgotten.
QueueLineUncounted ==
    /\ lines < MaxLines /\ ~clearing
    /\ lines' = lines + 1
    /\ IF Len(rxQueue) < RxDepth
       THEN rxQueue' = Append(rxQueue, lines + 1) /\ UNCHANGED drops
       ELSE UNCHANGED <<rxQueue, drops>>
    /\ UNCHANGED <<generation, clearing, running, txQueue, outbound, ring,
                   sentWhole, abandoned, got, heard>>

\* queue_line(): a whole line came in.  A full queue never makes TinyUSB wait.
QueueLine ==
    /\ lines < MaxLines /\ ~clearing
    /\ lines' = lines + 1
    /\ IF Len(rxQueue) < RxDepth
       THEN rxQueue' = Append(rxQueue, lines + 1) /\ UNCHANGED drops
       ELSE drops' = [drops EXCEPT !.rx = @ + 1] /\ UNCHANGED rxQueue
    /\ UNCHANGED <<generation, clearing, running, txQueue, outbound, ring,
                   sentWhole, abandoned, got, heard>>

\* handle_line_state(), on an edge of DTR, as far as g_link_generation++.
LineState ==
    /\ generation < MaxEdges /\ ~clearing
    /\ generation' = generation + 1
    /\ clearing' = TRUE
    /\ UNCHANGED <<rxQueue, running, txQueue, outbound, ring, drops, history>>

\* tud_cdc_n_write_clear(), a step after the bump.  Whoever closes the port is
\* done reading; who opens it may have been listening before DTR came up.
ClearRing ==
    /\ clearing /\ clearing' = FALSE
    /\ ring' = <<>>
    /\ got' = <<>>
    /\ heard' = IF PortOpen THEN heard ELSE <<>>
    /\ UNCHANGED <<generation, rxQueue, running, txQueue, outbound, drops,
                   lines, sentWhole, abandoned>>

\* A byte reaches the host, by the task that also runs handle_line_state().
Transfer ==
    /\ ~clearing /\ ring # <<>>
    /\ ring' = Tail(ring)
    /\ got' = IF Head(ring) = Newline THEN <<>> ELSE Append(got, Head(ring))
    /\ heard' = IF Head(ring) = Newline THEN <<>> ELSE Append(heard, Head(ring))
    /\ UNCHANGED <<generation, clearing, rxQueue, running, txQueue, outbound, drops,
                   lines, sentWhole, abandoned>>

-----------------------------------------------------------------------------
(***************************************************************************)
(* serial_rx_task: one command at a time, the reply to g_tx_queue.         *)
(***************************************************************************)
TakeLine ==
    /\ running = None /\ rxQueue # <<>>
    /\ running' = Head(rxQueue)
    /\ rxQueue' = Tail(rxQueue)
    /\ UNCHANGED <<generation, clearing, txQueue, outbound, ring, drops, history>>

\* Mutant: g_tx_queue takes whatever comes.
RespondUnbounded ==
    /\ running # None /\ running' = None
    /\ txQueue' = Append(txQueue, running)
    /\ UNCHANGED <<generation, clearing, rxQueue, outbound, ring, drops, history>>

Respond ==
    /\ running # None
    /\ running' = None
    /\ IF Len(txQueue) < TxDepth
       THEN txQueue' = Append(txQueue, running) /\ UNCHANGED drops
       ELSE drops' = [drops EXCEPT !.tx = @ + 1] /\ UNCHANGED txQueue
    /\ UNCHANGED <<generation, clearing, rxQueue, outbound, ring, history>>

-----------------------------------------------------------------------------
(***************************************************************************)
(* serial_tx_task in line_tx_send().                                       *)
(***************************************************************************)

\* Mutant: the next reply begins where the torn one stopped.
BeginReplyGlued ==
    /\ tx.cmd = None /\ txQueue # <<>>
    /\ tx' = [Idle EXCEPT !.cmd = Head(txQueue), !.generation = generation]
    /\ txQueue' = Tail(txQueue)
    /\ UNCHANGED <<generation, clearing, rxQueue, running, needsResync, ring, drops, history>>

\* The next reply, for whoever has the port by now; a torn line is ended first.
BeginReply ==
    /\ tx.cmd = None /\ txQueue # <<>>
    /\ tx' = [Idle EXCEPT !.cmd = Head(txQueue), !.generation = generation,
                          !.stage = IF needsResync THEN "resync" ELSE "body"]
    /\ txQueue' = Tail(txQueue)
    /\ UNCHANGED <<generation, clearing, rxQueue, running, needsResync, ring, drops, history>>

HostStillThere == generation = tx.generation

\* serial_write() looks at the link ...
CheckHost ==
    /\ tx.cmd # None /\ tx.at = "check"
    /\ tx' = [tx EXCEPT !.at = IF HostStillThere THEN "write" ELSE "wait"]
    /\ UNCHANGED <<generation, clearing, rxQueue, running, txQueue, needsResync,
                   ring, drops, history>>

\* ... and then tinyusb_cdcacm_write_queue() takes the n bytes there is room for.
Pending == IF tx.stage = "body" THEN [i \in 1 .. ReplyLen - tx.sent |-> <<tx.cmd, tx.sent + i>>]
           ELSE <<Newline>>
Accepted == LET free == RingSize - Len(ring)
            IN  IF free < Len(Pending) THEN free ELSE Len(Pending)

\* The next write_all(), once this one has put all its bytes in the ring.
Advanced ==
    CASE tx.stage = "resync" -> [tx EXCEPT !.stage = "body", !.at = "check"]
      [] tx.stage = "body" ->
            [tx EXCEPT !.sent = ReplyLen, !.stage = "end", !.at = "check"]
      [] tx.stage = "end" -> Idle

WriteQueue ==
    /\ tx.cmd # None /\ tx.at = "write"
    /\ ring' = ring \o SubSeq(Pending, 1, Accepted)
    /\ tx' = CASE Accepted = 0 -> [tx EXCEPT !.at = "wait"]
               [] Accepted = Len(Pending) -> Advanced
               [] OTHER -> [tx EXCEPT !.sent = @ + Accepted, !.at = "check"]
    /\ needsResync' = (needsResync /\ ~(tx.stage = "resync" /\ Accepted = 1))
    /\ sentWhole' = IF tx.stage = "end" /\ Accepted = 1 THEN sentWhole + 1 ELSE sentWhole
    /\ UNCHANGED <<generation, clearing, rxQueue, running, txQueue, drops,
                   lines, abandoned, got, heard>>

\* serial_wait_for_space(): try again ...
Retry ==
    /\ tx.cmd # None /\ tx.at = "wait" /\ HostStillThere
    /\ tx' = [tx EXCEPT !.at = "check"]
    /\ UNCHANGED <<generation, clearing, rxQueue, running, txQueue, needsResync,
                   ring, drops, history>>

\* Mutant: only a host that has gone ends the wait.
GiveUpIfGone ==
    /\ tx.cmd # None /\ tx.at = "wait" /\ ~HostStillThere
    /\ tx' = [tx EXCEPT !.at = "failed"]
    /\ needsResync' = (needsResync \/ tx.sent > 0)
    /\ UNCHANGED <<generation, clearing, rxQueue, running, txQueue, ring, drops, history>>

\* ... or stop: the port has changed, or TX_GIVE_UP_US are over.
GiveUp ==
    /\ tx.cmd # None /\ tx.at = "wait"
    /\ tx' = [tx EXCEPT !.at = "failed"]
    /\ needsResync' = (needsResync \/ tx.sent > 0)
    /\ UNCHANGED <<generation, clearing, rxQueue, running, txQueue, ring, drops, history>>

\* serial_tx_task() charges the loss to the port, to a stall, or to a full ring.
Report ==
    /\ tx.cmd # None /\ tx.at = "failed"
    /\ \/ ~HostStillThere /\ abandoned' = abandoned + 1 /\ UNCHANGED drops
       \/ HostStillThere /\ tx.sent > 0
          /\ drops' = [drops EXCEPT !.stalled = @ + 1] /\ UNCHANGED abandoned
       \/ HostStillThere /\ tx.sent = 0
          /\ drops' = [drops EXCEPT !.beforeByte = @ + 1] /\ UNCHANGED abandoned
    /\ tx' = Idle
    /\ UNCHANGED <<generation, clearing, rxQueue, running, txQueue, needsResync, ring,
                   lines, sentWhole, got, heard>>

TxTask == BeginReply \/ CheckHost \/ WriteQueue \/ Retry \/ GiveUp \/ Report
RxTask == TakeLine \/ Respond
UsbTask == QueueLine \/ LineState \/ ClearRing \/ Transfer

Next == UsbTask \/ RxTask \/ TxTask

Spec == Init /\ [][Next]_vars

\* The tasks run, and the clock of TX_GIVE_UP_US does: a reply that keeps
\* coming back to the wait is past its deadline at some point.
FairSpec == Spec /\ WF_vars(RxTask) /\ WF_vars(TxTask) /\ SF_vars(GiveUp)

-----------------------------------------------------------------------------
(***************************************************************************)
(* Properties.                                                             *)
(***************************************************************************)

\* A run of one reply's bytes, none missing in the middle.
Run(line) ==
    \A i \in 1 .. Len(line) - 1 : line[i + 1] = <<line[i][1], line[i][2] + 1>>

\* line_tx.h, handle_line_state(): a client that reads from the moment it opens
\* the port is never given a line of two replies, or one with a hole in it:
\* not after a stall, not when the port was closed under a reply, and not by
\* the write that was past its check of the link when that happened.
RepliesAreContiguous == Run(got)

\* serial_cdc.c:223, "Bumping on both edges abandons that reply cleanly
\* instead": nor is one that has listened since before it raised DTR.
AbandonedCleanly == Run(heard)

Settled == drops.rx + drops.tx + drops.stalled + drops.beforeByte + sentWhole + abandoned
Queued == Len(rxQueue) + Len(txQueue)
AtWork == (IF running = None THEN 0 ELSE 1) + (IF tx.cmd = None THEN 0 ELSE 1)

\* g_drops: every line that came in is in a queue, at work, answered whole, or
\* in one of the counters that get_info reports.
EveryLineIsAccountedFor == lines = Settled + Queued + AtWork

\* "That retry must be bounded": whatever the host does or fails to read, every
\* line received is answered or counted as lost in the end.
EveryLineIsSettled == \A n \in Commands : (lines = n) ~> (Settled >= n)
=============================================================================
