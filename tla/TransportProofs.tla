-------------------------- MODULE TransportProofs --------------------------
(***************************************************************************)
(* Proofs about what the transports carry.                                 *)
(*                                                                         *)
(* SerialLink, for every size of its queues, its ring and its replies: the *)
(* types, the accounting of lines, and that no line a client reads is      *)
(* spliced.                                                                *)
(*                                                                         *)
(* Stream, for every stream and every way to cut it: what each reader has  *)
(* in hand is a function of the bytes it was fed.  The functions that the  *)
(* readers and their references are defined by recurse over places of the  *)
(* stream; a set of places, with UpTo, stands for the induction.           *)
(***************************************************************************)
EXTENDS SerialLink, Stream, FiniteSetTheorems, SequenceTheorems, WellFoundedInduction, TLAPS

LEMMA Sizes ==
    /\ ReplyLen \in Nat /\ ReplyLen > 0 /\ RingSize \in Nat /\ RingSize > 0
    /\ RxDepth \in Nat /\ RxDepth > 0 /\ TxDepth \in Nat /\ TxDepth > 0
    /\ MaxLines \in Nat /\ MaxEdges \in Nat
BY SerialAssumption

-----------------------------------------------------------------------------
(***************************************************************************)
(* Types: the two flags apart, since no backend does arithmetic and        *)
(* Boolean-valued variables in one step.                                   *)
(***************************************************************************)
Flags == clearing \in BOOLEAN /\ needsResync \in BOOLEAN

Queues ==
    /\ lines \in 0 .. MaxLines
    /\ rxQueue \in Seq(Commands) /\ Len(rxQueue) <= RxDepth
    /\ running \in Commands \cup {None}
    /\ txQueue \in Seq(Commands) /\ Len(txQueue) <= TxDepth

Counters ==
    /\ drops \in [rx: Nat, tx: Nat, stalled: Nat, beforeByte: Nat]
    /\ sentWhole \in Nat /\ abandoned \in Nat

Sending ==
    /\ generation \in 0 .. MaxEdges
    /\ tx \in Task /\ tx.sent <= ReplyLen
    /\ tx.stage = "body" => tx.sent < ReplyLen
    /\ tx.stage = "resync" => tx.sent = 0

Line ==
    /\ ring \in Seq(Byte) /\ Len(ring) <= RingSize
    /\ got \in Seq(Byte \ {Newline}) /\ heard \in Seq(Byte \ {Newline})

Data == Queues /\ Counters /\ Sending /\ Line

LEMMA Parts == Flags /\ Data => TypeOK
BY Zenon DEF TypeOK, Flags, Data, Queues, Counters, Sending, Line

LEMMA FlagsInit == Init => Flags
BY DEF Init, Flags

LEMMA FlagsStep == Flags /\ [Next]_vars => Flags'
<1> SUFFICES ASSUME Flags, [Next]_vars PROVE Flags'
  OBVIOUS
<1> USE DEF Flags, outbound
<1>1. CASE UsbTask
  BY <1>1 DEF UsbTask, QueueLine, LineState, ClearRing, Transfer
<1>2. CASE RxTask
  BY <1>2 DEF RxTask, TakeLine, Respond
<1>3. CASE TxTask
  BY <1>3 DEF TxTask, BeginReply, CheckHost, WriteQueue, Retry, GiveUp, Report
<1>4. CASE UNCHANGED vars
  BY <1>4 DEF vars
<1> QED
  BY <1>1, <1>2, <1>3, <1>4 DEF Next

LEMMA DataInit == Init => Data
BY Sizes DEF Init, Data, Queues, Counters, Sending, Line, Task, Idle, None

LEMMA PendingIs ==
    ASSUME Data, tx.cmd # None
    PROVE  /\ Pending \in Seq(Byte) /\ Accepted \in 0 .. Len(Pending)
           /\ Accepted <= RingSize - Len(ring)
           /\ Len(Pending) = IF tx.stage = "body" THEN ReplyLen - tx.sent ELSE 1
           /\ Len(Pending) > 0
           /\ \A i \in 1 .. Len(Pending) :
                 Pending[i] = IF tx.stage = "body" THEN <<tx.cmd, tx.sent + i>> ELSE Newline
<1>1. CASE tx.stage = "body"
  <2> DEFINE n == ReplyLen - tx.sent
  <2>0. tx.sent \in Nat /\ tx.sent < ReplyLen /\ tx.cmd \in Commands
    BY <1>1 DEF Data, Sending, Task
  <2>1. n \in Nat /\ n > 0 /\ tx.cmd \in Commands /\ ReplyLen \in Nat /\ tx.sent \in Nat
    BY <2>0, Sizes
  <2>2. \A i \in 1 .. n : <<tx.cmd, tx.sent + i>> \in Byte
    BY <2>1 DEF Byte
  <2>3. Pending = [i \in 1 .. n |-> <<tx.cmd, tx.sent + i>>]
    BY <1>1 DEF Pending
  <2> HIDE DEF n
  <2>4. Pending \in Seq(Byte) /\ Len(Pending) = n
    BY <2>1, <2>2, <2>3
  <2>5. Accepted \in 0 .. Len(Pending) /\ Accepted <= RingSize - Len(ring)
    BY <2>1, <2>4, Sizes DEF Accepted, Data, Line
  <2> QED
    BY <1>1, <2>1, <2>3, <2>4, <2>5 DEF n
<1>2. CASE tx.stage # "body"
  <2>1. Pending = <<Newline>> /\ Newline \in Byte
    BY <1>2 DEF Pending, Byte
  <2>2. Pending \in Seq(Byte) /\ Len(Pending) = 1 /\ Pending[1] = Newline
    BY <2>1
  <2>3. Accepted \in 0 .. Len(Pending) /\ Accepted <= RingSize - Len(ring)
    BY <2>2, Sizes DEF Accepted, Data, Line
  <2> QED
    BY <1>2, <2>2, <2>3
<1> QED
  BY <1>1, <1>2

LEMMA QueuesUsb == Queues /\ Counters /\ UsbTask => Queues' /\ Counters'
<1> SUFFICES ASSUME Queues, Counters, UsbTask PROVE Queues' /\ Counters'
  OBVIOUS
<1>1. CASE QueueLine
  <2>1. /\ lines < MaxLines /\ lines' = lines + 1
        /\ \/ /\ Len(rxQueue) < RxDepth /\ rxQueue' = Append(rxQueue, lines + 1)
              /\ drops' = drops
           \/ drops' = [drops EXCEPT !.rx = drops.rx + 1] /\ rxQueue' = rxQueue
    BY <1>1 DEF QueueLine
  <2>2. UNCHANGED <<running, txQueue, sentWhole, abandoned>>
    BY <1>1 DEF QueueLine
  <2>3. lines' \in 0 .. MaxLines /\ lines + 1 \in Commands
    BY <2>1, Sizes DEF Queues, Commands
  <2>4. rxQueue' \in Seq(Commands) /\ Len(rxQueue') <= RxDepth
    <3>1. rxQueue \in Seq(Commands) /\ Len(rxQueue) <= RxDepth
      BY DEF Queues
    <3>2. CASE Len(rxQueue) < RxDepth /\ rxQueue' = Append(rxQueue, lines + 1)
      BY <2>3, <3>1, <3>2, Sizes
    <3> QED
      BY <2>1, <3>1, <3>2
  <2>5. drops' \in [rx: Nat, tx: Nat, stalled: Nat, beforeByte: Nat]
    BY <2>1 DEF Counters
  <2>6. Queues'
    BY <2>2, <2>3, <2>4 DEF Queues
  <2> QED
    BY <2>2, <2>5, <2>6 DEF Counters
<1>2. CASE LineState \/ ClearRing \/ Transfer
  BY <1>2 DEF LineState, ClearRing, Transfer, Queues, Counters, history
<1> QED
  BY <1>1, <1>2 DEF UsbTask

LEMMA LineUsb == Line /\ Sending /\ UsbTask => Line' /\ Sending'
<1> SUFFICES ASSUME Line, Sending, UsbTask PROVE Line' /\ Sending'
  OBVIOUS
<1>1. CASE QueueLine
  BY <1>1 DEF QueueLine, Line, Sending, outbound
<1>2. CASE LineState
  <2>1. generation < MaxEdges /\ generation' = generation + 1
        /\ UNCHANGED <<tx, ring, got, heard>>
    BY <1>2 DEF LineState, outbound, history
  <2>2. generation' \in 0 .. MaxEdges
    BY <2>1, Sizes DEF Sending
  <2> QED
    BY <2>1, <2>2 DEF Line, Sending
<1>3. CASE ClearRing
  <2>1. /\ ring' = <<>> /\ got' = <<>> /\ (heard' = heard \/ heard' = <<>>)
        /\ UNCHANGED <<generation, tx>>
    BY <1>3 DEF ClearRing, outbound
  <2>2. ring' \in Seq(Byte) /\ Len(ring') <= RingSize
    <3>1. ring' = <<>>
      BY <2>1
    <3> QED
      BY <3>1, Sizes
  <2>3. got' \in Seq(Byte \ {Newline}) /\ heard' \in Seq(Byte \ {Newline})
    <3>1. got' \in Seq(Byte \ {Newline})
      BY <2>1
    <3>2. CASE heard' = heard
      BY <3>1, <3>2 DEF Line
    <3>3. CASE heard' = <<>>
      BY <3>1, <3>3
    <3> QED
      BY <2>1, <3>2, <3>3
  <2>4. Line'
    BY <2>2, <2>3 DEF Line
  <2> QED
    BY <2>1, <2>4 DEF Sending
<1>4. CASE Transfer
  <2>1. /\ ring # <<>> /\ ring' = Tail(ring)
        /\ got' = IF Head(ring) = Newline THEN <<>> ELSE Append(got, Head(ring))
        /\ heard' = IF Head(ring) = Newline THEN <<>> ELSE Append(heard, Head(ring))
        /\ UNCHANGED <<generation, tx>>
    BY <1>4 DEF Transfer, outbound
  <2>2. Head(ring) \in Byte /\ ring' \in Seq(Byte) /\ Len(ring') <= RingSize
    BY <2>1, Sizes DEF Line
  <2>3. Line'
    BY <2>1, <2>2 DEF Line
  <2> QED
    BY <2>1, <2>3 DEF Sending
<1> QED
  BY <1>1, <1>2, <1>3, <1>4 DEF UsbTask

LEMMA DataRx == Data /\ RxTask => Data'
<1> SUFFICES ASSUME Data, RxTask PROVE Data'
  OBVIOUS
<1>1. UNCHANGED <<generation, tx, ring, lines, sentWhole, abandoned, got, heard>>
  BY DEF RxTask, TakeLine, Respond, outbound, history
<1>2. Line' /\ Sending'
  BY <1>1 DEF Data, Line, Sending
<1>3. CASE TakeLine
  <2>1. /\ rxQueue # <<>> /\ running' = Head(rxQueue) /\ rxQueue' = Tail(rxQueue)
        /\ UNCHANGED <<txQueue, drops>>
    BY <1>3 DEF TakeLine
  <2>2. rxQueue \in Seq(Commands) /\ Len(rxQueue) <= RxDepth
    BY DEF Data, Queues
  <2>3. running' \in Commands /\ rxQueue' \in Seq(Commands) /\ Len(rxQueue') <= RxDepth
    BY <2>1, <2>2, Sizes
  <2>4. Queues'
    BY <1>1, <2>1, <2>3 DEF Data, Queues
  <2> QED
    BY <1>1, <1>2, <2>1, <2>4 DEF Data, Counters
<1>4. CASE Respond
  <2>1. /\ running # None /\ running' = None /\ rxQueue' = rxQueue
        /\ \/ /\ Len(txQueue) < TxDepth /\ txQueue' = Append(txQueue, running)
              /\ drops' = drops
           \/ drops' = [drops EXCEPT !.tx = drops.tx + 1] /\ txQueue' = txQueue
    BY <1>4 DEF Respond
  <2>2. running \in Commands
    BY <2>1 DEF Data, Queues
  <2>3. txQueue' \in Seq(Commands) /\ Len(txQueue') <= TxDepth
    <3>1. txQueue \in Seq(Commands) /\ Len(txQueue) <= TxDepth
      BY DEF Data, Queues
    <3>2. CASE Len(txQueue) < TxDepth /\ txQueue' = Append(txQueue, running)
      BY <2>2, <3>1, <3>2, Sizes
    <3> QED
      BY <2>1, <3>1, <3>2
  <2>4. Queues'
    BY <1>1, <2>1, <2>3 DEF Data, Queues
  <2>5. drops' \in [rx: Nat, tx: Nat, stalled: Nat, beforeByte: Nat]
    BY <2>1 DEF Data, Counters
  <2> QED
    BY <1>1, <1>2, <2>4, <2>5 DEF Data, Counters
<1> QED
  BY <1>3, <1>4 DEF RxTask

LEMMA IdleIsTask == Idle \in Task /\ Idle.sent = 0 /\ Idle.cmd = None /\ Idle.stage = "body"
BY DEF Idle, Task, None

\* A reply being sent moves within its writes.
LEMMA MoveIsTask ==
    ASSUME Sending, NEW at \in {"check", "write", "wait", "failed"},
           tx' = [tx EXCEPT !.at = at]
    PROVE  tx' \in Task /\ tx'.sent = tx.sent /\ tx'.stage = tx.stage
BY DEF Sending, Task

\* ... or from one write to the next.
LEMMA UpdateIsTask ==
    ASSUME tx \in Task, NEW sent \in Nat, NEW stage \in {"resync", "body", "end"}
    PROVE  LET u == [tx EXCEPT !.sent = sent, !.stage = stage, !.at = "check"]
           IN  u \in Task /\ u.sent = sent /\ u.stage = stage
BY DEF Task

LEMMA DataTx == Data /\ TxTask => Data'
<1> SUFFICES ASSUME Data, TxTask PROVE Data'
  OBVIOUS
<1>0. /\ tx \in Task /\ tx.sent \in Nat /\ ReplyLen \in Nat /\ 0 < ReplyLen
      /\ tx.stage = "resync" => tx.sent = 0
  BY Sizes DEF Data, Sending, Task
<1>1. CASE BeginReply
  <2>1. /\ txQueue # <<>> /\ txQueue' = Tail(txQueue)
        /\ tx' = [Idle EXCEPT !.cmd = Head(txQueue), !.generation = generation,
                              !.stage = IF needsResync THEN "resync" ELSE "body"]
        /\ UNCHANGED <<generation, rxQueue, running, ring, drops, lines, sentWhole, abandoned,
                       got, heard>>
    BY <1>1 DEF BeginReply, history
  <2>2. Head(txQueue) \in Commands /\ txQueue' \in Seq(Commands) /\ Len(txQueue') <= TxDepth
    BY <2>1, Sizes DEF Data, Queues
  <2>3. generation \in Nat
    BY Sizes DEF Data, Sending
  <2>4. tx' \in Task /\ tx'.sent = 0
    BY <2>1, <2>2, <2>3 DEF Task, Idle
  <2> QED
    BY <1>0, <2>1, <2>2, <2>4, SMTT(30) DEF Data, Queues, Counters, Sending, Line
<1>2. CASE CheckHost
  <2>1. tx' \in Task /\ tx'.sent = tx.sent /\ tx'.stage = tx.stage
    BY <1>2, MoveIsTask DEF CheckHost, Data
  <2>2. UNCHANGED <<generation, rxQueue, running, txQueue, ring, drops, lines, sentWhole,
                    abandoned, got, heard>>
    BY <1>2 DEF CheckHost, history
  <2> QED
    BY <2>1, <2>2 DEF Data, Queues, Counters, Sending, Line
<1>3. CASE WriteQueue
  <2>1. /\ Pending \in Seq(Byte) /\ Accepted \in 0 .. Len(Pending)
        /\ Accepted <= RingSize - Len(ring)
        /\ Len(Pending) = IF tx.stage = "body" THEN ReplyLen - tx.sent ELSE 1
        /\ Len(Pending) > 0
    BY <1>3, PendingIs DEF WriteQueue
  <2> DEFINE new == SubSeq(Pending, 1, Accepted)
  <2>2. new \in Seq(Byte) /\ Len(new) = Accepted
    BY <2>1
  <2>3. ring' = ring \o new
    BY <1>3 DEF WriteQueue
  <2>4. ring' \in Seq(Byte) /\ Len(ring') <= RingSize
    <3> HIDE DEF new
    <3> QED
      BY <2>1, <2>2, <2>3, Sizes DEF Data, Line
  <2>5. tx' \in Task /\ tx'.sent <= ReplyLen 
        /\ (tx'.stage = "body" => tx'.sent < ReplyLen)
        /\ (tx'.stage = "resync" => tx'.sent = 0)
    <3>1. /\ Advanced \in Task /\ Advanced.sent <= ReplyLen
          /\ Advanced.stage # "resync" /\ (Advanced.stage = "body" => Advanced.sent < ReplyLen)
      <4>1. tx.stage \in {"resync", "body", "end"}
        BY DEF Data, Sending, Task
      <4>2. CASE tx.stage = "resync"
        <5>1. Advanced = [tx EXCEPT !.stage = "body", !.at = "check"]
          BY <4>2 DEF Advanced
        <5>2. Advanced = [tx EXCEPT !.sent = tx.sent, !.stage = "body", !.at = "check"]
          BY <1>0, <5>1 DEF Task
        <5>3. Advanced \in Task /\ Advanced.sent = tx.sent /\ Advanced.stage = "body"
          BY <1>0, <5>2, UpdateIsTask
        <5> QED
          BY <1>0, <4>2, <5>3
      <4>3. CASE tx.stage = "body"
        <5>1. Advanced = [tx EXCEPT !.sent = ReplyLen, !.stage = "end", !.at = "check"]
          BY <4>3 DEF Advanced
        <5>2. Advanced \in Task /\ Advanced.sent = ReplyLen /\ Advanced.stage = "end"
          BY <1>0, <5>1, UpdateIsTask
        <5> QED
          BY <1>0, <5>2
      <4>4. CASE tx.stage = "end"
        BY <1>0, <4>4, IdleIsTask DEF Advanced
      <4> QED
        BY <4>1, <4>2, <4>3, <4>4
    <3>2. CASE Accepted = 0
      <4>1. tx' = [tx EXCEPT !.at = "wait"]
        BY <1>3, <2>1, <3>2 DEF WriteQueue
      <4>2. tx' \in Task /\ tx'.sent = tx.sent /\ tx'.stage = tx.stage
        BY <4>1, MoveIsTask DEF Data
      <4> QED
        BY <4>2 DEF Data, Sending
    <3>3. CASE Accepted # 0 /\ Accepted = Len(Pending)
      BY <1>3, <3>1, <3>3 DEF WriteQueue
    <3>4. CASE Accepted # 0 /\ Accepted # Len(Pending)
      <4>1. tx.stage = "body" /\ tx.sent + Accepted \in Nat /\ tx.sent + Accepted < ReplyLen
        BY <1>0, <2>1, <3>4
      <4>2. tx' = [tx EXCEPT !.sent = tx.sent + Accepted, !.at = "check"]
        BY <1>3, <3>4 DEF WriteQueue
      <4>3. tx' = [tx EXCEPT !.sent = tx.sent + Accepted, !.stage = tx.stage, !.at = "check"]
        BY <1>0, <4>2 DEF Task
      <4>4. tx' \in Task /\ tx'.sent = tx.sent + Accepted /\ tx'.stage = "body"
        <5>1. tx.stage \in {"resync", "body", "end"}
          BY <1>0 DEF Task
        <5> QED
          BY <1>0, <4>1, <4>3, <5>1, UpdateIsTask, ZenonT(60)
      <4> QED
        BY <1>0, <4>1, <4>4
    <3> QED
      BY <3>2, <3>3, <3>4
  <2>6. sentWhole' = sentWhole + 1 \/ sentWhole' = sentWhole
    BY <1>3 DEF WriteQueue
  <2>7. UNCHANGED <<generation, rxQueue, running, txQueue, drops, lines, abandoned, got, heard>>
    BY <1>3 DEF WriteQueue
  <2> QED
    BY <2>4, <2>5, <2>6, <2>7 DEF Data, Queues, Counters, Sending, Line
<1>4. CASE Retry \/ GiveUp
  <2>1. /\ \/ tx' = [tx EXCEPT !.at = "check"]
           \/ tx' = [tx EXCEPT !.at = "failed"]
        /\ UNCHANGED <<generation, rxQueue, running, txQueue, ring, drops, lines, sentWhole,
                       abandoned, got, heard>>
    BY <1>4 DEF Retry, GiveUp, history
  <2>2. tx' \in Task /\ tx'.sent = tx.sent /\ tx'.stage = tx.stage
    BY <2>1, MoveIsTask DEF Data
  <2> QED
    BY <2>1, <2>2 DEF Data, Queues, Counters, Sending, Line
<1>5. CASE Report
  <2>1. /\ \/ abandoned' = abandoned + 1 /\ drops' = drops
           \/ drops' = [drops EXCEPT !.stalled = drops.stalled + 1] /\ abandoned' = abandoned
           \/ drops' = [drops EXCEPT !.beforeByte = drops.beforeByte + 1] /\ abandoned' = abandoned
        /\ tx' = Idle
        /\ UNCHANGED <<generation, rxQueue, running, txQueue, ring, lines, sentWhole, got, heard>>
    BY <1>5 DEF Report
  <2>2. Counters'
    BY <2>1 DEF Data, Counters
  <2>3. tx' \in Task /\ tx'.sent = 0 /\ tx'.stage = "body"
    BY <1>0, <2>1, IdleIsTask
  <2> QED
    BY <1>0, <2>1, <2>2, <2>3 DEF Data, Queues, Sending, Line
<1> QED
  BY <1>1, <1>2, <1>3, <1>4, <1>5 DEF TxTask

LEMMA DataStep == Data /\ [Next]_vars => Data'
<1>1. Data /\ UNCHANGED vars => Data'
  BY DEF Data, Queues, Counters, Sending, Line, vars, outbound, history
<1> QED
  BY <1>1, QueuesUsb, LineUsb, DataRx, DataTx DEF Next, Data

\* Every variable of the link keeps its type, queues and ring within their sizes.
THEOREM TypeCorrect == Spec => []TypeOK
BY Parts, FlagsInit, FlagsStep, DataInit, DataStep, PTL DEF Spec

-----------------------------------------------------------------------------
(***************************************************************************)
(* The accounting of lines is inductive by itself, given the types.        *)
(***************************************************************************)
LEMMA Sums ==
    ASSUME Data
    PROVE  /\ Settled \in Nat /\ Queued \in Nat /\ AtWork \in Nat
           /\ drops.rx \in Nat /\ drops.tx \in Nat /\ drops.stalled \in Nat
           /\ drops.beforeByte \in Nat
<1>1. /\ drops.rx \in Nat /\ drops.tx \in Nat /\ drops.stalled \in Nat
      /\ drops.beforeByte \in Nat /\ sentWhole \in Nat /\ abandoned \in Nat
  BY DEF Data, Counters
<1>2. Len(rxQueue) \in Nat /\ Len(txQueue) \in Nat
  BY DEF Data, Queues
<1>3. Settled \in Nat
  BY <1>1 DEF Settled
<1>4. Queued \in Nat
  BY <1>2 DEF Queued
<1>5. AtWork \in Nat
  BY DEF AtWork
<1> QED
  BY <1>1, <1>3, <1>4, <1>5

LEMMA AccountInit == Init => EveryLineIsAccountedFor
BY DEF Init, Idle, None, EveryLineIsAccountedFor, Settled, Queued, AtWork

LEMMA AccountStep == Data /\ EveryLineIsAccountedFor /\ [Next]_vars => EveryLineIsAccountedFor'
<1> SUFFICES ASSUME Data, EveryLineIsAccountedFor, [Next]_vars PROVE EveryLineIsAccountedFor'
  OBVIOUS
<1>0. None \notin Commands /\ Settled \in Nat /\ Queued \in Nat /\ AtWork \in Nat
  BY Sums DEF None, Commands
<1>1. CASE UNCHANGED <<lines, drops, sentWhole, abandoned, rxQueue, txQueue, running, tx>>
  BY <1>1 DEF EveryLineIsAccountedFor, Settled, Queued, AtWork
<1>2. CASE LineState \/ ClearRing \/ Transfer \/ UNCHANGED vars
  BY <1>1, <1>2 DEF LineState, ClearRing, Transfer, vars, outbound, history
<1>3. CASE QueueLine
  <2>1. /\ lines' = lines + 1
        /\ UNCHANGED <<txQueue, running, tx, sentWhole, abandoned>>
        /\ \/ rxQueue' = Append(rxQueue, lines + 1) /\ drops' = drops
           \/ drops' = [drops EXCEPT !.rx = drops.rx + 1] /\ rxQueue' = rxQueue
    BY <1>3 DEF QueueLine, outbound
  <2>2. AtWork' = AtWork
    BY <2>1 DEF AtWork
  <2>3. CASE rxQueue' = Append(rxQueue, lines + 1) /\ drops' = drops
    <3>1. Len(rxQueue') = Len(rxQueue) + 1 /\ Len(rxQueue) \in Nat /\ Len(txQueue) \in Nat
      BY <2>3 DEF Data, Queues
    <3>2. Queued' = Queued + 1 /\ Settled' = Settled
      BY <2>1, <2>3, <3>1 DEF Queued, Settled
    <3> QED
      BY <1>0, <2>1, <2>2, <3>2 DEF EveryLineIsAccountedFor
  <2>4. CASE drops' = [drops EXCEPT !.rx = drops.rx + 1] /\ rxQueue' = rxQueue
    <3>1. Settled' = Settled + 1
      BY <2>1, <2>4, Sums DEF Data, Counters, Settled
    <3>2. Queued' = Queued
      BY <2>1, <2>4 DEF Queued
    <3> QED
      BY <1>0, <2>1, <2>2, <3>1, <3>2 DEF EveryLineIsAccountedFor
  <2> QED
    BY <2>1, <2>3, <2>4
<1>4. CASE TakeLine
  <2>1. /\ running = None /\ running' = Head(rxQueue) /\ rxQueue # <<>>
        /\ rxQueue' = Tail(rxQueue)
        /\ UNCHANGED <<txQueue, tx, drops, lines, sentWhole, abandoned>>
    BY <1>4 DEF TakeLine, outbound, history
  <2>2. /\ Len(rxQueue') = Len(rxQueue) - 1 /\ Len(rxQueue) \in Nat /\ Len(txQueue) \in Nat
        /\ running' # None
    BY <1>0, <2>1 DEF Data, Queues
  <2>3. Queued' = Queued - 1 /\ Settled' = Settled
    BY <2>1, <2>2 DEF Queued, Settled
  <2>4. AtWork' = AtWork + 1
    BY <2>1, <2>2 DEF AtWork
  <2> QED
    BY <1>0, <2>1, <2>3, <2>4 DEF EveryLineIsAccountedFor
<1>5. CASE Respond
  <2>1. /\ running # None /\ running' = None
        /\ UNCHANGED <<rxQueue, tx, lines, sentWhole, abandoned>>
        /\ \/ txQueue' = Append(txQueue, running) /\ drops' = drops
           \/ drops' = [drops EXCEPT !.tx = drops.tx + 1] /\ txQueue' = txQueue
    BY <1>5 DEF Respond, outbound, history
  <2>2. AtWork' = AtWork - 1
    <3>1. running # None /\ running' = None /\ tx' = tx
      BY <2>1
    <3> QED
      BY <3>1 DEF AtWork
  <2>3. CASE txQueue' = Append(txQueue, running) /\ drops' = drops
    <3>1. Len(txQueue') = Len(txQueue) + 1 /\ Len(rxQueue) \in Nat /\ Len(txQueue) \in Nat
      BY <2>3 DEF Data, Queues
    <3>2. Queued' = Queued + 1 /\ Settled' = Settled
      BY <2>1, <2>3, <3>1 DEF Queued, Settled
    <3> QED
      BY <1>0, <2>1, <2>2, <3>2 DEF EveryLineIsAccountedFor
  <2>4. CASE drops' = [drops EXCEPT !.tx = drops.tx + 1] /\ txQueue' = txQueue
    <3>1. Settled' = Settled + 1
      BY <2>1, <2>4, Sums DEF Data, Counters, Settled
    <3>2. Queued' = Queued
      BY <2>1, <2>4 DEF Queued
    <3> QED
      BY <1>0, <2>1, <2>2, <3>1, <3>2 DEF EveryLineIsAccountedFor
  <2> QED
    BY <2>1, <2>3, <2>4
<1>6. CASE BeginReply
  <2>1. /\ tx.cmd = None /\ txQueue # <<>> /\ txQueue' = Tail(txQueue)
        /\ tx' = [Idle EXCEPT !.cmd = Head(txQueue), !.generation = generation,
                              !.stage = IF needsResync THEN "resync" ELSE "body"]
        /\ UNCHANGED <<rxQueue, running, drops, lines, sentWhole, abandoned>>
    BY <1>6 DEF BeginReply, history
  <2>2. /\ Len(txQueue') = Len(txQueue) - 1 /\ Len(rxQueue) \in Nat /\ Len(txQueue) \in Nat
        /\ Head(txQueue) # None
    BY <1>0, <2>1 DEF Data, Queues
  <2>3. tx'.cmd # None
    BY <2>1, <2>2 DEF Idle
  <2>4. tx.cmd = None /\ UNCHANGED <<rxQueue, running, drops, lines, sentWhole, abandoned>>
    BY <2>1
  <2>5. Queued' = Queued - 1 /\ Settled' = Settled
    BY <2>2, <2>4 DEF Queued, Settled
  <2>6. AtWork' = AtWork + 1
    BY <2>3, <2>4 DEF AtWork
  <2> QED
    BY <1>0, <2>4, <2>5, <2>6 DEF EveryLineIsAccountedFor
<1>7. CASE CheckHost \/ Retry \/ GiveUp
  <2>1. tx'.cmd = tx.cmd
    BY <1>7 DEF CheckHost, Retry, GiveUp, Data, Sending, Task
  <2>2. UNCHANGED <<lines, drops, sentWhole, abandoned, rxQueue, txQueue, running>>
    BY <1>7 DEF CheckHost, Retry, GiveUp, history
  <2> QED
    BY <2>1, <2>2 DEF EveryLineIsAccountedFor, Settled, Queued, AtWork
<1>8. CASE Report
  <2>1. /\ tx.cmd # None /\ tx' = Idle
        /\ UNCHANGED <<rxQueue, running, txQueue, lines, sentWhole>>
        /\ \/ abandoned' = abandoned + 1 /\ drops' = drops
           \/ drops' = [drops EXCEPT !.stalled = drops.stalled + 1] /\ abandoned' = abandoned
           \/ drops' = [drops EXCEPT !.beforeByte = drops.beforeByte + 1] /\ abandoned' = abandoned
    BY <1>8 DEF Report
  <2>2. Settled' = Settled + 1
    BY <2>1, Sums DEF Data, Counters, Settled
  <2>3. tx'.cmd = None /\ tx.cmd # None /\ UNCHANGED <<rxQueue, running, txQueue, lines>>
    BY <2>1, IdleIsTask
  <2>4. AtWork' = AtWork - 1 /\ Queued' = Queued
    BY <2>3 DEF AtWork, Queued
  <2> QED
    BY <1>0, <2>2, <2>3, <2>4 DEF EveryLineIsAccountedFor
<1>9. CASE WriteQueue
  <2>1. UNCHANGED <<rxQueue, running, txQueue, drops, lines, abandoned>> /\ tx.cmd # None
    BY <1>9 DEF WriteQueue
  <2>2. /\ Accepted \in 0 .. Len(Pending) /\ Len(Pending) > 0 /\ Len(Pending) \in Nat
        /\ tx.stage # "body" => Len(Pending) = 1
    BY <2>1, PendingIs
  <2>3. CASE tx.stage = "end" /\ Accepted = 1
    <3>1. tx' = Idle /\ sentWhole' = sentWhole + 1
      BY <1>9, <2>2, <2>3 DEF WriteQueue, Advanced
    <3>2. tx'.cmd = None /\ sentWhole' = sentWhole + 1
      BY <3>1, IdleIsTask
    <3>3. Settled' = Settled + 1
      BY <2>1, <3>2, Sums DEF Settled, Data, Counters
    <3>4. AtWork' = AtWork - 1 /\ Queued' = Queued
      BY <2>1, <3>2 DEF AtWork, Queued
    <3> QED
      BY <1>0, <2>1, <3>3, <3>4 DEF EveryLineIsAccountedFor
  <2>4. CASE ~(tx.stage = "end" /\ Accepted = 1)
    <3>1. sentWhole' = sentWhole
      BY <1>9, <2>4 DEF WriteQueue
    <3>2. tx'.cmd = tx.cmd
      <4>1. tx.stage \in {"resync", "body", "end"} /\ tx \in Task
        BY DEF Data, Sending, Task
      <4>2. CASE Accepted = 0
        BY <1>9, <2>2, <4>1, <4>2 DEF WriteQueue, Task
      <4>3. CASE Accepted # 0 /\ Accepted = Len(Pending)
        <5>1. tx' = Advanced /\ tx.stage \in {"resync", "body"}
          BY <1>9, <2>2, <2>4, <4>1, <4>3 DEF WriteQueue
        <5> QED
          BY <4>1, <5>1 DEF Advanced, Task
      <4>4. CASE Accepted # 0 /\ Accepted # Len(Pending)
        BY <1>9, <4>1, <4>4 DEF WriteQueue, Task
      <4> QED
        BY <4>2, <4>3, <4>4
    <3> QED
      BY <2>1, <3>1, <3>2 DEF EveryLineIsAccountedFor, Settled, Queued, AtWork
  <2> QED
    BY <2>3, <2>4
<1> QED
  BY <1>2, <1>3, <1>4, <1>5, <1>6, <1>7, <1>8, <1>9 DEF Next, UsbTask, RxTask, TxTask

\* No line is lost without a count, whatever the sizes of queues and ring.
THEOREM LinesAreAccountedFor == Spec => []EveryLineIsAccountedFor
BY DataInit, DataStep, AccountInit, AccountStep, PTL DEF Spec

-----------------------------------------------------------------------------
(***************************************************************************)
(* No line is spliced.  What the client has of its current line and what   *)
(* the ring still holds are one chain, in which a byte follows the one     *)
(* before it in the same reply or a newline stands between them; and when  *)
(* the chain does not end in a newline, serial_tx_task is about to go on   *)
(* from that byte, or needs_resync stands.                                 *)
(***************************************************************************)
Follows(a, b) == a = Newline \/ b = Newline \/ b = <<a[1], a[2] + 1>>
Chained(s) == \A i \in 1 .. Len(s) - 1 : Follows(s[i], s[i + 1])

Wire == got \o ring
Broken == tx.cmd = None \/ tx.stage = "resync" \/ tx.at = "failed"
GoesOn(b) == IF Broken THEN needsResync ELSE tx.sent > 0 /\ b = <<tx.cmd, tx.sent>>

NoSplice ==
    /\ Chained(Wire)
    /\ Wire # <<>> /\ Wire[Len(Wire)] # Newline => GoesOn(Wire[Len(Wire)])

LEMMA ChainedConcat ==
    ASSUME NEW s \in Seq(Byte), NEW t \in Seq(Byte), Chained(s), Chained(t),
           s # <<>> /\ t # <<>> => Follows(s[Len(s)], t[1])
    PROVE  Chained(s \o t)
<1> DEFINE c == s \o t
<1>1. /\ c \in Seq(Byte) /\ Len(c) = Len(s) + Len(t)
      /\ Len(s) \in Nat /\ Len(t) \in Nat
      /\ \A i \in 1 .. Len(s) + Len(t) : c[i] = IF i <= Len(s) THEN s[i] ELSE t[i - Len(s)]
  BY ConcatProperties
<1> HIDE DEF c
<1>2. SUFFICES ASSUME NEW i \in 1 .. Len(c) - 1 PROVE Follows(c[i], c[i + 1])
  BY DEF Chained, c
<1>3. i \in Nat /\ i >= 1 /\ i + 1 <= Len(s) + Len(t)
  BY <1>1
<1>4. CASE i + 1 <= Len(s)
  <2>1. c[i] = s[i] /\ c[i + 1] = s[i + 1] /\ i \in 1 .. Len(s) - 1
    BY <1>1, <1>3, <1>4
  <2> QED
    BY <2>1 DEF Chained
<1>5. CASE i = Len(s)
  <2>1. c[i] = s[Len(s)] /\ c[i + 1] = t[1] /\ Len(t) > 0 /\ Len(s) > 0
    BY <1>1, <1>3, <1>5
  <2>2. s # <<>> /\ t # <<>>
    BY <2>1
  <2> QED
    BY <2>1, <2>2
<1>6. CASE i > Len(s)
  <2>1. /\ c[i] = t[i - Len(s)] /\ c[i + 1] = t[i - Len(s) + 1]
        /\ i - Len(s) \in 1 .. Len(t) - 1
    BY <1>1, <1>3, <1>6, SMTT(30)
  <2> QED
    BY <2>1 DEF Chained
<1> QED
  BY <1>1, <1>3, <1>4, <1>5, <1>6

LEMMA ChainedSuffix ==
    ASSUME NEW s \in Seq(Byte), NEW t \in Seq(Byte), Chained(s \o t)
    PROVE  Chained(t)
<1> DEFINE c == s \o t
<1>1. /\ Len(c) = Len(s) + Len(t) /\ Len(s) \in Nat /\ Len(t) \in Nat
      /\ \A i \in 1 .. Len(s) + Len(t) : c[i] = IF i <= Len(s) THEN s[i] ELSE t[i - Len(s)]
  BY ConcatProperties
<1> HIDE DEF c
<1>2. SUFFICES ASSUME NEW i \in 1 .. Len(t) - 1 PROVE Follows(t[i], t[i + 1])
  BY DEF Chained
<1>3. i + Len(s) \in 1 .. Len(c) - 1 /\ c[i + Len(s)] = t[i] /\ c[i + Len(s) + 1] = t[i + 1]
  BY <1>1, SMTT(30)
<1> QED
  BY <1>3 DEF Chained, c

LEMMA LastOfConcat ==
    ASSUME NEW s \in Seq(Byte), NEW t \in Seq(Byte), t # <<>>
    PROVE  s \o t # <<>> /\ (s \o t)[Len(s \o t)] = t[Len(t)] /\ Len(t) \in Nat /\ Len(t) > 0
<1>1. /\ Len(s \o t) = Len(s) + Len(t) /\ Len(s) \in Nat /\ Len(t) \in Nat /\ Len(t) > 0
      /\ \A i \in 1 .. Len(s) + Len(t) :
            (s \o t)[i] = IF i <= Len(s) THEN s[i] ELSE t[i - Len(s)]
  BY ConcatProperties, EmptySeq
<1>2. Len(s) + Len(t) \in 1 .. Len(s) + Len(t) /\ ~(Len(s) + Len(t) <= Len(s))
  BY <1>1
<1>3. (s \o t)[Len(s) + Len(t)] = t[Len(s) + Len(t) - Len(s)]
  BY <1>1, <1>2
<1>4. Len(s) + Len(t) - Len(s) = Len(t) /\ Len(s \o t) > 0
  BY <1>1
<1> QED
  BY <1>1, <1>3, <1>4, ConcatEqualIffEmpty

\* What a byte's arrival does to the chain.
LEMMA Arrives ==
    ASSUME Line, ring # <<>>
    PROVE  /\ Head(ring) \in Byte /\ Tail(ring) \in Seq(Byte) /\ got \in Seq(Byte)
           /\ Wire = Append(got, Head(ring)) \o Tail(ring)
<1>1. got \in Seq(Byte)
  BY SeqMonotonic DEF Line
<1>2. Head(ring) \in Byte /\ Tail(ring) \in Seq(Byte) /\ ring \in Seq(Byte)
  BY HeadTailProperties DEF Line
<1>3. <<Head(ring)>> \in Seq(Byte) /\ ring = <<Head(ring)>> \o Tail(ring)
  BY <1>2
<1>4. Append(got, Head(ring)) = got \o <<Head(ring)>>
  BY <1>1, <1>2, AppendIsConcat
<1> QED
  BY <1>1, <1>2, <1>3, <1>4, ConcatAssociative DEF Wire

LEMMA SpliceTransfer == Line /\ NoSplice /\ Transfer => NoSplice'
<1> SUFFICES ASSUME Line, NoSplice, Transfer PROVE NoSplice'
  OBVIOUS
<1>1. /\ ring # <<>> /\ ring' = Tail(ring)
      /\ got' = IF Head(ring) = Newline THEN <<>> ELSE Append(got, Head(ring))
      /\ UNCHANGED <<tx, needsResync>>
  BY DEF Transfer, outbound
<1>2. \A b : GoesOn(b)' <=> GoesOn(b)
  BY <1>1 DEF GoesOn, Broken
<1>3. CASE Head(ring) # Newline
  <2>1. Wire' = Wire
    BY <1>1, <1>3, Arrives DEF Wire
  <2> QED
    BY <1>2, <2>1 DEF NoSplice
<1>4. CASE Head(ring) = Newline
  <2>1. Wire' = Tail(ring) /\ Tail(ring) \in Seq(Byte)
    BY <1>1, <1>4, Arrives, ConcatEmptySeq DEF Wire
  <2>2. Append(got, Head(ring)) \in Seq(Byte) /\ Wire = Append(got, Head(ring)) \o Tail(ring)
    BY <1>1, Arrives, AppendProperties
  <2>3. Chained(Tail(ring))
    BY <2>1, <2>2, ChainedSuffix DEF NoSplice
  <2>4. Tail(ring) # <<>> => Wire # <<>> /\ Wire[Len(Wire)] = Tail(ring)[Len(Tail(ring))]
    BY <2>1, <2>2, LastOfConcat
  <2> QED
    BY <1>2, <2>1, <2>3, <2>4 DEF NoSplice
<1> QED
  BY <1>3, <1>4

LEMMA SpliceInit == Init => NoSplice
<1> SUFFICES ASSUME Init PROVE NoSplice
  OBVIOUS
<1>1. Wire = <<>>
  BY ConcatEmptySeq DEF Init, Wire
<1> QED
  BY <1>1 DEF NoSplice, Chained

LEMMA SpliceClear == Line /\ NoSplice /\ ClearRing => NoSplice'
<1> SUFFICES ASSUME ClearRing PROVE NoSplice'
  OBVIOUS
<1>1. got' = <<>> /\ ring' = <<>>
  BY DEF ClearRing
<1>2. Wire' = <<>>
  BY <1>1, ConcatEmptySeq DEF Wire
<1> QED
  BY <1>2 DEF NoSplice, Chained

\* Nothing is written: what the chain ends in is still awaited.
LEMMA SpliceHeld ==
    ASSUME NoSplice, UNCHANGED <<got, ring>>, \A b : GoesOn(b) => GoesOn(b)'
    PROVE  NoSplice'
<1>1. Wire' = Wire
  BY DEF Wire
<1> QED
  BY <1>1 DEF NoSplice

LEMMA SpliceTalk ==
    Data /\ NoSplice /\ (BeginReply \/ CheckHost \/ Retry \/ GiveUp \/ Report) => NoSplice'
<1> SUFFICES ASSUME Data, NoSplice, BeginReply \/ CheckHost \/ Retry \/ GiveUp \/ Report
             PROVE  NoSplice'
  OBVIOUS
<1>0. UNCHANGED <<got, ring>> /\ tx \in Task
  BY DEF BeginReply, CheckHost, Retry, GiveUp, Report, history, Data, Sending
<1>1. CASE BeginReply
  <2>1. /\ tx.cmd = None /\ needsResync' = needsResync
        /\ tx' = [Idle EXCEPT !.cmd = Head(txQueue), !.generation = generation,
                              !.stage = IF needsResync THEN "resync" ELSE "body"]
    BY <1>1 DEF BeginReply
  <2>2. needsResync => tx'.stage = "resync"
    BY <2>1 DEF Idle
  <2>3. \A b : GoesOn(b) => GoesOn(b)'
    BY <2>1, <2>2 DEF GoesOn, Broken
  <2> QED
    BY <1>0, <2>3, SpliceHeld
<1>2. CASE CheckHost \/ Retry
  <2>1. /\ tx.cmd # None /\ tx.at # "failed" /\ needsResync' = needsResync
        /\ \E at \in {"check", "write", "wait"} : tx' = [tx EXCEPT !.at = at]
    BY <1>2 DEF CheckHost, Retry
  <2>2. tx'.cmd = tx.cmd /\ tx'.stage = tx.stage /\ tx'.sent = tx.sent /\ tx'.at # "failed"
    BY <1>0, <2>1 DEF Task
  <2>3. \A b : GoesOn(b) => GoesOn(b)'
    BY <2>1, <2>2 DEF GoesOn, Broken
  <2> QED
    BY <1>0, <2>3, SpliceHeld
<1>3. CASE GiveUp
  <2>1. tx.cmd # None /\ tx.at = "wait" /\ tx' = [tx EXCEPT !.at = "failed"]
    BY <1>3 DEF GiveUp
  <2>2. tx'.at = "failed"
    BY <1>0, <2>1 DEF Task
  <2>3. needsResync => needsResync'
    BY <1>3, Zenon DEF GiveUp
  <2>4. tx.sent > 0 => needsResync'
    BY <1>3, Zenon DEF GiveUp
  <2>5. \A b : GoesOn(b) => needsResync \/ tx.sent > 0
    BY DEF GoesOn
  <2>6. \A b : GoesOn(b)' <=> needsResync'
    BY <2>2 DEF GoesOn, Broken
  <2>7. \A b : GoesOn(b) => GoesOn(b)'
    BY <2>3, <2>4, <2>5, <2>6
  <2> QED
    BY <1>0, <2>7, SpliceHeld
<1>4. CASE Report
  <2>1. tx.at = "failed" /\ tx' = Idle /\ needsResync' = needsResync
    BY <1>4 DEF Report
  <2>2. tx'.cmd = None
    BY <2>1, IdleIsTask
  <2>3. \A b : GoesOn(b) => GoesOn(b)'
    BY <2>1, <2>2 DEF GoesOn, Broken
  <2> QED
    BY <1>0, <2>3, SpliceHeld
<1> QED
  BY <1>1, <1>2, <1>3, <1>4

\* What bytes written behind the chain do to it.
LEMMA Written ==
    ASSUME Line, Chained(Wire), NEW new \in Seq(Byte), new # <<>>, Chained(new),
           Wire # <<>> => Follows(Wire[Len(Wire)], new[1]),
           ring' = ring \o new, got' = got
    PROVE  Chained(Wire') /\ Wire'[Len(Wire')] = new[Len(new)]
<1>1. got \in Seq(Byte) /\ ring \in Seq(Byte)
  BY SeqMonotonic DEF Line
<1>2. Wire \in Seq(Byte)
  BY <1>1, ConcatProperties DEF Wire
<1>3. Wire' = Wire \o new
  <2>1. Wire' = got \o (ring \o new)
    BY DEF Wire
  <2>2. (got \o ring) \o new = got \o (ring \o new)
    BY <1>1, ConcatAssociative, SMTT(30)
  <2> QED
    BY <2>1, <2>2 DEF Wire
<1> DEFINE w == Wire  w2 == Wire'
<1>4. w \in Seq(Byte) /\ w2 = w \o new /\ Chained(w) /\ (w # <<>> => Follows(w[Len(w)], new[1]))
  BY <1>2, <1>3
<1> HIDE DEF w, w2
<1>5. Chained(w2) /\ w2[Len(w2)] = new[Len(new)]
  BY <1>4, ChainedConcat, LastOfConcat
<1> QED
  BY <1>5 DEF w2

LEMMA SpliceWrite == Data /\ NoSplice /\ WriteQueue => NoSplice'
<1> SUFFICES ASSUME Data, NoSplice, WriteQueue PROVE NoSplice'
  OBVIOUS
<1> DEFINE new == SubSeq(Pending, 1, Accepted)
<1>0. /\ tx.cmd # None /\ tx.at = "write" /\ tx \in Task /\ tx.sent \in Nat
      /\ ring' = ring \o new /\ got' = got
      /\ tx' = CASE Accepted = 0 -> [tx EXCEPT !.at = "wait"]
                 [] Accepted = Len(Pending) -> Advanced
                 [] OTHER -> [tx EXCEPT !.sent = @ + Accepted, !.at = "check"]
      /\ Line /\ Chained(Wire)
  BY DEF WriteQueue, Data, Sending, Task, NoSplice
<1>1. /\ Pending \in Seq(Byte) /\ Accepted \in 0 .. Len(Pending) /\ Len(Pending) > 0
      /\ Len(Pending) = IF tx.stage = "body" THEN ReplyLen - tx.sent ELSE 1
      /\ \A i \in 1 .. Len(Pending) :
            Pending[i] = IF tx.stage = "body" THEN <<tx.cmd, tx.sent + i>> ELSE Newline
  BY <1>0, PendingIs
<1>2. /\ new \in Seq(Byte) /\ Len(new) = Accepted
      /\ \A i \in 1 .. Accepted : new[i] = Pending[i]
  BY <1>1
<1> HIDE DEF new
<1>3. CASE Accepted = 0
  <2>1. new = <<>>
    BY <1>2, <1>3, EmptySeq
  <2>2. ring' = ring
    BY <1>0, <2>1, ConcatEmptySeq DEF Line
  <2>3. tx' = [tx EXCEPT !.at = "wait"]
    BY <1>0, <1>1, <1>3
  <2>4. /\ tx'.cmd = tx.cmd /\ tx'.stage = tx.stage /\ tx'.sent = tx.sent
        /\ tx'.at # "failed" /\ tx.at # "failed"
    BY <1>0, <2>3 DEF Task
  <2>5. needsResync => needsResync'
    <3>1. Accepted # 1
      BY <1>3
    <3> QED
      BY <3>1, Zenon DEF WriteQueue
  <2>6. \A b : GoesOn(b) => GoesOn(b)'
    BY <2>4, <2>5 DEF GoesOn, Broken
  <2> QED
    BY <1>0, <2>2, <2>6, SpliceHeld
<1>4. CASE Accepted > 0 /\ tx.stage # "body"
  <2>1. Accepted = 1 /\ new[1] = Newline /\ Len(new) = 1 /\ new # <<>>
    BY <1>1, <1>2, <1>4
  <2>2. Chained(new)
    BY <2>1 DEF Chained
  <2>3. Wire # <<>> => Follows(Wire[Len(Wire)], new[1])
    BY <2>1 DEF Follows
  <2>4. Wire'[Len(Wire')] = Newline /\ Chained(Wire')
    BY <1>0, <1>2, <2>1, <2>2, <2>3, Written
  <2> QED
    BY <2>4 DEF NoSplice
<1>5. CASE Accepted > 0 /\ tx.stage = "body"
  <2>0. /\ Accepted \in Nat /\ Accepted > 0 /\ Accepted <= ReplyLen - tx.sent
        /\ Len(Pending) = ReplyLen - tx.sent /\ ReplyLen \in Nat /\ tx.sent \in Nat
    BY <1>0, <1>1, <1>5, Sizes
  <2>1. /\ Accepted \in 1 .. ReplyLen - tx.sent /\ Len(new) = Accepted /\ new # <<>>
        /\ \A i \in 1 .. Accepted : new[i] = <<tx.cmd, tx.sent + i>>
    <3>1. Accepted \in 1 .. ReplyLen - tx.sent /\ Len(new) = Accepted
      BY <1>2, <2>0
    <3>2. new # <<>>
      BY <2>0, <3>1, EmptySeq
    <3>3. ASSUME NEW i \in 1 .. Accepted PROVE new[i] = <<tx.cmd, tx.sent + i>>
      <4>1. i \in 1 .. Len(Pending)
        BY <2>0
      <4> QED
        BY <1>1, <1>2, <1>5, <4>1
    <3> QED
      BY <3>1, <3>2, <3>3
  <2>2. Chained(new)
    <3>1. SUFFICES ASSUME NEW i \in 1 .. Accepted - 1 PROVE Follows(new[i], new[i + 1])
      BY <2>1 DEF Chained
    <3>2. i \in 1 .. Accepted /\ i + 1 \in 1 .. Accepted /\ i \in Nat
      BY <2>1
    <3>3. new[i] = <<tx.cmd, tx.sent + i>> /\ new[i + 1] = <<tx.cmd, tx.sent + (i + 1)>>
      BY <2>1, <3>2
    <3>4. tx.sent + (i + 1) = tx.sent + i + 1
      BY <1>0, <3>2, SMTT(30)
    <3> QED
      BY <3>3, <3>4 DEF Follows
  <2>3. Wire # <<>> => Follows(Wire[Len(Wire)], new[1])
    <3>1. new[1] = <<tx.cmd, tx.sent + 1>>
      BY <2>1
    <3>2. ~Broken
      BY <1>0, <1>5 DEF Broken
    <3>3. Wire # <<>> /\ Wire[Len(Wire)] # Newline => Wire[Len(Wire)] = <<tx.cmd, tx.sent>>
      BY <3>2 DEF NoSplice, GoesOn
    <3> QED
      BY <3>1, <3>3 DEF Follows
  <2>4. Wire'[Len(Wire')] = new[Len(new)] /\ Chained(Wire')
    BY <1>0, <1>2, <2>1, <2>2, <2>3, Written
  <2>5. new[Len(new)] = <<tx.cmd, tx.sent + Accepted>>
    BY <2>1
  <2>6. /\ tx'.cmd = tx.cmd /\ tx'.stage # "resync" /\ tx'.at # "failed"
        /\ tx'.sent = tx.sent + Accepted
    <3>1. CASE Accepted = Len(Pending)
      <4>1. tx' = Advanced
            /\ Advanced = [tx EXCEPT !.sent = ReplyLen, !.stage = "end", !.at = "check"]
        BY <1>0, <1>5, <3>1 DEF Advanced
      <4>2. tx.sent + Accepted = ReplyLen
        BY <1>0, <1>1, <1>5, <3>1, Sizes
      <4> QED
        BY <1>0, <4>1, <4>2 DEF Task
    <3>2. CASE Accepted # Len(Pending)
      <4>1. tx' = [tx EXCEPT !.sent = tx.sent + Accepted, !.at = "check"]
        BY <1>0, <1>5, <3>2
      <4> QED
        BY <1>0, <1>5, <4>1 DEF Task
    <3> QED
      BY <3>1, <3>2
  <2>7. ~Broken' /\ tx'.sent > 0
    BY <1>0, <2>1, <2>6 DEF Broken
  <2>8. GoesOn(Wire[Len(Wire)])'
    BY <2>4, <2>5, <2>6, <2>7 DEF GoesOn
  <2> QED
    BY <2>4, <2>8 DEF NoSplice
<1> QED
  BY <1>1, <1>3, <1>4, <1>5

LEMMA SpliceStep == Data /\ NoSplice /\ [Next]_vars => NoSplice'
<1> SUFFICES ASSUME Data, NoSplice, [Next]_vars PROVE NoSplice'
  OBVIOUS
<1>1. CASE QueueLine \/ LineState \/ RxTask \/ UNCHANGED vars
  <2>1. UNCHANGED <<got, ring, tx, needsResync>>
    BY <1>1 DEF QueueLine, LineState, RxTask, TakeLine, Respond, vars, history, outbound
  <2>2. \A b : GoesOn(b) => GoesOn(b)'
    BY <2>1 DEF GoesOn, Broken
  <2> QED
    BY <2>1, <2>2, SpliceHeld
<1>2. CASE ClearRing \/ Transfer
  BY <1>2, SpliceClear, SpliceTransfer DEF Data
<1>3. CASE TxTask
  BY <1>3, SpliceTalk, SpliceWrite DEF TxTask
<1> QED
  BY <1>1, <1>2, <1>3 DEF Next, UsbTask

\* The client's part of the chain has no newline in it: one reply's bytes.
LEMMA ClientReadsOneReply == Data /\ NoSplice => RepliesAreContiguous
<1> SUFFICES ASSUME Line, NoSplice, NEW i \in 1 .. Len(got) - 1
             PROVE  got[i + 1] = <<got[i][1], got[i][2] + 1>>
  BY DEF RepliesAreContiguous, Run, Data
<1>1. got \in Seq(Byte) /\ ring \in Seq(Byte) /\ Len(got) \in Nat
  BY SeqMonotonic DEF Line
<1>2. i \in 1 .. Len(got) /\ i + 1 \in 1 .. Len(got)
  BY <1>1
<1>3. got[i] # Newline /\ got[i + 1] # Newline
  BY <1>2, ElementOfSeq DEF Line
<1>4. /\ Len(Wire) = Len(got) + Len(ring) /\ Len(ring) \in Nat
      /\ \A j \in 1 .. Len(got) + Len(ring) :
            Wire[j] = IF j <= Len(got) THEN got[j] ELSE ring[j - Len(got)]
  BY <1>1, ConcatProperties DEF Wire
<1>5. i \in 1 .. Len(Wire) - 1 /\ Wire[i] = got[i] /\ Wire[i + 1] = got[i + 1]
  BY <1>1, <1>2, <1>4
<1>6. Follows(got[i], got[i + 1])
  BY <1>5 DEF NoSplice, Chained
<1> QED
  BY <1>3, <1>6 DEF Follows

\* line_tx.h: no line a client reads is spliced from two replies or has a hole
\* in it, whatever stalls and whenever the port closes or opens.
THEOREM RepliesNeverSpliced == Spec => []RepliesAreContiguous
BY DataInit, DataStep, SpliceInit, SpliceStep, ClientReadsOneReply, PTL DEF Spec

-----------------------------------------------------------------------------
\* Every set of numbers has a least one.
LEMMA Least ==
    ASSUME NEW T \in SUBSET Nat, T # {}
    PROVE  \E m \in T : \A k \in T : m <= k
<1> DEFINE R == {p \in Nat \X Nat : p[1] < p[2]}
<1>1. IsWellFoundedOn(R, Nat)
  BY NatLessThanWellFounded DEF OpToRel
<1>2. PICK m \in T : \A k \in T : ~ (<<k, m>> \in R)
  <2> HIDE DEF R
  <2> QED
    BY <1>1, WFMin
<1>3. ASSUME NEW k \in Nat, NEW n \in Nat PROVE <<k, n>> \in R <=> k < n
  OBVIOUS
<1>4. \A k \in T : m <= k
  <2> HIDE DEF R
  <2> TAKE k \in T
  <2>1. k \in Nat /\ m \in Nat /\ <<k, m>> \notin R
    BY <1>2
  <2>2. ~ (k < m)
    BY <2>1, <1>3
  <2> QED
    BY <2>1, <2>2
<1> QED
  BY <1>4

\* Induction, with a set of numbers for the predicate.
LEMMA UpTo ==
    ASSUME NEW n \in Nat, NEW S, 0 \in S, \A k \in 1..n : k - 1 \in S => k \in S
    PROVE  0..n \subseteq S
<1> DEFINE T == {k \in 0..n : k \notin S}
<1> SUFFICES ASSUME T # {} PROVE FALSE
  OBVIOUS
<1>1. PICK m \in T : \A k \in T : m <= k
  <2>1. T \in SUBSET Nat
    OBVIOUS
  <2> HIDE DEF T
  <2> QED
    BY <2>1, Least
<1>2. m \in 1..n /\ m - 1 \in 0..n
  BY <1>1
<1>3. m - 1 \notin T
  <2> HIDE DEF T
  <2>1. m \in Nat /\ ~ (m <= m - 1)
    BY <1>2
  <2> QED
    BY <1>1, <2>1
<1> QED
  BY <1>1, <1>2, <1>3

Recursion(g, n, V, first, next) ==
    g \in [0..n -> V] /\ g[0] = first /\ \A k \in 1..n : g[k] = next[<<g[k - 1], k>>]

\* A recursion that never leaves V has a function that does it.
LEMMA RecursionExists ==
    ASSUME NEW n \in Nat, NEW V, NEW first \in V, NEW next \in [V \X (1..n) -> V]
    PROVE  \E g : Recursion(g, n, V, first, next)
<1> DEFINE Upto(g, m) == g[0] = first /\ \A k \in 1..m : g[k] = next[<<g[k - 1], k>>]
           S == {m \in 0..n : \E g \in [0..n -> V] : Upto(g, m)}
<1>1. n \in 0..n /\ 0 \in 0..n
  OBVIOUS
<1>2. 0 \in S
  <2>1. [k \in 0..n |-> first] \in [0..n -> V] /\ Upto([k \in 0..n |-> first], 0)
    BY <1>1
  <2> HIDE DEF Upto
  <2> QED
    BY <2>1, <1>1
<1>3. ASSUME NEW m \in 1..n, m - 1 \in S PROVE m \in S
  <2>1. PICK g \in [0..n -> V] : Upto(g, m - 1)
    BY <1>3
  <2>2. m - 1 \in 0..n /\ m \in 0..n
    BY <1>1
  <2> DEFINE h == [g EXCEPT ![m] = next[<<g[m - 1], m>>]]
  <2>3. h \in [0..n -> V]
    <3>1. next[<<g[m - 1], m>>] \in V
      BY <2>2
    <3> QED
      BY <3>1
  <2>4. Upto(h, m)
    <3>1. h[0] = first
      BY <2>1, <1>1
    <3>2. ASSUME NEW k \in 1..m PROVE h[k] = next[<<h[k - 1], k>>]
      <4>1. k \in 0..n /\ k - 1 \in 0..n /\ k - 1 # m
        BY <1>1
      <4>2. CASE k = m
        BY <4>1, <4>2, <2>2
      <4>3. CASE k # m
        BY <4>1, <4>3, <2>1
      <4> QED
        BY <4>2, <4>3
    <3> QED
      BY <3>1, <3>2
  <2> HIDE DEF h, Upto
  <2> QED
    BY <2>2, <2>3, <2>4
<1>4. n \in S
  <2> HIDE DEF S
  <2> QED
    BY <1>1, <1>2, <1>3, UpTo
<1> QED
  BY <1>4 DEF Recursion

\* The lesser of two numbers, as Min has it.
LEMMA MinOfTwo ==
    ASSUME NEW a \in Int, NEW b \in Int
    PROVE  Min({a, b}) = IF a > b THEN b ELSE a
<1>1. Min({a, b}) = CHOOSE x \in {a, b} : \A y \in {a, b} : x <= y
  BY DEF Min
<1> QED
  BY <1>1


\* A recursion step by step from a first value.
Steps(g, n, V, first, next) ==
    /\ g \in [0..n -> V]
    /\ g = [k \in 0..n |-> IF k = 0 THEN first ELSE next[<<g[k - 1], k>>]]

\* The function that a fold over places recurses with exists.
LEMMA StepsExist ==
    ASSUME NEW n \in Nat, NEW V, NEW first \in V, NEW next \in [V \X (1..n) -> V]
    PROVE  \E g : Steps(g, n, V, first, next)
<1>1. PICK g : Recursion(g, n, V, first, next)
  BY RecursionExists
<1>2. g \in [0..n -> V] /\ g[0] = first /\ \A k \in 1..n : g[k] = next[<<g[k - 1], k>>]
  BY <1>1 DEF Recursion
<1>3. ASSUME NEW k \in 0..n PROVE g[k] = IF k = 0 THEN first ELSE next[<<g[k - 1], k>>]
  <2>1. CASE k = 0
    BY <2>1, <1>2
  <2>2. CASE k # 0
    <3>1. k \in 1..n
      BY <2>2
    <3> QED
      BY <2>2, <3>1, <1>2
  <2> QED
    BY <2>1, <2>2
<1>4. g = [k \in 0..n |-> g[k]]
  BY <1>2
<1>5. g = [k \in 0..n |-> IF k = 0 THEN first ELSE next[<<g[k - 1], k>>]]
  BY <1>3, <1>4
<1> QED
  BY <1>2, <1>5 DEF Steps

-----------------------------------------------------------------------------
Bytes == Seq(Nat)
LineReader == [buf : Bytes, overflowed : BOOLEAN, out : Seq(Bytes)]

\* A line reader stays one.
LEMMA LineByteType ==
    ASSUME NEW lp \in LineReader, NEW c \in Nat
    PROVE  LineByte(lp, c) \in LineReader
<1>1. lp.buf \in Bytes /\ lp.overflowed \in BOOLEAN /\ lp.out \in Seq(Bytes)
  BY DEF LineReader
<1>2. Append(lp.buf, c) \in Bytes /\ Append(lp.out, lp.buf) \in Seq(Bytes) /\ <<>> \in Bytes
  BY <1>1 DEF Bytes
<1>3. LineEnd(lp) \in LineReader
  BY <1>1, <1>2 DEF LineEnd, LineInit, LineReader
<1>4. LineChar(lp, c) \in LineReader
  BY <1>1, <1>2 DEF LineChar, LineReader
<1> QED
  BY <1>3, <1>4 DEF LineByte

IsFed(g, lp, data) ==
    g = [k \in 0..Len(data) |-> IF k = 0 THEN lp ELSE LineByte(g[k - 1], data[k])]

\* line_proto_feed() is its bytes one after the other.
LEMMA LineFeedIs ==
    ASSUME NEW lp \in LineReader, NEW data \in Bytes
    PROVE  \E g : IsFed(g, lp, data) /\ LineFeed(lp, data) = g[Len(data)]
<1> DEFINE n == Len(data)
           next == [p \in LineReader \X (1..n) |-> LineByte(p[1], data[p[2]])]
<1>1. n \in Nat /\ \A k \in 1..n : data[k] \in Nat
  BY DEF Bytes
<1>2. next \in [LineReader \X (1..n) -> LineReader]
  <2>1. ASSUME NEW p \in LineReader \X (1..n) PROVE LineByte(p[1], data[p[2]]) \in LineReader
    BY <1>1, LineByteType
  <2> QED
    BY <2>1
<1>3. PICK g : Steps(g, n, LineReader, lp, next)
  <2> HIDE DEF next, n
  <2> QED
    BY <1>1, <1>2, StepsExist
<1>4. g \in [0..n -> LineReader] /\ g = [k \in 0..n |-> IF k = 0 THEN lp ELSE next[<<g[k - 1], k>>]]
  <2> HIDE DEF next, n
  <2> QED
    BY <1>3 DEF Steps
<1>5. ASSUME NEW k \in 0..n
      PROVE  (IF k = 0 THEN lp ELSE next[<<g[k - 1], k>>]) = IF k = 0 THEN lp ELSE LineByte(g[k - 1], data[k])
  <2>1. CASE k = 0
    BY <2>1
  <2>2. CASE k # 0
    <3>1. k \in 1..n /\ k - 1 \in 0..n
      BY <1>1, <2>2
    <3>2. g[k - 1] \in LineReader
      <4> HIDE DEF n, next
      <4> QED
        BY <3>1, <1>4
    <3>3. next[<<g[k - 1], k>>] = LineByte(g[k - 1], data[k])
      BY <3>1, <3>2
    <3> QED
      BY <3>3
  <2> QED
    BY <2>1, <2>2
<1>6. IsFed(g, lp, data)
  BY <1>4, <1>5 DEF IsFed
<1>7. LineFeed(lp, data) = (CHOOSE h : IsFed(h, lp, data))[n]
  BY DEF LineFeed, IsFed
<1>8. IsFed(CHOOSE h : IsFed(h, lp, data), lp, data)
  BY <1>6
<1> QED
  BY <1>7, <1>8

\* Where the last line end up to a place is, and 0 before the first.
LineEnds(s, p) == {0} \cup {i \in 1..p : s[i] \in Eol}
LastEnd(s, p) == Max(LineEnds(s, p))

\* What Max chooses.
LEMMA MaxIs ==
    ASSUME NEW S \in SUBSET Nat, NEW m \in S, \A y \in S : m >= y
    PROVE  Max(S) = m
<1>1. Max(S) = CHOOSE x \in S : \A y \in S : x >= y
  BY DEF Max
<1>2. \A x \in S : (\A y \in S : x >= y) => x = m
  OBVIOUS
<1> QED
  BY <1>1, <1>2

\* The last line end before a place, byte by byte.
LEMMA LastEndIs ==
    ASSUME NEW s, NEW p \in Nat
    PROVE  /\ LastEnd(s, 0) = 0
           /\ LastEnd(s, p) \in 0..p
           /\ LastEnd(s, p + 1) = IF s[p + 1] \in Eol THEN p + 1 ELSE LastEnd(s, p)
<1> DEFINE Latest(q, m) == m \in LineEnds(s, q) /\ \A y \in LineEnds(s, q) : m >= y
           S == {q \in 0..p : \E m \in 0..q : Latest(q, m)}
<1>1. ASSUME NEW q \in Nat PROVE LineEnds(s, q) \in SUBSET Nat
  BY DEF LineEnds
<1>2. Latest(0, 0) /\ LineEnds(s, 0) = {0}
  BY DEF LineEnds
<1>3. ASSUME NEW q \in Nat, NEW m \in 0..q, Latest(q, m)
      PROVE  Latest(q + 1, IF s[q + 1] \in Eol THEN q + 1 ELSE m)
  <2>1. LineEnds(s, q + 1) = LineEnds(s, q) \cup (IF s[q + 1] \in Eol THEN {q + 1} ELSE {})
    BY DEF LineEnds
  <2>2. \A y \in LineEnds(s, q) : y <= q
    BY DEF LineEnds
  <2> QED
    BY <1>3, <2>1, <2>2
<1> HIDE DEF Latest
<1>4. 0 \in S
  BY <1>2
<1>5. ASSUME NEW q \in 1..p, q - 1 \in S PROVE q \in S
  <2>1. PICK m \in 0..q - 1 : Latest(q - 1, m)
    BY <1>5
  <2>2. Latest(q - 1 + 1, IF s[q - 1 + 1] \in Eol THEN q - 1 + 1 ELSE m)
    BY <1>3, <2>1
  <2>3. q - 1 + 1 = q /\ q \in 0..q /\ m \in 0..q /\ q \in 0..p
    OBVIOUS
  <2> QED
    BY <2>2, <2>3
<1>6. p \in S
  <2>1. p \in 0..p
    OBVIOUS
  <2> HIDE DEF S
  <2> QED
    BY <1>4, <1>5, <2>1, UpTo
<1>7. PICK m \in 0..p : Latest(p, m)
  BY <1>6
<1>8. ASSUME NEW q \in Nat, NEW k, Latest(q, k) PROVE LastEnd(s, q) = k
  BY <1>1, <1>8, MaxIs DEF LastEnd, Latest
<1>9. Latest(p + 1, IF s[p + 1] \in Eol THEN p + 1 ELSE m)
  BY <1>3, <1>7
<1> QED
  BY <1>2, <1>7, <1>8, <1>9

\* The stretch that a line end ends, in terms of the line end before it.
LEMMA LineAtIs ==
    ASSUME NEW s, NEW p \in Nat
    PROVE  LineAt(s, p + 1) = SubSeq(s, LastEnd(s, p) + 1, p)
<1>1. \A q : LineAt(s, q) = SubSeq(s, LastEnd(s, q - 1) + 1, q - 1)
  BY DEF LineAt, LastEnd, LineEnds
<1>2. p + 1 - 1 = p
  OBVIOUS
<1> QED
  BY <1>1, <1>2

IsLines(g, s) ==
    g = [k \in 0..Len(s) |->
            IF k = 0 THEN <<>>
            ELSE IF s[k] \in Eol /\ IsCommand(LineAt(s, k)) THEN Append(g[k - 1], LineAt(s, k))
            ELSE g[k - 1]]

\* The lines before each place, in terms of those before the place before it.
LEMMA LinesAre ==
    ASSUME NEW s \in Bytes
    PROVE  /\ Lines(s)[0] = <<>>
           /\ \A k \in 1..Len(s) :
                 Lines(s)[k] = IF s[k] \in Eol /\ IsCommand(LineAt(s, k))
                               THEN Append(Lines(s)[k - 1], LineAt(s, k)) ELSE Lines(s)[k - 1]
<1> DEFINE n == Len(s)
           one(before, k) == IF s[k] \in Eol /\ IsCommand(LineAt(s, k))
                             THEN Append(before, LineAt(s, k)) ELSE before
           next == [p \in Seq(Bytes) \X (1..n) |-> one(p[1], p[2])]
           f == Lines(s)
<1>1. n \in Nat
  BY DEF Bytes
<1>2. next \in [Seq(Bytes) \X (1..n) -> Seq(Bytes)]
  <2>1. ASSUME NEW k \in 1..n PROVE LineAt(s, k) \in Bytes
    <3>1. /\ LastEnd(s, k - 1) \in Nat
          /\ LineAt(s, k) = SubSeq(s, LastEnd(s, k - 1) + 1, k - 1)
      <4>1. k - 1 \in Nat
        OBVIOUS
      <4>2. LastEnd(s, k - 1) \in 0..k - 1
        BY <4>1, LastEndIs
      <4>3. LineAt(s, k) = SubSeq(s, LastEnd(s, k - 1) + 1, k - 1)
        BY DEF LineAt, LastEnd, LineEnds
      <4> QED
        BY <4>1, <4>2, <4>3
    <3> QED
      BY <3>1 DEF Bytes
  <2>2. ASSUME NEW p \in Seq(Bytes) \X (1..n) PROVE one(p[1], p[2]) \in Seq(Bytes)
    <3>1. p[1] \in Seq(Bytes) /\ p[2] \in 1..n /\ LineAt(s, p[2]) \in Bytes
      BY <2>1
    <3>2. Append(p[1], LineAt(s, p[2])) \in Seq(Bytes)
      BY <3>1
    <3> QED
      BY <3>1, <3>2
  <2> HIDE DEF one
  <2> QED
    BY <2>2
<1>3. PICK g : Steps(g, n, Seq(Bytes), <<>>, next)
  <2>1. <<>> \in Seq(Bytes)
    OBVIOUS
  <2> HIDE DEF next, n
  <2> QED
    BY <1>1, <1>2, <2>1, StepsExist
<1>4. g \in [0..n -> Seq(Bytes)] /\ g = [k \in 0..n |-> IF k = 0 THEN <<>> ELSE next[<<g[k - 1], k>>]]
  <2> HIDE DEF next, n
  <2> QED
    BY <1>3 DEF Steps
<1>5. ASSUME NEW k \in 0..n
      PROVE  (IF k = 0 THEN <<>> ELSE next[<<g[k - 1], k>>]) = IF k = 0 THEN <<>> ELSE one(g[k - 1], k)
  <2>1. CASE k = 0
    BY <2>1
  <2>2. CASE k # 0
    <3>1. k \in 1..n /\ k - 1 \in 0..n
      BY <1>1, <2>2
    <3>2. g[k - 1] \in Seq(Bytes)
      <4> HIDE DEF n, next
      <4> QED
        BY <3>1, <1>4
    <3> HIDE DEF one, n
    <3>3. next[<<g[k - 1], k>>] = one(g[k - 1], k)
      BY <3>1, <3>2
    <3> QED
      BY <3>3
  <2> QED
    BY <2>1, <2>2
<1>6. IsLines(g, s)
  <2>1. g = [k \in 0..n |-> IF k = 0 THEN <<>> ELSE one(g[k - 1], k)]
    <3> HIDE DEF next, one, n
    <3> QED
      BY <1>4, <1>5
  <2> QED
    BY <2>1 DEF IsLines
<1>7. f = CHOOSE h : IsLines(h, s)
  BY DEF Lines, IsLines
<1> HIDE DEF f
<1>8. IsLines(f, s)
  BY <1>6, <1>7
<1>9. f = [k \in 0..n |-> IF k = 0 THEN <<>> ELSE one(f[k - 1], k)]
  BY <1>8 DEF IsLines
<1>10. \A k \in 0..n : f[k] = IF k = 0 THEN <<>> ELSE one(f[k - 1], k)
  <2> HIDE DEF one, n
  <2> QED
    BY <1>9
<1>11. 0 \in 0..n /\ \A k \in 1..n : k \in 0..n /\ k # 0
  BY <1>1
<1> HIDE DEF n
<1> QED
  BY <1>10, <1>11 DEF f, n

\* What the reader has in hand after p bytes of a stream: the lines that are complete, and
\* of the one that is not as much as fits.
LineHolds(lp, s, p, end) ==
    /\ lp.out = Lines(s)[p]
    /\ lp.overflowed <=> p - end > BufSize - 1
    /\ lp.buf = SubSeq(s, end + 1, IF p - end > BufSize - 1 THEN end + BufSize - 1 ELSE p)

LineSays(lp, s, p) == LineHolds(lp, s, p, LastEnd(s, p))

\* A byte more, of which line_proto_feed() kept what belongs to the line.
LEMMA LineByteSays ==
    ASSUME NEW s \in Bytes, NEW p \in Nat, p < Len(s), NEW lp \in LineReader, LineSays(lp, s, p)
    PROVE  LineSays(LineByte(lp, s[p + 1]), s, p + 1)
<1> DEFINE e == LastEnd(s, p)
           c == s[p + 1]
           after == LineByte(lp, c)
           at == LineAt(s, p + 1)
<1>1. /\ e \in 0..p /\ p \in Nat /\ p + 1 \in 1..Len(s) /\ Len(s) \in Nat /\ BufSize \in Nat \ {0}
      /\ LastEnd(s, p + 1) = IF c \in Eol THEN p + 1 ELSE e
  <2>1. /\ LastEnd(s, p) \in 0..p
        /\ LastEnd(s, p + 1) = IF s[p + 1] \in Eol THEN p + 1 ELSE LastEnd(s, p)
    BY LastEndIs
  <2>2. Len(s) \in Nat /\ p + 1 \in 1..Len(s)
    BY DEF Bytes
  <2> QED
    BY <2>1, <2>2, FramingAssumption
<1>2. /\ lp.out = Lines(s)[p] /\ lp.overflowed \in BOOLEAN
      /\ lp.overflowed <=> p - e > BufSize - 1
      /\ lp.buf = SubSeq(s, e + 1, IF lp.overflowed THEN e + BufSize - 1 ELSE p)
  BY DEF LineSays, LineHolds, LineReader
<1>3. at = SubSeq(s, e + 1, p) /\ Len(at) = p - e /\ (at = <<>> <=> p - e = 0)
  <2>1. at = SubSeq(s, e + 1, p)
    BY LineAtIs
  <2>2. \A a \in 0..p : Len(SubSeq(s, a + 1, p)) = p - a /\ (SubSeq(s, a + 1, p) = <<>> <=> p - a = 0)
    BY <1>1, SMTT(30) DEF Bytes
  <2> HIDE DEF e, at
  <2> QED
    BY <1>1, <2>1, <2>2
<1>4. Lines(s)[p + 1] = IF c \in Eol /\ IsCommand(at) THEN Append(Lines(s)[p], at) ELSE Lines(s)[p]
  BY <1>1, LinesAre
<1> HIDE DEF e, c, at, after
<1>5. CASE c \in Eol
  <2>1. /\ after.buf = <<>> /\ after.overflowed = FALSE
        /\ after.out = IF lp.overflowed \/ lp.buf = <<>> THEN lp.out ELSE Append(lp.out, lp.buf)
    BY <1>5 DEF after, LineByte, LineEnd, LineInit
  <2>2. IsCommand(at) <=> ~ lp.overflowed /\ lp.buf # <<>>
    <3>1. CASE lp.overflowed
      BY <1>1, <1>2, <1>3, <3>1 DEF IsCommand
    <3>2. CASE ~ lp.overflowed
      <4>1. lp.buf = at
        BY <1>2, <1>3, <3>2
      <4> QED
        BY <1>1, <1>2, <1>3, <3>2, <4>1 DEF IsCommand
    <3> QED
      BY <3>1, <3>2
  <2>3. ~ lp.overflowed => lp.buf = at
    BY <1>2, <1>3
  <2>4. after.out = Lines(s)[p + 1]
    BY <1>2, <1>4, <1>5, <2>1, <2>2, <2>3
  <2>5. LastEnd(s, p + 1) = p + 1 /\ SubSeq(s, p + 1 + 1, p + 1) = <<>> /\ ~ (p + 1 - (p + 1) > BufSize - 1)
    BY <1>1, <1>5 DEF Bytes
  <2>6. LineHolds(after, s, p + 1, p + 1)
    BY <2>1, <2>4, <2>5 DEF LineHolds
  <2> QED
    BY <2>5, <2>6 DEF LineSays, after, c
<1>6. CASE c \notin Eol
  <2>1. /\ LastEnd(s, p + 1) = e /\ Lines(s)[p + 1] = lp.out
        /\ after = LineChar(lp, c)
    BY <1>1, <1>2, <1>4, <1>6 DEF after, LineByte
  <2>2. Len(lp.buf) = IF lp.overflowed THEN BufSize - 1 ELSE p - e
    <3>1. /\ p <= Len(s) /\ e \in Nat
          /\ lp.overflowed => e + BufSize - 1 \in Int /\ e + BufSize - 1 <= p /\ e <= e + BufSize - 1
      BY <1>1, <1>2
    <3>2. ASSUME NEW z \in Int, e <= z, z <= p PROVE Len(SubSeq(s, e + 1, z)) = z - e
      BY <1>1, <3>1, <3>2 DEF Bytes
    <3>3. (e + BufSize - 1) - e = BufSize - 1
      BY <1>1, <3>1
    <3> QED
      BY <1>1, <1>2, <3>1, <3>2, <3>3
  <2>3. CASE p - e < BufSize - 1
    <3>1. /\ ~ lp.overflowed /\ Len(lp.buf) + 1 < BufSize
      BY <1>1, <1>2, <2>2, <2>3
    <3>2. /\ after.buf = Append(lp.buf, c) /\ after.overflowed = lp.overflowed /\ after.out = lp.out
      BY <2>1, <3>1 DEF LineChar, LineReader
    <3>3. Append(SubSeq(s, e + 1, p), s[p + 1]) = SubSeq(s, e + 1, p + 1)
      BY <1>1 DEF Bytes
    <3>4. after.buf = SubSeq(s, e + 1, p + 1)
      BY <1>2, <3>1, <3>2, <3>3 DEF c
    <3>9. ~ ((p + 1) - e > BufSize - 1)
      BY <1>1, <2>3
    <3>6. after.buf = SubSeq(s, e + 1, IF (p + 1) - e > BufSize - 1 THEN e + BufSize - 1 ELSE p + 1)
      BY <3>9, <3>4
    <3>7. after.overflowed <=> (p + 1) - e > BufSize - 1
      BY <3>1, <3>2, <3>9
    <3>5. after.out = Lines(s)[p + 1]
      BY <2>1, <3>2
    <3>8. LineHolds(after, s, p + 1, e)
      BY <3>5, <3>6, <3>7 DEF LineHolds
    <3> QED
      BY <2>1, <3>8 DEF LineSays, after, c
  <2>4. CASE ~ (p - e < BufSize - 1)
    <3>1. Len(lp.buf) = BufSize - 1
      BY <1>1, <1>2, <2>2, <2>4
    <3>2. /\ after.buf = lp.buf /\ after.overflowed = TRUE /\ after.out = lp.out
      BY <1>1, <2>1, <3>1 DEF LineChar, LineReader
    <3>3. lp.buf = SubSeq(s, e + 1, e + BufSize - 1)
      <4>1. lp.overflowed \/ p = e + BufSize - 1
        BY <1>1, <1>2, <2>4
      <4> QED
        BY <1>2, <4>1
    <3>4. (p + 1) - e > BufSize - 1
      BY <1>1, <2>4
    <3>6. after.buf = SubSeq(s, e + 1, IF (p + 1) - e > BufSize - 1 THEN e + BufSize - 1 ELSE p + 1)
      BY <3>2, <3>3, <3>4
    <3>7. after.overflowed <=> (p + 1) - e > BufSize - 1
      BY <3>2, <3>4
    <3>5. after.out = Lines(s)[p + 1]
      BY <2>1, <3>2
    <3>8. LineHolds(after, s, p + 1, e)
      BY <3>5, <3>6, <3>7 DEF LineHolds
    <3> QED
      BY <2>1, <3>8 DEF LineSays, after, c
  <2> QED
    BY <2>3, <2>4
<1> QED
  BY <1>5, <1>6 DEF c

\* A piece of a stream.
LEMMA PieceIs ==
    ASSUME NEW s \in Bytes, NEW p \in Nat, NEW n \in Nat, p + n <= Len(s)
    PROVE  /\ SubSeq(s, p + 1, p + n) \in Bytes /\ Len(SubSeq(s, p + 1, p + n)) = n
           /\ Len(s) \in Nat
           /\ \A k \in 1..n : /\ SubSeq(s, p + 1, p + n)[k] = s[p + k]
                              /\ SubSeq(s, p + 1, p + n)[k] \in Nat
<1>1. s \in Seq(Nat) /\ Len(s) \in Nat
  BY DEF Bytes
<1>2. /\ SubSeq(s, p + 1, p + n) \in Seq(Nat) /\ Len(SubSeq(s, p + 1, p + n)) = n
      /\ \A k \in 1..n : SubSeq(s, p + 1, p + n)[k] = s[p + k]
  BY <1>1
<1>3. \A k \in 1..n : s[p + k] \in Nat
  BY <1>1
<1> QED
  BY <1>1, <1>2, <1>3 DEF Bytes

\* The line reader fed any piece of a stream.
LEMMA LineFeedSays ==
    ASSUME NEW s \in Bytes, NEW p \in Nat, NEW n \in Nat, p + n <= Len(s),
           NEW lp \in LineReader, LineSays(lp, s, p)
    PROVE  LET fed == LineFeed(lp, SubSeq(s, p + 1, p + n))
           IN  fed \in LineReader /\ LineSays(fed, s, p + n)
<1> DEFINE data == SubSeq(s, p + 1, p + n)
<1>1. /\ data \in Bytes /\ Len(data) = n /\ Len(s) \in Nat
      /\ \A k \in 1..n : data[k] = s[p + k] /\ data[k] \in Nat
  BY PieceIs
<1> HIDE DEF data
<1>2. PICK g : IsFed(g, lp, data) /\ LineFeed(lp, data) = g[n]
  BY <1>1, LineFeedIs
<1>3. \A k \in 0..n : g[k] = IF k = 0 THEN lp ELSE LineByte(g[k - 1], data[k])
  BY <1>1, <1>2 DEF IsFed
<1> DEFINE S == {k \in 0..n : g[k] \in LineReader /\ LineSays(g[k], s, p + k)}
<1>4. 0 \in S
  <2>1. g[0] = lp /\ p + 0 = p /\ 0 \in 0..n
    BY <1>3
  <2> QED
    BY <2>1
<1>5. ASSUME NEW k \in 1..n, k - 1 \in S PROVE k \in S
  <2>1. g[k] = LineByte(g[k - 1], s[p + k]) /\ s[p + k] \in Nat
    <3>1. k \in 0..n /\ k # 0
      OBVIOUS
    <3>2. g[k] = LineByte(g[k - 1], data[k])
      BY <1>3, <3>1
    <3> QED
      BY <1>1, <3>2
  <2>2. /\ p + (k - 1) \in Nat /\ p + (k - 1) < Len(s) /\ p + (k - 1) + 1 = p + k /\ k \in 0..n
    BY <1>1
  <2>3. g[k - 1] \in LineReader /\ LineSays(g[k - 1], s, p + (k - 1))
    BY <1>5
  <2>4. LineSays(LineByte(g[k - 1], s[p + (k - 1) + 1]), s, p + (k - 1) + 1)
    BY <2>2, <2>3, LineByteSays
  <2>5. g[k] \in LineReader
    BY <2>1, <2>3, LineByteType
  <2>6. LineSays(g[k], s, p + k)
    BY <2>1, <2>2, <2>4
  <2> QED
    BY <2>2, <2>5, <2>6
<1>6. n \in S
  <2>1. n \in 0..n
    OBVIOUS
  <2> HIDE DEF S
  <2> QED
    BY <1>4, <1>5, <2>1, UpTo
<1> QED
  BY <1>2, <1>6 DEF data

-----------------------------------------------------------------------------
\* What a header at a place of a stream announces.
LEMMA AnnouncedIs ==
    ASSUME NEW s \in Bytes, NEW i \in Nat, i + 2 <= Len(s)
    PROVE  /\ SubSeq(s, i + 1, i + 2) \in Bytes /\ Len(SubSeq(s, i + 1, i + 2)) = 2
           /\ Announced(SubSeq(s, i + 1, i + 2)) = s[i + 1] + ByteBase * s[i + 2]
           /\ s[i + 1] + ByteBase * s[i + 2] \in Nat
<1>1. /\ SubSeq(s, i + 1, i + 2) \in Bytes /\ Len(SubSeq(s, i + 1, i + 2)) = 2
      /\ \A k \in 1..2 : SubSeq(s, i + 1, i + 2)[k] = s[i + k] /\ SubSeq(s, i + 1, i + 2)[k] \in Nat
  <2> DEFINE n == 2
  <2>1. n \in Nat /\ i + n <= Len(s)
    OBVIOUS
  <2> HIDE DEF n
  <2>2. /\ SubSeq(s, i + 1, i + n) \in Bytes /\ Len(SubSeq(s, i + 1, i + n)) = n
        /\ \A k \in 1..n : SubSeq(s, i + 1, i + n)[k] = s[i + k] /\ SubSeq(s, i + 1, i + n)[k] \in Nat
    BY ONLY <2>1, s \in Bytes, i \in Nat, PieceIs
  <2> QED
    BY <2>2 DEF n
<1> DEFINE h == SubSeq(s, i + 1, i + 2)
<1>2. h[1] = s[i + 1] /\ h[2] = s[i + 2] /\ h[1] \in Nat /\ h[2] \in Nat
  BY <1>1
<1> HIDE DEF h
<1>3. ASSUME NEW x \in Nat, NEW y \in Nat PROVE x + y * x \in Nat
  OBVIOUS
<1>4. ByteBase * s[i + 2] \in Nat
  BY <1>2, FramingAssumption
<1>5. Announced(h) = s[i + 1] + ByteBase * s[i + 2]
  BY <1>2 DEF Announced
<1> QED
  BY <1>1, <1>2, <1>4, <1>5 DEF h

Reading(g, s, i) ==
    LET n == Announced(SubSeq(s, i + 1, i + 2))
        m == SubSeq(s, i + 3, i + 2 + n)
    IN  IF Len(s) < i + 2 THEN <<>>
        ELSE IF Len(s) < i + 2 + n THEN <<>>
        ELSE (IF IsCommand(m) THEN <<m>> ELSE <<>>) \o g[i + 2 + n]

IsMessages(g, s) == g = [i \in 0..Len(s) |-> Reading(g, s, i)]

\* The messages of a stream are well defined: each is read before the ones behind it.
LEMMA ReadingIs ==
    ASSUME NEW s \in Bytes, NEW i \in 0..Len(s), NEW g \in [0..Len(s) -> Seq(Bytes)]
    PROVE  /\ Reading(g, s, i) \in Seq(Bytes)
           /\ \A h : (\A j \in i + 1..Len(s) : h[j] = g[j]) => Reading(h, s, i) = Reading(g, s, i)
<1> DEFINE n == Announced(SubSeq(s, i + 1, i + 2))
           m == SubSeq(s, i + 3, i + 2 + n)
           one == IF IsCommand(m) THEN <<m>> ELSE <<>>
<1>0. Len(s) \in Nat /\ i \in Nat
  BY DEF Bytes
<1>1. CASE Len(s) < i + 2
  BY <1>1 DEF Reading
<1>2. CASE ~ (Len(s) < i + 2) /\ Len(s) < i + 2 + n
  BY <1>2 DEF Reading
<1>3. CASE ~ (Len(s) < i + 2) /\ ~ (Len(s) < i + 2 + n)
  <2>1. n \in Nat
    BY <1>0, <1>3, AnnouncedIs
  <2>2. m \in Bytes
    <3> HIDE DEF n
    <3>1. i + 2 \in Nat /\ i + 2 + n <= Len(s) /\ (i + 2) + 1 = i + 3
      BY <1>0, <1>3, <2>1
    <3>2. SubSeq(s, (i + 2) + 1, (i + 2) + n) \in Bytes
      BY <2>1, <3>1, PieceIs
    <3> QED
      BY <3>1, <3>2
  <2>3. one \in Seq(Bytes)
    <3> HIDE DEF m
    <3> QED
      BY <2>2
  <2>4. i + 2 + n \in i + 1..Len(s) /\ i + 2 + n \in 0..Len(s)
    <3> HIDE DEF n
    <3> QED
      BY <1>0, <1>3, <2>1
  <2>5. \A h : Reading(h, s, i) = one \o h[i + 2 + n]
    BY <1>3 DEF Reading
  <2> HIDE DEF one, n
  <2>6. g[i + 2 + n] \in Seq(Bytes)
    BY <2>4
  <2>7. one \o g[i + 2 + n] \in Seq(Bytes)
    BY <2>3, <2>6, ConcatProperties
  <2> QED
    BY <2>4, <2>5, <2>7
<1> QED
  BY <1>1, <1>2, <1>3

\* The function that Messages chooses exists.
LEMMA MessagesExist ==
    ASSUME NEW s \in Bytes
    PROVE  \E g \in [0..Len(s) -> Seq(Bytes)] : IsMessages(g, s)
<1> DEFINE n == Len(s)
           Upto(g, d) == \A i \in 0..n : n - i <= d => g[i] = Reading(g, s, i)
           S == {d \in 0..n : \E g \in [0..n -> Seq(Bytes)] : Upto(g, d)}
<1>0. n \in Nat
  BY DEF Bytes
<1>1. ASSUME NEW d \in Nat, NEW g \in [0..n -> Seq(Bytes)], d > 0 => Upto(g, d - 1)
      PROVE  \E h \in [0..n -> Seq(Bytes)] : Upto(h, d)
  <2> DEFINE h == [i \in 0..n |-> Reading(g, s, i)]
  <2>1. h \in [0..n -> Seq(Bytes)]
    <3>1. \A i \in 0..n : Reading(g, s, i) \in Seq(Bytes)
      BY ReadingIs
    <3> HIDE DEF n
    <3> QED
      BY <3>1
  <2>2. ASSUME NEW i \in 0..n, n - i <= d PROVE h[i] = Reading(h, s, i)
    <3>1. ASSUME NEW j \in i + 1..n PROVE h[j] = g[j]
      <4>1. j \in 0..n /\ n - j <= d - 1 /\ d > 0
        BY <1>0, <2>2
      <4>2. g[j] = Reading(g, s, j)
        BY <1>1, <4>1
      <4> HIDE DEF n
      <4> QED
        BY <4>1, <4>2
    <3>2. h[i] = Reading(g, s, i)
      OBVIOUS
    <3> HIDE DEF h
    <3>3. Reading(h, s, i) = Reading(g, s, i)
      BY <3>1, ReadingIs
    <3> QED
      BY <3>2, <3>3
  <2> HIDE DEF h, n
  <2> QED
    BY <2>1, <2>2
<1>2. 0 \in S
  <2>1. PICK none \in [0..n -> Seq(Bytes)] : TRUE
    <3>1. [i \in 0..n |-> <<>>] \in [0..n -> Seq(Bytes)]
      OBVIOUS
    <3> QED
      BY <3>1
  <2>2. 0 \in 0..n /\ 0 \in Nat /\ ~ (0 > 0)
    BY <1>0
  <2> HIDE DEF Upto, n
  <2>3. \E h \in [0..n -> Seq(Bytes)] : Upto(h, 0)
    BY <1>1, <2>2
  <2> QED
    BY <2>2, <2>3
<1>3. ASSUME NEW d \in 1..n, d - 1 \in S PROVE d \in S
  <2>1. d \in Nat /\ d \in 0..n
    BY <1>0
  <2> HIDE DEF Upto, n
  <2> QED
    BY <1>1, <1>3, <2>1
<1>4. n \in S
  <2>1. n \in 0..n
    BY <1>0
  <2> HIDE DEF S, n
  <2> QED
    BY <1>0, <1>2, <1>3, <2>1, UpTo
<1>5. PICK g \in [0..n -> Seq(Bytes)] : \A i \in 0..n : g[i] = Reading(g, s, i)
  <2>1. PICK g \in [0..n -> Seq(Bytes)] : Upto(g, n)
    BY <1>4
  <2>2. \A i \in 0..n : n - i <= n
    BY <1>0
  <2> QED
    BY <2>1, <2>2
<1>6. g = [i \in 0..n |-> g[i]]
  BY <1>5
<1>7. g = [i \in 0..n |-> Reading(g, s, i)]
  BY <1>5, <1>6
<1> QED
  BY <1>7 DEF IsMessages

\* The messages from each place on, in terms of those behind the first.
LEMMA MessagesAre ==
    ASSUME NEW s \in Bytes
    PROVE  /\ Messages(s) \in [0..Len(s) -> Seq(Bytes)]
           /\ \A i \in 0..Len(s) : Messages(s)[i] = Reading(Messages(s), s, i)
<1>1. Messages(s) = CHOOSE h : IsMessages(h, s)
  BY DEF Messages, IsMessages, Reading
<1>2. PICK g \in [0..Len(s) -> Seq(Bytes)] : IsMessages(g, s)
  BY MessagesExist
<1>3. IsMessages(Messages(s), s)
  BY <1>1, <1>2
<1> DEFINE n == Len(s)
           M == Messages(s)
           S == {d \in 0..n : \A i \in 0..n : n - i <= d => M[i] = g[i]}
<1>0. n \in Nat
  BY DEF Bytes
<1> HIDE DEF M
<1>4. M = [i \in 0..n |-> Reading(M, s, i)] /\ g = [i \in 0..n |-> Reading(g, s, i)]
  BY <1>2, <1>3 DEF M, IsMessages
<1>5. \A i \in 0..n : M[i] = Reading(M, s, i) /\ g[i] = Reading(g, s, i)
  <2> HIDE DEF n
  <2> QED
    BY <1>4
<1>6. ASSUME NEW i \in 0..n, \A j \in i + 1..n : M[j] = g[j] PROVE M[i] = g[i]
  <2>1. Reading(M, s, i) = Reading(g, s, i)
    BY <1>6, ReadingIs
  <2> QED
    BY <1>5, <2>1
<1> HIDE DEF n
<1>7. 0 \in S
  <2>1. ASSUME NEW i \in 0..n, n - i <= 0 PROVE M[i] = g[i]
    <3>1. i + 1..n = {}
      BY <1>0, <2>1
    <3> QED
      BY <1>6, <3>1
  <2> QED
    BY <1>0, <2>1
<1>8. ASSUME NEW d \in 1..n, d - 1 \in S PROVE d \in S
  <2>1. ASSUME NEW i \in 0..n, n - i <= d PROVE M[i] = g[i]
    <3>1. \A j \in i + 1..n : j \in 0..n /\ n - j <= d - 1
      BY <1>0, <2>1
    <3> QED
      BY <1>6, <1>8, <3>1
  <2> QED
    BY <1>0, <2>1
<1>9. n \in S
  <2>1. n \in 0..n
    BY <1>0
  <2> HIDE DEF S
  <2> QED
    BY <1>0, <1>7, <1>8, <2>1, UpTo
<1>10. \A i \in 0..n : M[i] \in Seq(Bytes)
  <2>1. \A i \in 0..n : n - i <= n
    BY <1>0
  <2>2. g \in [0..n -> Seq(Bytes)]
    BY <1>2 DEF n
  <2> QED
    BY <1>9, <2>1, <2>2
<1>11. M \in [0..n -> Seq(Bytes)]
  BY <1>4, <1>10
<1> QED
  BY <1>5, <1>11 DEF M, n

\* A piece of a piece of a stream is a piece of the stream.
LEMMA PieceOfPiece ==
    ASSUME NEW s \in Bytes, NEW p \in Nat, NEW n \in Nat, p + n <= Len(s),
           NEW a \in Nat, NEW z \in Nat, a + z <= n
    PROVE  SubSeq(SubSeq(s, p + 1, p + n), a + 1, a + z) = SubSeq(s, (p + a) + 1, (p + a) + z)
<1> DEFINE d == SubSeq(s, p + 1, p + n)
           l == SubSeq(d, a + 1, a + z)
           r == SubSeq(s, (p + a) + 1, (p + a) + z)
<1>1. d \in Bytes /\ Len(d) = n /\ \A k \in 1..n : d[k] = s[p + k]
  BY PieceIs
<1> HIDE DEF d
<1>2. l \in Bytes /\ Len(l) = z /\ \A k \in 1..z : l[k] = d[a + k]
  <2>1. d \in Bytes /\ a + z <= Len(d)
    BY <1>1
  <2>2. /\ SubSeq(d, a + 1, a + z) \in Bytes /\ Len(SubSeq(d, a + 1, a + z)) = z
        /\ \A k \in 1..z : SubSeq(d, a + 1, a + z)[k] = d[a + k]
    BY <2>1, PieceIs, ZenonT(60)
  <2> QED
    BY <2>2
<1>3. p + a \in Nat /\ (p + a) + z <= Len(s) /\ Len(s) \in Nat
  BY DEF Bytes
<1>4. r \in Bytes /\ Len(r) = z /\ \A k \in 1..z : r[k] = s[(p + a) + k]
  <2> DEFINE b == p + a
  <2>1. b \in Nat /\ b + z <= Len(s)
    BY <1>3
  <2> HIDE DEF b
  <2>2. LET t == SubSeq(s, b + 1, b + z) IN t \in Bytes /\ Len(t) = z /\ \A k \in 1..z : t[k] = s[b + k]
    BY <2>1, PieceIs, ZenonT(60)
  <2> QED
    BY <2>2 DEF b
<1>5. ASSUME NEW k \in 1..z PROVE l[k] = r[k]
  <2>1. a + k \in 1..n /\ p + (a + k) = (p + a) + k
    OBVIOUS
  <2> HIDE DEF l, r
  <2> QED
    BY <1>1, <1>2, <1>4, <2>1
<1> HIDE DEF l, r
<1>6. l = r
  BY <1>2, <1>4, <1>5, SeqEqual DEF Bytes
<1>7. SubSeq(d, a + 1, a + z) = SubSeq(s, (p + a) + 1, (p + a) + z)
  BY <1>6 DEF l, r
<1> QED
  BY <1>7 DEF d

Announcement(s, b) == s[b + 1] + ByteBase * s[b + 2]

Telling(told, s, q, b, n) ==
    /\ told[b] \in Seq(Bytes)
    /\ q < b + 2 => told[b] = <<>>
    /\ b + 2 <= q => n \in Nat
    /\ b + 2 <= q /\ q < b + 2 + n => told[b] = <<>>
    /\ b + 2 <= q /\ b + 2 + n <= q =>
          told[b] = (IF n \in 1..BufSize - 1 THEN <<SubSeq(s, b + 3, b + 2 + n)>> ELSE <<>>)
                    \o told[b + 2 + n]

\* The messages of the part of a stream up to a place, in terms of the stream.
LEMMA MessagesUpTo ==
    ASSUME NEW s \in Bytes, NEW q \in 0..Len(s), NEW b \in 0..q
    PROVE  Telling(Messages(SubSeq(s, 1, q)), s, q, b, Announcement(s, b))
<1> DEFINE n == Announcement(s, b)
           u == SubSeq(s, 1, q)
           told == Messages(u)
<1> SUFFICES Telling(told, s, q, b, n)
  OBVIOUS
<1>x. n = Announcement(s, b)
  OBVIOUS
<1> HIDE DEF n
<1>1. q \in Nat /\ b \in Nat /\ q <= Len(s) /\ Len(s) \in Nat /\ 0 + q = q /\ 0 + 1 = 1
  BY DEF Bytes
<1>2. u \in Bytes /\ Len(u) = q /\ \A k \in 1..q : u[k] = s[k]
  <2>1. 0 \in Nat /\ 0 + q <= Len(s)
    BY <1>1
  <2>2. LET v == SubSeq(s, 0 + 1, 0 + q) IN v \in Bytes /\ Len(v) = q /\ \A k \in 1..q : v[k] = s[0 + k]
    BY <1>1, <2>1, PieceIs, ZenonT(60)
  <2>3. \A k \in 1..q : 0 + k = k
    OBVIOUS
  <2> QED
    BY <1>1, <2>2, <2>3
<1> HIDE DEF u
<1>3. told \in [0..q -> Seq(Bytes)] /\ told[b] = Reading(told, u, b)
  BY <1>2, MessagesAre
<1> HIDE DEF told
<1>4. CASE q < b + 2
  <2>1. told[b] = <<>>
    BY <1>2, <1>3, <1>4 DEF Reading
  <2>2. ~ (b + 2 <= q)
    BY <1>1, <1>4
  <2>3. told[b] \in Seq(Bytes)
    BY <1>1, <1>3
  <2> QED
    BY <2>1, <2>2, <2>3, Zenon DEF Telling
<1>5. CASE b + 2 <= q
  <2>1. /\ Announced(SubSeq(u, b + 1, b + 2)) = u[b + 1] + ByteBase * u[b + 2]
        /\ u[b + 1] + ByteBase * u[b + 2] \in Nat
    BY <1>1, <1>2, <1>5, AnnouncedIs
  <2>2. u[b + 1] = s[b + 1] /\ u[b + 2] = s[b + 2]
    BY <1>1, <1>2, <1>5
  <2>3. Announced(SubSeq(u, b + 1, b + 2)) = n /\ n \in Nat
    BY <1>x, <2>1, <2>2 DEF Announcement
  <2>4. q < b + 2 + n => told[b] = <<>>
    BY <1>2, <1>3, <1>5, <2>3 DEF Reading
  <2>5. ASSUME b + 2 + n <= q
        PROVE  told[b] = (IF n \in 1..BufSize - 1 THEN <<SubSeq(s, b + 3, b + 2 + n)>> ELSE <<>>)
                         \o told[b + 2 + n]
    <3> DEFINE m == SubSeq(u, b + 3, b + 2 + n)
    <3>1. b + 2 \in Nat /\ b + 2 + n <= q /\ (b + 2) + 1 = b + 3 /\ b + 2 + n = (b + 2) + n
      BY <1>1, <2>3, <2>5
    <3>2. m \in Bytes /\ Len(m) = n
      <4> DEFINE c == b + 2
      <4>1. c \in Nat /\ c + n <= Len(u)
        BY <1>2, <3>1
      <4> HIDE DEF c
      <4>2. SubSeq(u, c + 1, c + n) \in Bytes /\ Len(SubSeq(u, c + 1, c + n)) = n
        BY <1>2, <2>3, <4>1, PieceIs
      <4> QED
        BY <3>1, <4>2 DEF c
    <3>3. m = SubSeq(s, b + 3, b + 2 + n)
      <4> DEFINE c == b + 2
      <4>1. c \in Nat /\ c + n <= q /\ 0 + q <= Len(s) /\ 0 \in Nat
        BY <1>1, <3>1
      <4> HIDE DEF c
      <4>2. SubSeq(SubSeq(s, 0 + 1, 0 + q), c + 1, c + n) = SubSeq(s, (0 + c) + 1, (0 + c) + n)
        BY <1>1, <2>3, <4>1, PieceOfPiece
      <4>3. 0 + c = c
        BY <4>1
      <4>4. SubSeq(u, c + 1, c + n) = SubSeq(s, c + 1, c + n)
        BY <1>1, <4>2, <4>3 DEF u
      <4> QED
        BY <3>1, <4>4 DEF c
    <3>4. told[b] = (IF IsCommand(m) THEN <<m>> ELSE <<>>) \o told[b + 2 + n]
      <4> DEFINE a == Announced(SubSeq(u, b + 1, b + 2))
                 w == SubSeq(u, b + 3, b + 2 + a)
      <4>1. ~ (Len(u) < b + 2) /\ ~ (Len(u) < b + 2 + n) /\ a = n
        BY <1>1, <1>2, <1>5, <2>3, <3>1
      <4>2. Reading(told, u, b) = (IF IsCommand(w) THEN <<w>> ELSE <<>>) \o told[b + 2 + a]
        BY <4>1 DEF Reading
      <4> HIDE DEF a
      <4> QED
        BY <1>3, <4>1, <4>2
    <3> HIDE DEF m
    <3>5. IsCommand(m) <=> n \in 1..BufSize - 1
      BY <3>2 DEF IsCommand
    <3> QED
      BY <3>3, <3>4, <3>5
  <2>6. told[b] \in Seq(Bytes) /\ ~ (q < b + 2)
    BY <1>1, <1>3, <1>5
  <2> QED
    BY <2>3, <2>4, <2>5, <2>6, Zenon DEF Telling
<1> QED
  BY <1>1, <1>4, <1>5

-----------------------------------------------------------------------------
FrameReader == [hdr : Bytes, want : Nat, buf : Bytes, discard : Nat, out : Seq(Bytes)]

\* The reader handed on the messages before a place b of the stream that a message begins at.
Told(out, before, s, p, b) ==
    \A q \in p..Len(s) :
        before \o Messages(SubSeq(s, 1, q))[0] = out \o Messages(SubSeq(s, 1, q))[b]

\* What it has of the message that begins there: a part of the header, a part of a payload
\* that it refuses, a part of one that it keeps.
InHeader(f, s, p, b) == f.discard = 0 /\ p < b + 2 /\ f.hdr = SubSeq(s, b + 1, p)

InRefused(f, s, p, b) ==
    /\ f.discard > 0 /\ b + 2 <= p /\ Announcement(s, b) > BufSize - 1
    /\ f.hdr = <<>> /\ p + f.discard = b + 2 + Announcement(s, b)

InPayload(f, s, p, b) ==
    /\ f.discard = 0 /\ b + 2 <= p /\ p < b + 2 + Announcement(s, b)
    /\ Announcement(s, b) \in 1..BufSize - 1 /\ f.want = Announcement(s, b)
    /\ f.hdr = SubSeq(s, b + 1, b + 2) /\ f.buf = SubSeq(s, b + 3, p)

FrameSays(f, before, s, p) ==
    \E b \in 0..p : /\ Told(f.out, before, s, p, b)
                    /\ InHeader(f, s, p, b) \/ InRefused(f, s, p, b) \/ InPayload(f, s, p, b)

\* What was told at a place is still told at a later one.
LEMMA ToldOn ==
    ASSUME NEW s \in Bytes, NEW p \in Nat, NEW r \in Nat, p <= r, r <= Len(s), NEW b,
           NEW before, NEW out, Told(out, before, s, p, b)
    PROVE  Told(out, before, s, r, b)
<1>1. Len(s) \in Nat
  BY DEF Bytes
<1>2. r..Len(s) \subseteq p..Len(s)
  BY <1>1
<1> QED
  BY <1>2 DEF Told

\* Past a whole message, which it handed on if it fits.
LEMMA ToldNext ==
    ASSUME NEW s \in Bytes, NEW p \in Nat, NEW b \in 0..p,
           NEW before \in Seq(Bytes), NEW out \in Seq(Bytes), Told(out, before, s, p, b),
           NEW n \in Nat, n = Announcement(s, b),
           NEW r \in Nat, p <= r, r <= Len(s), b + 2 + n <= r,
           NEW one \in Seq(Bytes),
           one = IF n \in 1..BufSize - 1 THEN <<SubSeq(s, b + 3, b + 2 + n)>> ELSE <<>>
    PROVE  Told(out \o one, before, s, r, b + 2 + n)
<1> SUFFICES ASSUME NEW q \in r..Len(s)
             PROVE  before \o Messages(SubSeq(s, 1, q))[0]
                        = (out \o one) \o Messages(SubSeq(s, 1, q))[b + 2 + n]
  BY DEF Told
<1>1. Len(s) \in Nat
  BY DEF Bytes
<1>2. q \in p..Len(s) /\ q \in 0..Len(s) /\ b \in 0..q /\ b + 2 + n \in 0..q /\ b + 2 <= q /\ b + 2 + n <= q
  BY <1>1, SMTT(30)
<1> DEFINE told == Messages(SubSeq(s, 1, q))
<1>3. before \o told[0] = out \o told[b]
  BY <1>2 DEF Told
<1>4. Telling(told, s, q, b, n) /\ Telling(told, s, q, b + 2 + n, Announcement(s, b + 2 + n))
  <2> DEFINE c == b + 2 + n
  <2>1. c \in 0..q
    BY <1>2
  <2> HIDE DEF c
  <2>2. Telling(told, s, q, c, Announcement(s, c))
    BY <1>2, <2>1, MessagesUpTo
  <2> QED
    BY <1>2, <2>2, MessagesUpTo DEF c
<1> HIDE DEF told
<1>5. told[b] = one \o told[b + 2 + n] /\ told[b + 2 + n] \in Seq(Bytes)
  BY <1>2, <1>4 DEF Telling
<1>6. out \o (one \o told[b + 2 + n]) = (out \o one) \o told[b + 2 + n]
  <2> DEFINE t == told[b + 2 + n]
  <2>1. t \in Seq(Bytes)
    BY <1>5
  <2> HIDE DEF t
  <2>2. (out \o one) \o t = out \o (one \o t)
    BY ONLY <2>1, out \in Seq(Bytes), one \in Seq(Bytes), ConcatAssociative, SMTT(30)
  <2> QED
    BY <2>2 DEF t
<1>7. before \o told[0] = (out \o one) \o told[b + 2 + n]
  BY <1>3, <1>5, <1>6
<1> QED
  BY <1>7 DEF told

\* Nothing of a message is handed on before the whole of it is there.
LEMMA FrameTells ==
    ASSUME NEW s \in Bytes, NEW p \in 0..Len(s), NEW f \in FrameReader, NEW before \in Seq(Bytes),
           FrameSays(f, before, s, p)
    PROVE  f.out = before \o Messages(SubSeq(s, 1, p))[0]
<1> DEFINE told == Messages(SubSeq(s, 1, p))
<1>0. Len(s) \in Nat /\ p \in Nat /\ p \in p..Len(s) /\ f.discard \in Nat /\ f.out \in Seq(Bytes)
  BY DEF Bytes, FrameReader
<1>1. PICK b \in 0..p : /\ Told(f.out, before, s, p, b)
                        /\ InHeader(f, s, p, b) \/ InRefused(f, s, p, b) \/ InPayload(f, s, p, b)
  BY DEF FrameSays
<1>2. before \o told[0] = f.out \o told[b]
  BY <1>0, <1>1 DEF Told
<1>3. Telling(told, s, p, b, Announcement(s, b))
  BY MessagesUpTo
<1> HIDE DEF told
<1>4. told[b] = <<>>
  <2> DEFINE n == Announcement(s, b)
  <2> HIDE DEF n
  <2>1. p < b + 2 \/ (b + 2 <= p /\ p < b + 2 + n)
    <3>1. CASE InHeader(f, s, p, b)
      BY <3>1 DEF InHeader
    <3>2. CASE InPayload(f, s, p, b)
      BY <3>2 DEF InPayload, n
    <3>3. CASE InRefused(f, s, p, b)
      <4>1. b + 2 <= p /\ f.discard > 0 /\ p + f.discard = b + 2 + n
        BY <3>3 DEF InRefused, n
      <4>2. n \in Nat
        BY <1>3, <4>1 DEF Telling, n
      <4> QED
        BY <1>0, <4>1, <4>2
    <3> QED
      BY <1>1, <3>1, <3>2, <3>3
  <2> QED
    BY <1>3, <2>1 DEF Telling, n
<1> QED
  BY <1>0, <1>2, <1>4, ConcatEmptySeq DEF told

-----------------------------------------------------------------------------
\* The parts of what a callback was given: the first byte, what is behind it, and the two
\* sides of a cut.
IsData(data, s, p, n) ==
    /\ data \in Bytes /\ Len(data) = n /\ data # <<>>
    /\ Head(data) = s[p + 1] /\ Tail(data) = SubSeq(s, (p + 1) + 1, p + n) /\ s[p + 1] \in Nat
    /\ \A m \in 0..n : /\ Rest(data, m) = SubSeq(s, (p + m) + 1, p + n)
                       /\ SubSeq(data, 1, m) = SubSeq(s, p + 1, p + m)

\* What a pass of the loop finds in the data is what the stream has there.
LEMMA DataIs ==
    ASSUME NEW s \in Bytes, NEW p \in Nat, NEW n \in Nat \ {0}, p + n <= Len(s)
    PROVE  IsData(SubSeq(s, p + 1, p + n), s, p, n)
<1> DEFINE data == SubSeq(s, p + 1, p + n)
<1> SUFFICES IsData(data, s, p, n)
  OBVIOUS
<1>1. data \in Bytes /\ Len(data) = n /\ \A k \in 1..n : data[k] = s[p + k] /\ data[k] \in Nat
  BY PieceIs
<1>e. data = SubSeq(s, p + 1, p + n)
  OBVIOUS
<1> HIDE DEF data
<1>2. data # <<>> /\ Head(data) = s[p + 1] /\ s[p + 1] \in Nat
  <2>1. 1 \in 1..n /\ data[1] = s[p + 1] /\ data[1] \in Nat
    BY <1>1
  <2>2. Head(data) = data[1] /\ data # <<>>
    <3>1. data \in Seq(Nat) /\ Len(data) > 0
      BY <1>1 DEF Bytes
    <3> QED
      BY ONLY <3>1
  <2> QED
    BY <2>1, <2>2
<1>3. ASSUME NEW m \in 0..n PROVE Rest(data, m) = SubSeq(s, (p + m) + 1, p + n)
  <2> DEFINE z == n - m
  <2>1. z \in Nat /\ m + z <= n /\ m + z = n /\ (p + m) + z = p + n
    OBVIOUS
  <2> HIDE DEF z
  <2>2. SubSeq(SubSeq(s, p + 1, p + n), m + 1, m + z) = SubSeq(s, (p + m) + 1, (p + m) + z)
    BY <2>1, PieceOfPiece
  <2> QED
    BY <1>1, <1>e, <2>1, <2>2 DEF Rest
<1>4. ASSUME NEW m \in 0..n PROVE SubSeq(data, 1, m) = SubSeq(s, p + 1, p + m)
  <2>1. m \in Nat /\ 0 + m <= n /\ 0 + m = m /\ (p + 0) + m = p + m /\ p + 0 = p /\ 0 + 1 = 1
    OBVIOUS
  <2>2. SubSeq(SubSeq(s, p + 1, p + n), 0 + 1, 0 + m) = SubSeq(s, (p + 0) + 1, (p + 0) + m)
    BY <2>1, PieceOfPiece
  <2> QED
    BY <1>e, <2>1, <2>2
<1>5. Tail(data) = SubSeq(s, (p + 1) + 1, p + n)
  <2>1. Tail(data) = SubSeq(data, 2, Len(data))
    BY <1>1, <1>2, TailIsSubSeq DEF Bytes
  <2>2. Rest(data, 1) = SubSeq(s, (p + 1) + 1, p + n)
    BY <1>3
  <2> QED
    BY <2>1, <2>2 DEF Rest
<1> QED
  BY <1>1, <1>2, <1>3, <1>4, <1>5 DEF IsData

\* What a pass leaves: it took some of the data, and is where that brings it in the stream.
MovedOn(r, before, s, p, n) ==
    \E m \in 1..n : /\ r.rest = SubSeq(s, (p + m) + 1, p + n)
                    /\ r.frame \in FrameReader /\ FrameSays(r.frame, before, s, p + m)

\* A pass over a payload that is refused.
LEMMA SwallowSays ==
    ASSUME NEW s \in Bytes, NEW p \in Nat, NEW n \in Nat \ {0}, p + n <= Len(s),
           NEW before \in Seq(Bytes), NEW f \in FrameReader, NEW b \in 0..p,
           Told(f.out, before, s, p, b), InRefused(f, s, p, b),
           NEW data, IsData(data, s, p, n)
    PROVE  MovedOn(Swallow(f, data), before, s, p, n)
<1>1. /\ f.discard \in Nat /\ f.out \in Seq(Bytes) /\ f \in FrameReader
      /\ BufSize \in Nat /\ Len(s) \in Nat /\ p \in 0..Len(s)
  <2>1. f.discard \in Nat /\ f.out \in Seq(Bytes)
    BY DEF FrameReader
  <2>2. Len(s) \in Nat
    BY DEF Bytes
  <2> QED
    BY <2>1, <2>2, FramingAssumption
<1>2. Len(data) = n /\ \A k \in 0..n : Rest(data, k) = SubSeq(s, (p + k) + 1, p + n)
  BY DEF IsData
<1> DEFINE d == f.discard
           m == IF n > d THEN d ELSE n
           after == [f EXCEPT !.discard = d - m]
           a == Announcement(s, b)
<1>r. d > 0 /\ b + 2 <= p /\ a > BufSize - 1 /\ f.hdr = <<>> /\ p + d = b + 2 + a
  BY DEF InRefused
<1> HIDE DEF d, a
<1>d. d \in Nat
  BY <1>1 DEF d
<1>3. m \in 1..n /\ m <= d /\ d - m \in Nat /\ Min({n, d}) = m
  <2>1. n \in Int /\ d \in Int
    BY <1>d
  <2>2. Min({n, d}) = m
    BY <2>1, MinOfTwo
  <2> QED
    BY <1>d, <1>r, <2>2
<1>4. a \in Nat
  <2>1. Telling(Messages(SubSeq(s, 1, p)), s, p, b, a)
    BY <1>1, MessagesUpTo DEF a
  <2> QED
    BY <1>r, <2>1 DEF Telling
<1> HIDE DEF m
<1>5. Swallow(f, data) = [frame |-> after, rest |-> Rest(data, m)]
  BY <1>2, <1>3 DEF Swallow, d
<1>6. /\ after \in FrameReader /\ after.out = f.out /\ after.hdr = <<>>
      /\ after.discard = d - m
  BY <1>1, <1>3, <1>r DEF FrameReader
<1> HIDE DEF after
<1>7. p + m \in Nat /\ p <= p + m /\ p + m <= Len(s)
  BY <1>1, <1>3
<1>8. FrameSays(after, before, s, p + m)
  <2>1. CASE m = d
    <3> DEFINE c == b + 2 + a
    <3>1. p + m = c /\ c \in Nat
      BY <1>1, <1>4, <1>r, <2>1
    <3>2. Told(f.out \o <<>>, before, s, p + m, b + 2 + a)
      <4>1. <<>> \in Seq(Bytes) /\ b + 2 + a <= p + m
        BY <3>1, <1>7
      <4>2. a \notin 1..BufSize - 1
        BY <1>1, <1>4, <1>r
      <4>3. <<>> = IF a \in 1..BufSize - 1 THEN <<SubSeq(s, b + 3, b + 2 + a)>> ELSE <<>>
        BY <4>2
      <4> QED
        BY <1>1, <1>4, <1>7, <4>1, <4>3, ToldNext DEF a
    <3>3. f.out \o <<>> = f.out
      BY <1>1, ConcatEmptySeq
    <3>4. Told(after.out, before, s, p + m, c)
      BY <1>6, <3>2, <3>3
    <3> HIDE DEF c
    <3>5. InHeader(after, s, p + m, c)
      <4>1. SubSeq(s, c + 1, p + m) = <<>>
        BY <3>1, SubSeqEmpty
      <4>2. d - m = 0
        BY <1>d, <2>1
      <4> QED
        BY <1>6, <3>1, <4>1, <4>2 DEF InHeader
    <3>6. c \in 0..p + m
      BY <3>1
    <3> QED
      BY <3>4, <3>5, <3>6 DEF FrameSays
  <2>2. CASE m # d
    <3>1. Told(after.out, before, s, p + m, b)
      BY <1>6, <1>7, ToldOn
    <3>2. InRefused(after, s, p + m, b)
      <4>1. d - m > 0 /\ b + 2 <= p + m /\ (p + m) + (d - m) = b + 2 + a
        BY <1>1, <1>3, <1>4, <1>d, <1>r, <2>2
      <4> QED
        BY <1>r, <1>6, <4>1 DEF InRefused, a
    <3>3. b \in 0..p + m
      BY <1>7
    <3> QED
      BY <3>1, <3>2, <3>3 DEF FrameSays
  <2> QED
    BY <2>1, <2>2
<1>9. Swallow(f, data).rest = SubSeq(s, (p + m) + 1, p + n) /\ Swallow(f, data).frame = after
  <2>1. Rest(data, m) = SubSeq(s, (p + m) + 1, p + n)
    BY <1>2, <1>3
  <2>2. Swallow(f, data).frame = after /\ Swallow(f, data).rest = Rest(data, m)
    BY ONLY <1>5
  <2> QED
    BY <2>1, <2>2, Zenon
<1> QED
  BY <1>3, <1>6, <1>8, <1>9 DEF MovedOn

\* A piece of a stream, by its ends.
LEMMA StretchIs ==
    ASSUME NEW s \in Bytes, NEW b \in Nat, NEW e \in Nat, b <= e, e <= Len(s)
    PROVE  SubSeq(s, b + 1, e) \in Bytes /\ Len(SubSeq(s, b + 1, e)) = e - b
<1> DEFINE z == e - b
<1>1. z \in Nat /\ b + z = e /\ b + z <= Len(s)
  OBVIOUS
<1> HIDE DEF z
<1>2. SubSeq(s, b + 1, b + z) \in Bytes /\ Len(SubSeq(s, b + 1, b + z)) = z
  BY <1>1, PieceIs
<1> QED
  BY <1>1, <1>2 DEF z

\* Two pieces of a stream with no gap between them.
LEMMA Adjacent ==
    ASSUME NEW s \in Bytes, NEW c \in Nat, NEW p \in Nat, NEW e \in Nat, c <= p, p <= e, e <= Len(s)
    PROVE  SubSeq(s, c + 1, p) \o SubSeq(s, p + 1, e) = SubSeq(s, c + 1, e)
<1> DEFINE m == c + 1
<1>1. s \in Seq(Nat) /\ m \in 1..Len(s) + 1 /\ p \in m - 1..Len(s) /\ e \in p..Len(s)
  BY DEF Bytes
<1> HIDE DEF m
<1>2. SubSeq(s, m, p) \o SubSeq(s, p + 1, e) = SubSeq(s, m, e)
  BY ONLY <1>1, ConcatAdjacentSubSeq
<1> QED
  BY <1>2 DEF m

\* A piece and the byte behind it.
LEMMA Longer ==
    ASSUME NEW s \in Bytes, NEW p \in Nat, p < Len(s), NEW b \in 0..p
    PROVE  Append(SubSeq(s, b + 1, p), s[p + 1]) = SubSeq(s, b + 1, p + 1)
<1>1. Len(s) \in Nat
  BY DEF Bytes
<1> QED
  BY <1>1 DEF Bytes

\* A pass that takes a byte of a header.
LEMMA HeaderSays ==
    ASSUME NEW s \in Bytes, NEW p \in Nat, NEW n \in Nat \ {0}, p + n <= Len(s),
           NEW before \in Seq(Bytes), NEW f \in FrameReader, NEW b \in 0..p,
           Told(f.out, before, s, p, b), InHeader(f, s, p, b),
           NEW data, IsData(data, s, p, n)
    PROVE  MovedOn(TakeHeader(f, data), before, s, p, n)
<1>1. /\ f.hdr \in Bytes /\ f.want \in Nat /\ f.buf \in Bytes /\ f.discard \in Nat /\ f.out \in Seq(Bytes)
      /\ <<>> \in Bytes /\ BufSize \in Nat \ {0} /\ Len(s) \in Nat /\ p \in 0..Len(s) /\ b \in Nat
  <2>1. f.hdr \in Bytes /\ f.want \in Nat /\ f.buf \in Bytes /\ f.discard \in Nat /\ f.out \in Seq(Bytes)
    BY DEF FrameReader
  <2>2. Len(s) \in Nat /\ <<>> \in Bytes
    BY DEF Bytes
  <2> QED
    BY <2>1, <2>2, FramingAssumption
<1>2. f.discard = 0 /\ p < b + 2 /\ f.hdr = SubSeq(s, b + 1, p)
  BY DEF InHeader
<1>3. Head(data) = s[p + 1] /\ Tail(data) = SubSeq(s, (p + 1) + 1, p + n) /\ s[p + 1] \in Nat
  BY DEF IsData
<1> DEFINE hdr == SubSeq(s, b + 1, p + 1)
<1>4. Append(f.hdr, Head(data)) = hdr
  <2>1. Append(SubSeq(s, b + 1, p), s[p + 1]) = SubSeq(s, b + 1, p + 1)
    <3>1. p < Len(s)
      BY <1>1
    <3> QED
      BY <3>1, Longer
  <2> QED
    BY <1>2, <1>3, <2>1
<1>5. hdr \in Bytes /\ Len(hdr) = (p + 1) - b
  <2>1. b <= p + 1 /\ p + 1 <= Len(s) /\ p + 1 \in Nat
    BY <1>1
  <2> QED
    BY <1>1, <2>1, StretchIs
<1> HIDE DEF hdr
<1> DEFINE want == Announced(hdr)
           after == IF Len(hdr) < 2 THEN [f EXCEPT !.hdr = hdr]
                    ELSE IF want = 0 THEN [f EXCEPT !.hdr = <<>>]
                    ELSE IF want > BufSize - 1 THEN [f EXCEPT !.hdr = <<>>, !.discard = want]
                    ELSE [f EXCEPT !.hdr = hdr, !.want = want, !.buf = <<>>]
<1>6. TakeHeader(f, data).frame = after /\ TakeHeader(f, data).rest = Tail(data)
  <2>1. TakeHeader(f, data) = [frame |-> after, rest |-> Tail(data)]
    BY <1>4 DEF TakeHeader
  <2> QED
    BY ONLY <2>1
<1>7. p + 1 \in Nat /\ p <= p + 1 /\ p + 1 <= Len(s) /\ b \in 0..p + 1 /\ 1 \in 1..n
  BY <1>1
<1>8. Told(f.out, before, s, p + 1, b)
  BY <1>7, ToldOn
<1> HIDE DEF want
<1>9. after \in FrameReader /\ FrameSays(after, before, s, p + 1)
  <2>1. CASE Len(hdr) < 2
    <3>1. after = [f EXCEPT !.hdr = hdr]
      BY <2>1
    <3> HIDE DEF after
    <3>2. after \in FrameReader /\ after.out = f.out /\ after.hdr = hdr /\ after.discard = 0
      BY <1>1, <1>2, <1>5, <3>1 DEF FrameReader
    <3>3. p + 1 < b + 2
      BY <1>1, <1>5, <2>1
    <3>4. InHeader(after, s, p + 1, b)
      BY <3>2, <3>3 DEF InHeader, hdr
    <3>5. Told(after.out, before, s, p + 1, b)
      BY <1>8, <3>2
    <3> QED
      BY <1>7, <3>2, <3>4, <3>5 DEF FrameSays
  <2>2. CASE ~ (Len(hdr) < 2)
    <3>1. p + 1 = b + 2 /\ hdr = SubSeq(s, b + 1, b + 2)
      <4>1. p + 1 = b + 2
        BY <1>1, <1>2, <1>5, <2>2
      <4> QED
        BY <4>1 DEF hdr
    <3>2. want = Announcement(s, b) /\ want \in Nat
      <4>1. b + 2 <= Len(s)
        BY <1>7, <3>1
      <4> QED
        BY <1>1, <3>1, <4>1, AnnouncedIs DEF want, Announcement
    <3>3. CASE want = 0
      <4>1. after = [f EXCEPT !.hdr = <<>>]
        BY <2>2, <3>3
      <4> HIDE DEF after
      <4>2. after \in FrameReader /\ after.out = f.out /\ after.hdr = <<>> /\ after.discard = 0
        BY <1>1, <1>2, <4>1 DEF FrameReader
      <4> DEFINE c == p + 1
      <4>3. c = b + 2 + 0 /\ c \in Nat /\ p <= c /\ c <= Len(s)
        BY <1>7, <3>1
      <4> HIDE DEF c
      <4>4. Told(f.out \o <<>>, before, s, c, b + 2 + 0)
        <5>1. <<>> = IF 0 \in 1..BufSize - 1 THEN <<SubSeq(s, b + 3, b + 2 + 0)>> ELSE <<>>
          OBVIOUS
        <5>2. <<>> \in Seq(Bytes) /\ b + 2 + 0 <= c /\ 0 \in Nat /\ 0 = Announcement(s, b)
          BY <3>2, <3>3, <4>3
        <5> QED
          BY <1>1, <4>3, <5>1, <5>2, ToldNext
      <4>5. Told(after.out, before, s, c, c)
        BY <1>1, <4>2, <4>3, <4>4, ConcatEmptySeq
      <4>6. InHeader(after, s, c, c)
        <5>1. SubSeq(s, c + 1, c) = <<>>
          BY <4>3, SubSeqEmpty
        <5> QED
          BY <4>2, <4>3, <5>1 DEF InHeader
      <4>7. c \in 0..c
        BY <4>3
      <4> QED
        BY <4>2, <4>5, <4>6, <4>7 DEF FrameSays, c
    <3>4. CASE want # 0 /\ want > BufSize - 1
      <4>1. after = [f EXCEPT !.hdr = <<>>, !.discard = want]
        BY <2>2, <3>4
      <4> HIDE DEF after
      <4>2. after \in FrameReader /\ after.out = f.out /\ after.hdr = <<>> /\ after.discard = want
        BY <1>1, <1>2, <3>2, <4>1 DEF FrameReader
      <4>3. InRefused(after, s, p + 1, b)
        <5>1. want > 0 /\ b + 2 <= p + 1 /\ (p + 1) + want = b + 2 + want
          BY <1>1, <3>1, <3>2, <3>4, SMTT(30)
        <5> QED
          BY <3>2, <3>4, <4>2, <5>1 DEF InRefused
      <4>4. Told(after.out, before, s, p + 1, b)
        BY <1>8, <4>2
      <4> QED
        BY <1>7, <4>2, <4>3, <4>4 DEF FrameSays
    <3>5. CASE want # 0 /\ ~ (want > BufSize - 1)
      <4>1. after = [f EXCEPT !.hdr = hdr, !.want = want, !.buf = <<>>]
        BY <2>2, <3>5
      <4> HIDE DEF after
      <4>2. /\ after \in FrameReader /\ after.out = f.out /\ after.hdr = hdr /\ after.discard = 0
            /\ after.want = want /\ after.buf = <<>>
        BY <1>1, <1>2, <1>5, <3>2, <4>1 DEF FrameReader
      <4>3. InPayload(after, s, p + 1, b)
        <5>0. want \in 1..BufSize - 1
          BY <1>1, <3>2, <3>5
        <5>1. /\ want \in 1..BufSize - 1 /\ b + 2 <= p + 1 /\ p + 1 < b + 2 + want
              /\ p + 1 < b + 3 /\ p + 1 \in Int /\ b + 3 \in Int
          <6>1. b \in Nat /\ p \in Nat /\ p + 1 = b + 2 /\ want \in Nat /\ want > 0
            BY <1>1, <3>1, <3>2, <3>5
          <6> QED
            BY ONLY <5>0, <6>1
        <5>2. SubSeq(s, b + 3, p + 1) = <<>>
          BY <5>1, SubSeqEmpty
        <5> QED
          BY <3>1, <3>2, <4>2, <5>1, <5>2 DEF InPayload
      <4>4. Told(after.out, before, s, p + 1, b)
        BY <1>8, <4>2
      <4> QED
        BY <1>7, <4>2, <4>3, <4>4 DEF FrameSays
    <3> QED
      BY <3>3, <3>4, <3>5
  <2> QED
    BY <2>1, <2>2
<1> HIDE DEF after
<1> QED
  BY <1>3, <1>6, <1>7, <1>9 DEF MovedOn

\* A pass over a payload that fits.
LEMMA PayloadSays ==
    ASSUME NEW s \in Bytes, NEW p \in Nat, NEW n \in Nat \ {0}, p + n <= Len(s),
           NEW before \in Seq(Bytes), NEW f \in FrameReader, NEW b \in 0..p,
           Told(f.out, before, s, p, b), InPayload(f, s, p, b),
           NEW data, IsData(data, s, p, n)
    PROVE  MovedOn(TakePayload(f, data), before, s, p, n)
<1>1. /\ f.hdr \in Bytes /\ f.want \in Nat /\ f.buf \in Bytes /\ f.discard \in Nat /\ f.out \in Seq(Bytes)
      /\ <<>> \in Bytes /\ BufSize \in Nat \ {0} /\ Len(s) \in Nat /\ p \in 0..Len(s) /\ b \in Nat
  <2>1. f.hdr \in Bytes /\ f.want \in Nat /\ f.buf \in Bytes /\ f.discard \in Nat /\ f.out \in Seq(Bytes)
    BY DEF FrameReader
  <2>2. Len(s) \in Nat /\ <<>> \in Bytes
    BY DEF Bytes
  <2> QED
    BY <2>1, <2>2, FramingAssumption
<1>2. Len(data) = n /\ \A k \in 0..n : /\ Rest(data, k) = SubSeq(s, (p + k) + 1, p + n)
                                       /\ SubSeq(data, 1, k) = SubSeq(s, p + 1, p + k)
  BY DEF IsData
<1> DEFINE a == Announcement(s, b)
<1>3. /\ f.discard = 0 /\ b + 2 <= p /\ p < b + 2 + a /\ a \in 1..BufSize - 1 /\ f.want = a
      /\ f.hdr = SubSeq(s, b + 1, b + 2) /\ f.buf = SubSeq(s, b + 3, p)
  BY DEF InPayload
<1>a. a = Announcement(s, b)
  OBVIOUS
<1> HIDE DEF a
<1>b. a \in Nat /\ a > 0
  BY <1>1, <1>3
<1> DEFINE c == b + 2
<1>4. c \in Nat /\ c <= p /\ c + 1 = b + 3
  BY <1>1, <1>3
<1> HIDE DEF c
<1>5. Len(f.buf) = p - c
  BY <1>1, <1>3, <1>4, StretchIs
<1> DEFINE left == c + a - p
           m == IF n > left THEN left ELSE n
<1>6. left \in Nat \ {0} /\ f.want - Len(f.buf) = left
  BY <1>1, <1>3, <1>4, <1>5, <1>b DEF c
<1>l. p + left = c + a
  BY <1>1, <1>4, <1>b
<1> HIDE DEF left
<1>7. m \in 1..n /\ m <= left /\ Min({n, left}) = m
  <2>1. n \in Int /\ left \in Int
    BY <1>6
  <2>2. Min({n, left}) = m
    BY <2>1, MinOfTwo
  <2> QED
    BY <1>6, <2>2
<1>m. m # left => m < left
  BY <1>6
<1> HIDE DEF m
<1>8. p + m \in Nat /\ p <= p + m /\ p + m <= Len(s) /\ b \in 0..p + m
  BY <1>1, <1>7
<1> DEFINE buf == SubSeq(s, b + 3, p + m)
<1>9. f.buf \o SubSeq(data, 1, m) = buf
  <2>1. SubSeq(data, 1, m) = SubSeq(s, p + 1, p + m)
    BY <1>2, <1>7
  <2>2. SubSeq(s, c + 1, p) \o SubSeq(s, p + 1, p + m) = SubSeq(s, c + 1, p + m)
    <3> DEFINE e == p + m
    <3>1. e \in Nat /\ p <= e /\ e <= Len(s) /\ p \in Nat /\ c \in Nat /\ c <= p
      BY <1>1, <1>4, <1>8
    <3> HIDE DEF buf, e
    <3>2. SubSeq(s, c + 1, p) \o SubSeq(s, p + 1, e) = SubSeq(s, c + 1, e)
      BY <3>1, Adjacent
    <3> QED
      BY <3>2 DEF e
  <2> QED
    BY <1>3, <1>4, <2>1, <2>2
<1>10. buf \in Bytes /\ Len(buf) = (p + m) - c
  <2>1. c <= p + m
    BY <1>1, <1>4, <1>8
  <2> QED
    BY <1>1, <1>4, <1>8, <2>1, StretchIs
<1>11. Len(buf) = f.want <=> m = left
  BY <1>1, <1>3, <1>4, <1>6, <1>7, <1>l, <1>b, <1>10
<1>c. buf = SubSeq(s, b + 3, p + m)
  OBVIOUS
<1> HIDE DEF buf
<1> DEFINE after == IF Len(buf) = f.want THEN [FrameInit EXCEPT !.out = Append(f.out, buf)]
                                         ELSE [f EXCEPT !.buf = buf]
<1>12. TakePayload(f, data).frame = after /\ TakePayload(f, data).rest = Rest(data, m)
  <2>1. Min({Len(data), f.want - Len(f.buf)}) = m
    BY <1>2, <1>6, <1>7
  <2>2. TakePayload(f, data) = [frame |-> after, rest |-> Rest(data, m)]
    BY <1>9, <2>1 DEF TakePayload
  <2> HIDE DEF after
  <2> QED
    BY ONLY <2>2
<1>13. after \in FrameReader /\ FrameSays(after, before, s, p + m)
  <2>1. CASE m = left
    <3>1. after = [FrameInit EXCEPT !.out = Append(f.out, buf)]
      BY <1>11, <2>1
    <3> HIDE DEF after
    <3>2. Append(f.out, buf) \in Seq(Bytes) /\ Append(f.out, buf) = f.out \o <<buf>> /\ <<buf>> \in Seq(Bytes)
      <4> DEFINE out == f.out
      <4>1. out \in Seq(Bytes) /\ buf \in Bytes
        BY <1>1, <1>10
      <4> HIDE DEF out
      <4>2. Append(out, buf) \in Seq(Bytes) /\ <<buf>> \in Seq(Bytes)
        BY ONLY <4>1
      <4>3. Append(out, buf) = out \o <<buf>>
        BY ONLY <4>1
      <4> QED
        BY <4>2, <4>3 DEF out
    <3>3. after \in FrameReader /\ after.out = f.out \o <<buf>> /\ after.hdr = <<>> /\ after.discard = 0
      BY <1>1, <3>1, <3>2 DEF FrameReader, FrameInit
    <3> DEFINE e == b + 2 + a
    <3>4. p + m = e /\ e \in Nat
      BY <1>1, <1>4, <1>l, <1>b, <2>1 DEF c
    <3> HIDE DEF e
    <3>5. Told(f.out \o <<buf>>, before, s, p + m, b + 2 + a)
      <4>1. b + 2 + a <= p + m
        BY <1>8, <3>4 DEF e
      <4>2. <<buf>> = IF a \in 1..BufSize - 1 THEN <<SubSeq(s, b + 3, b + 2 + a)>> ELSE <<>>
        BY <1>3, <1>c, <3>4 DEF e
      <4> QED
        BY <1>1, <1>a, <1>b, <1>8, <3>2, <4>1, <4>2, ToldNext
    <3>6. Told(after.out, before, s, p + m, e)
      BY <3>3, <3>5 DEF e
    <3>7. InHeader(after, s, p + m, e)
      <4>1. SubSeq(s, e + 1, p + m) = <<>>
        BY <3>4, SubSeqEmpty
      <4> QED
        BY <3>3, <3>4, <4>1 DEF InHeader
    <3>8. e \in 0..p + m
      BY <3>4
    <3> QED
      BY <3>3, <3>6, <3>7, <3>8 DEF FrameSays
  <2>2. CASE m # left
    <3>1. after = [f EXCEPT !.buf = buf]
      BY <1>11, <2>2
    <3> HIDE DEF after
    <3>2. /\ after \in FrameReader /\ after.out = f.out /\ after.hdr = f.hdr /\ after.discard = 0
          /\ after.want = f.want /\ after.buf = buf
      BY <1>1, <1>3, <1>10, <3>1 DEF FrameReader
    <3>3. Told(after.out, before, s, p + m, b)
      BY <1>8, <3>2, ToldOn
    <3>4. b + 2 <= p + m /\ p + m < b + 2 + a
      BY <1>1, <1>4, <1>6, <1>7, <1>8, <1>l, <1>m, <1>b, <2>2 DEF c
    <3>5. InPayload(after, s, p + m, b)
      BY <1>3, <1>a, <1>c, <3>2, <3>4 DEF InPayload
    <3> QED
      BY <1>8, <3>2, <3>3, <3>5 DEF FrameSays
  <2> QED
    BY <2>1, <2>2
<1> HIDE DEF after
<1>14. TakePayload(f, data).rest = SubSeq(s, (p + m) + 1, p + n)
  <2>1. Rest(data, m) = SubSeq(s, (p + m) + 1, p + n)
    BY <1>2, <1>7
  <2> QED
    BY <1>12, <2>1
<1> QED
  BY <1>7, <1>12, <1>13, <1>14 DEF MovedOn

\* A pass of ble_frame_feed(), whichever it is.
LEMMA PassSays ==
    ASSUME NEW s \in Bytes, NEW p \in Nat, NEW n \in Nat \ {0}, p + n <= Len(s),
           NEW before \in Seq(Bytes), NEW f \in FrameReader, FrameSays(f, before, s, p)
    PROVE  MovedOn(Pass(f, SubSeq(s, p + 1, p + n)), before, s, p, n)
<1> DEFINE data == SubSeq(s, p + 1, p + n)
<1>1. IsData(data, s, p, n)
  BY DataIs
<1> SUFFICES MovedOn(Pass(f, data), before, s, p, n)
  OBVIOUS
<1> HIDE DEF data
<1>2. PICK b \in 0..p : /\ Told(f.out, before, s, p, b)
                        /\ InHeader(f, s, p, b) \/ InRefused(f, s, p, b) \/ InPayload(f, s, p, b)
  BY DEF FrameSays
<1>3. CASE InHeader(f, s, p, b)
  <2>1. MovedOn(TakeHeader(f, data), before, s, p, n)
    BY <1>1, <1>2, <1>3, HeaderSays
  <2>2. ~ (f.discard > 0)
    BY <1>3 DEF InHeader
  <2>3. Len(f.hdr) < 2
    <3>1. p < b + 2 /\ f.hdr = SubSeq(s, b + 1, p) /\ p <= Len(s) /\ Len(s) \in Nat
      BY <1>3 DEF InHeader, Bytes
    <3>2. Len(f.hdr) = p - b
      BY <3>1, StretchIs
    <3> QED
      BY <3>1, <3>2
  <2> QED
    BY <2>1, <2>2, <2>3 DEF Pass
<1>4. CASE InRefused(f, s, p, b)
  <2>1. MovedOn(Swallow(f, data), before, s, p, n)
    BY <1>1, <1>2, <1>4, SwallowSays
  <2>2. f.discard > 0
    BY <1>4 DEF InRefused
  <2> QED
    BY <2>1, <2>2 DEF Pass
<1>5. CASE InPayload(f, s, p, b)
  <2>1. MovedOn(TakePayload(f, data), before, s, p, n)
    BY <1>1, <1>2, <1>5, PayloadSays
  <2>2. ~ (f.discard > 0)
    BY <1>5 DEF InPayload
  <2>3. ~ (Len(f.hdr) < 2)
    <3>1. b + 2 <= p /\ f.hdr = SubSeq(s, b + 1, b + 2) /\ p <= Len(s) /\ Len(s) \in Nat
      BY <1>5, SMTT(30) DEF InPayload, Bytes
    <3>2. b + 2 \in Nat /\ b <= b + 2 /\ b + 2 <= Len(s) /\ b \in Nat
      BY <3>1
    <3>3. Len(f.hdr) = b + 2 - b
      BY <3>1, <3>2, StretchIs
    <3> QED
      BY <3>2, <3>3
  <2> QED
    BY <2>1, <2>2, <2>3 DEF Pass
<1> QED
  BY <1>2, <1>3, <1>4, <1>5

\* The frame reader fed any piece of a stream.
LEMMA FrameFeedSays ==
    ASSUME NEW s \in Bytes, NEW p \in Nat, NEW n \in Nat, p + n <= Len(s),
           NEW before \in Seq(Bytes), NEW f \in FrameReader, FrameSays(f, before, s, p)
    PROVE  LET fed == FrameFeed(f, SubSeq(s, p + 1, p + n))
           IN  fed \in FrameReader /\ FrameSays(fed, before, s, p + n)
<1> DEFINE data == SubSeq(s, p + 1, p + n)
           At(r, q) == /\ r.rest = SubSeq(s, (p + q) + 1, p + n)
                       /\ FrameSays(r.frame, before, s, p + q)
           V == {r \in [frame : FrameReader, rest : Bytes] : \E q \in 0..n : At(r, q)}
           first == [frame |-> f, rest |-> data]
           once(r) == IF r.rest = <<>> THEN r ELSE Pass(r.frame, r.rest)
           next == [x \in V \X (1..n) |-> once(x[1])]
<1>1. data \in Bytes /\ Len(data) = n /\ Len(s) \in Nat
  BY PieceIs
<1>2. first \in V
  <2>1. first \in [frame : FrameReader, rest : Bytes] /\ first.frame = f /\ first.rest = data
    BY <1>1
  <2>2. p + 0 = p /\ 0 \in 0..n
    OBVIOUS
  <2>3. At(first, 0)
    <3> HIDE DEF first
    <3> QED
      BY <2>1, <2>2
  <2> HIDE DEF first, At
  <2> QED
    BY <2>1, <2>2, <2>3
<1>3. ASSUME NEW r \in [frame : FrameReader, rest : Bytes], NEW q \in 0..n, At(r, q)
      PROVE  /\ r.rest = <<>> <=> q = n
             /\ once(r) \in V
             /\ q # n => \E k \in q + 1..n : once(r) \in [frame : FrameReader, rest : Bytes] /\ At(once(r), k)
  <2>1. r.rest = SubSeq(s, (p + q) + 1, p + n) /\ FrameSays(r.frame, before, s, p + q) /\ r.frame \in FrameReader
    BY <1>3
  <2> DEFINE c == p + q
             z == n - q
  <2>2. c \in Nat /\ z \in Nat /\ c + z = p + n /\ c + z <= Len(s) /\ (q # n <=> z # 0)
    BY <1>1
  <2>e. c = p + q
    OBVIOUS
  <2> HIDE DEF c, z
  <2>3. Len(SubSeq(s, c + 1, c + z)) = z /\ SubSeq(s, c + 1, c + z) \in Bytes
    BY <2>2, PieceIs
  <2>4. r.rest = <<>> <=> q = n
    <3>1. r.rest = SubSeq(s, c + 1, c + z)
      BY <2>1, <2>2, <2>e
    <3>2. \A t \in Bytes : t = <<>> <=> Len(t) = 0
      BY DEF Bytes
    <3> QED
      BY <2>2, <2>3, <3>1, <3>2
  <2>5. CASE q = n
    <3>1. once(r) = r
      BY <2>4, <2>5
    <3> QED
      BY <1>3, <2>4, <2>5, <3>1
  <2>6. CASE q # n
    <3>1. once(r) = Pass(r.frame, SubSeq(s, c + 1, c + z))
      BY <2>1, <2>2, <2>4, <2>6, <2>e
    <3>2. MovedOn(Pass(r.frame, SubSeq(s, c + 1, c + z)), before, s, c, z)
      BY <2>1, <2>2, <2>6, <2>e, PassSays
    <3> DEFINE o == once(r)
    <3>o. o = Pass(r.frame, SubSeq(s, c + 1, c + z))
      BY <3>1
    <3> HIDE DEF o
    <3>3. PICK m \in 1..z : /\ o.rest = SubSeq(s, (c + m) + 1, c + z)
                            /\ o.frame \in FrameReader /\ FrameSays(o.frame, before, s, c + m)
      BY <3>o, <3>2 DEF MovedOn
    <3> DEFINE k == q + m
    <3>4. k \in q + 1..n /\ c + m = p + k /\ k \in 0..n
      BY <2>2, <2>e
    <3>5. At(o, k)
      BY <2>2, <3>3, <3>4
    <3>6. o \in [frame : FrameReader, rest : Bytes]
      <4>1. o.rest \in Bytes
        <5> DEFINE d == c + m
                   e == c + z
        <5>1. d \in Nat /\ e \in Nat /\ d <= e /\ e <= Len(s) /\ o.rest = SubSeq(s, d + 1, e)
          BY <2>2, <3>3
        <5> HIDE DEF k, At, V, first, next, data, d, e
        <5>2. SubSeq(s, d + 1, e) \in Bytes
          BY <5>1, StretchIs
        <5> QED
          BY <5>1, <5>2
      <4>2. o = [frame |-> o.frame, rest |-> o.rest]
        BY <3>o DEF Pass, Swallow, TakeHeader, TakePayload
      <4> QED
        BY <3>3, <4>1, <4>2
    <3> HIDE DEF k, At
    <3> QED
      BY <2>4, <2>6, <3>4, <3>5, <3>6 DEF o
  <2> QED
    BY <2>5, <2>6
<1> DEFINE IsPasses(g) ==
        g = [k \in 0..n |->
                IF k = 0 THEN first
                ELSE IF g[k - 1].rest = <<>> THEN g[k - 1]
                ELSE Pass(g[k - 1].frame, g[k - 1].rest)]
<1>4. \E g : IsPasses(g)
  <2>1. \A r \in V : once(r) \in V
    <3> HIDE DEF once, At, first, next, data
    <3> QED
      BY <1>3
  <2>2. next \in [V \X (1..n) -> V]
    <3> HIDE DEF once, V
    <3> QED
      BY <2>1
  <2>3. PICK g : Steps(g, n, V, first, next)
    <3> HIDE DEF next, V, first
    <3> QED
      BY <1>2, <2>2, StepsExist
  <2>4. g \in [0..n -> V] /\ g = [k \in 0..n |-> IF k = 0 THEN first ELSE next[<<g[k - 1], k>>]]
    <3> HIDE DEF next, V, first
    <3> QED
      BY <2>3 DEF Steps
  <2>5. ASSUME NEW k \in 0..n
        PROVE  (IF k = 0 THEN first ELSE next[<<g[k - 1], k>>]) = IF k = 0 THEN first ELSE once(g[k - 1])
    <3>1. CASE k = 0
      BY <3>1
    <3>2. CASE k # 0
      <4>1. k \in 1..n /\ k - 1 \in 0..n
        BY <3>2
      <4>2. g[k - 1] \in V
        <5> HIDE DEF V, next, first
        <5> QED
          BY <4>1, <2>4
      <4> HIDE DEF once, V
      <4>3. next[<<g[k - 1], k>>] = once(g[k - 1])
        BY <4>1, <4>2
      <4> QED
        BY <4>3
    <3> QED
      BY <3>1, <3>2
  <2>6. g = [k \in 0..n |-> IF k = 0 THEN first ELSE once(g[k - 1])]
    <3> HIDE DEF next, V, first, once
    <3> QED
      BY <2>4, <2>5
  <2> QED
    BY <2>6
<1>5. FrameFeed(f, data) = (CHOOSE h : IsPasses(h))[n].frame
  BY <1>1 DEF FrameFeed
<1> HIDE DEF data
<1>6. PICK g : IsPasses(g) /\ FrameFeed(f, data) = g[n].frame
  <2> HIDE DEF IsPasses
  <2> QED
    BY <1>4, <1>5
<1>7. \A k \in 0..n : g[k] = IF k = 0 THEN first ELSE once(g[k - 1])
  <2>1. g = [k \in 0..n |-> IF k = 0 THEN first ELSE once(g[k - 1])]
    BY <1>6
  <2> HIDE DEF first, once
  <2> QED
    BY <2>1
<1> DEFINE T == [frame : FrameReader, rest : Bytes]
           S == {k \in 0..n : \E q \in k..n : g[k] \in T /\ At(g[k], q)}
<1>8. 0 \in S
  <2>1. g[0] = first
    BY <1>7
  <2>2. first \in T /\ \E q \in 0..n : At(first, q)
    <3> HIDE DEF first, At
    <3> QED
      BY <1>2
  <2> HIDE DEF first, At, T
  <2> QED
    BY <2>1, <2>2
<1>9. ASSUME NEW k \in 1..n, k - 1 \in S PROVE k \in S
  <2> HIDE DEF first, At
  <2>1. PICK q \in k - 1..n : g[k - 1] \in T /\ At(g[k - 1], q)
    BY <1>9
  <2>2. k \in 0..n /\ k # 0 /\ q \in 0..n
    OBVIOUS
  <2>3. g[k] = once(g[k - 1])
    BY <1>7, <2>2
  <2>4. CASE q = n
    <3>1. g[k] = g[k - 1]
      BY <1>3, <2>1, <2>2, <2>3, <2>4
    <3>2. q \in k..n
      BY <2>2, <2>4
    <3> HIDE DEF T, once, V
    <3> QED
      BY <2>1, <2>2, <3>1, <3>2
  <2>5. CASE q # n
    <3> HIDE DEF once, V
    <3>1. PICK j \in q + 1..n : once(g[k - 1]) \in T /\ At(once(g[k - 1]), j)
      BY <1>3, <2>1, <2>2, <2>5
    <3>2. j \in k..n
      BY <2>1
    <3> HIDE DEF T
    <3> QED
      BY <2>2, <2>3, <3>1, <3>2
  <2> QED
    BY <2>4, <2>5
<1>10. n \in S
  <2>1. n \in 0..n
    OBVIOUS
  <2> HIDE DEF S
  <2> QED
    BY <1>8, <1>9, <2>1, UpTo
<1>11. g[n] \in T /\ At(g[n], n)
  <2>1. n..n = {n}
    OBVIOUS
  <2> HIDE DEF T, At
  <2> QED
    BY <1>10, <2>1
<1>12. FrameFeed(f, data) \in FrameReader /\ FrameSays(FrameFeed(f, data), before, s, p + n)
  BY <1>6, <1>11
<1> QED
  BY <1>12 DEF data

-----------------------------------------------------------------------------
\* Where the first k blocks of a stream end.
BlockEnd(k) == k * BlockLen

\* A stream has a length.
LEMMA LenIs ==
    ASSUME NEW s \in Bytes
    PROVE  Len(s) \in Nat
  BY DEF Bytes

\* Ends of blocks, added.
LEMMA BlockSums ==
    ASSUME NEW q \in Nat, NEW j \in Nat
    PROVE  /\ BlockLen \in Nat \ {0} /\ LenBytes \in 1..BlockLen
           /\ BlockEnd(q) \in Nat /\ BlockEnd(0) = 0
           /\ BlockEnd(q + j) = BlockEnd(q) + BlockEnd(j)
           /\ BlockEnd(q + 1) = BlockEnd(q) + BlockLen
<1>1. BlockLen \in Nat \ {0} /\ LenBytes \in 1..BlockLen
  BY DigestAssumption
<1>2. ASSUME NEW b \in Nat
      PROVE  q * b \in Nat /\ 0 * b = 0 /\ (q + j) * b = q * b + j * b /\ (q + 1) * b = q * b + b
  BY SMTT(30)
<1> QED
  BY <1>1, <1>2 DEF BlockEnd

\* Ends of blocks, ordered.
LEMMA BlockOrder ==
    ASSUME NEW q \in Nat, NEW j \in Nat, q < j
    PROVE  BlockEnd(q) + BlockLen <= BlockEnd(j)
<1> DEFINE c == j - q - 1
<1>1. c \in Nat /\ j = (q + 1) + c
  OBVIOUS
<1> HIDE DEF c
<1>2. BlockEnd(j) = BlockEnd(q + 1) + BlockEnd(c) /\ BlockEnd(c) \in Nat
  BY <1>1, BlockSums
<1>3. BlockEnd(q + 1) = BlockEnd(q) + BlockLen /\ BlockEnd(q) \in Nat /\ BlockLen \in Nat
  BY BlockSums
<1> QED
  BY <1>2, <1>3

\* The last end of a block up to a length.
LEMMA BlockDiv ==
    ASSUME NEW n \in Nat
    PROVE  /\ n \div BlockLen \in Nat
           /\ BlockEnd(n \div BlockLen) <= n
           /\ n < BlockEnd(n \div BlockLen) + BlockLen
           /\ n % BlockLen = 0 <=> n = BlockEnd(n \div BlockLen)
<1>1. BlockLen \in Nat \ {0}
  BY DigestAssumption
<1>2. ASSUME NEW b \in Nat \ {0}
      PROVE  /\ n \div b \in Nat /\ (n \div b) * b <= n /\ n < (n \div b) * b + b
             /\ n % b = 0 <=> n = (n \div b) * b
  BY SMTT(30)
<1> QED
  BY <1>1, <1>2 DEF BlockEnd

\* How many whole blocks there are is one number.
LEMMA BlockCount ==
    ASSUME NEW n \in Nat, NEW q \in Nat, BlockEnd(q) <= n, n < BlockEnd(q) + BlockLen
    PROVE  n \div BlockLen = q
<1> DEFINE w == n \div BlockLen
<1>1. w \in Nat /\ BlockEnd(w) <= n /\ n < BlockEnd(w) + BlockLen
  BY BlockDiv
<1> HIDE DEF w
<1>2. BlockLen \in Nat /\ BlockEnd(q) \in Nat /\ BlockEnd(w) \in Nat
  BY <1>1, BlockSums
<1>3. ~ (q < w)
  BY <1>1, <1>2, BlockOrder
<1>4. ~ (w < q)
  BY <1>1, <1>2, BlockOrder
<1> QED
  BY <1>1, <1>3, <1>4 DEF w

BlocksUpTo(u, q) == [k \in 1..q |-> SubSeq(u, BlockEnd(k - 1) + 1, BlockEnd(k))]

\* The blocks of a stream.
LEMMA BlocksAre ==
    ASSUME NEW u \in Bytes, NEW q \in Nat, BlockEnd(q) <= Len(u)
    PROVE  /\ BlocksUpTo(u, q) \in Seq(Bytes) /\ Len(BlocksUpTo(u, q)) = q
           /\ \A k \in 1..q : BlocksUpTo(u, q)[k] = SubSeq(u, BlockEnd(k - 1) + 1, BlockEnd(k))
<1> DEFINE s == BlocksUpTo(u, q)
<1>0. Len(u) \in Nat
  BY DEF Bytes
<1>1. ASSUME NEW k \in 1..q PROVE SubSeq(u, BlockEnd(k - 1) + 1, BlockEnd(k)) \in Bytes
  <2> DEFINE a == BlockEnd(k - 1)
             e == BlockEnd(k)
  <2>1. k \in Nat /\ k - 1 \in Nat /\ (k - 1) + 1 = k
    OBVIOUS
  <2>2. a \in Nat /\ e = a + BlockLen /\ BlockLen \in Nat
    <3> DEFINE j == k - 1
    <3>1. j \in Nat /\ j + 1 = k
      BY <2>1
    <3> HIDE DEF j
    <3>2. BlockEnd(j + 1) = BlockEnd(j) + BlockLen /\ BlockEnd(j) \in Nat /\ BlockLen \in Nat
      BY <3>1, BlockSums
    <3> QED
      BY <3>1, <3>2 DEF j
  <2>3. e <= BlockEnd(q) /\ BlockEnd(q) \in Nat
    <3>1. CASE k = q
      BY <3>1, BlockSums
    <3>2. CASE k # q
      <4>1. BlockEnd(k) + BlockLen <= BlockEnd(q)
        BY <2>1, <3>2, BlockOrder
      <4>2. BlockLen \in Nat /\ BlockEnd(q) \in Nat /\ BlockEnd(k) \in Nat
        BY <2>1, BlockSums
      <4> QED
        BY <4>1, <4>2
    <3> QED
      BY <3>1, <3>2
  <2> HIDE DEF a, e
  <2>4. a <= e /\ e <= Len(u) /\ e \in Nat
    BY <1>0, <2>2, <2>3
  <2>5. SubSeq(u, a + 1, e) \in Bytes
    BY <2>2, <2>4, StretchIs
  <2> QED
    BY <2>5 DEF a, e
<1>2. s \in [1..q -> Bytes]
  BY <1>1 DEF BlocksUpTo
<1> HIDE DEF s
<1>3. s \in Seq(Bytes) /\ Len(s) = q
  BY <1>2, SeqDef
<1>4. \A k \in 1..q : s[k] = SubSeq(u, BlockEnd(k - 1) + 1, BlockEnd(k))
  BY DEF s, BlocksUpTo
<1> QED
  BY <1>3, <1>4 DEF s

\* One block more.
LEMMA NextBlock ==
    ASSUME NEW u \in Bytes, NEW q \in Nat, BlockEnd(q + 1) <= Len(u)
    PROVE  BlocksUpTo(u, q + 1) = Append(BlocksUpTo(u, q), SubSeq(u, BlockEnd(q) + 1, BlockEnd(q) + BlockLen))
<1> DEFINE block == SubSeq(u, BlockEnd(q) + 1, BlockEnd(q) + BlockLen)
           before == BlocksUpTo(u, q)
           after == BlocksUpTo(u, q + 1)
<1> HIDE DEF block, before, after
<1>1. BlockEnd(q) \in Nat /\ BlockEnd(q + 1) = BlockEnd(q) + BlockLen /\ BlockLen \in Nat /\ q + 1 \in Nat
      /\ Len(u) \in Nat
  <2>1. BlockEnd(q) \in Nat /\ BlockEnd(q + 1) = BlockEnd(q) + BlockLen /\ BlockLen \in Nat
    BY BlockSums
  <2>2. Len(u) \in Nat
    BY LenIs
  <2> QED
    BY <2>1, <2>2
<1> USE DEF block, before, after
<1>2. BlockEnd(q) <= Len(u)
  BY <1>1
<1>3. /\ before \in Seq(Bytes) /\ Len(before) = q
      /\ \A k \in 1..q : before[k] = SubSeq(u, BlockEnd(k - 1) + 1, BlockEnd(k))
  BY <1>2, BlocksAre
<1>4. /\ after \in Seq(Bytes) /\ Len(after) = q + 1
      /\ \A k \in 1..q + 1 : after[k] = SubSeq(u, BlockEnd(k - 1) + 1, BlockEnd(k))
  <2> DEFINE r == q + 1
  <2>1. r \in Nat /\ BlockEnd(r) <= Len(u)
    BY <1>1
  <2> HIDE DEF r
  <2>2. /\ BlocksUpTo(u, r) \in Seq(Bytes) /\ Len(BlocksUpTo(u, r)) = r
        /\ \A k \in 1..r : BlocksUpTo(u, r)[k] = SubSeq(u, BlockEnd(k - 1) + 1, BlockEnd(k))
    BY <2>1, BlocksAre
  <2> QED
    BY <2>2 DEF r
<1>5. block = after[q + 1]
  <2>1. (q + 1) - 1 = q /\ q + 1 \in 1..q + 1
    OBVIOUS
  <2>2. after[q + 1] = SubSeq(u, BlockEnd((q + 1) - 1) + 1, BlockEnd(q + 1))
    BY <1>4, <2>1
  <2> QED
    BY <1>1, <2>1, <2>2
<1>6. block \in Bytes
  <2>1. q + 1 \in 1..Len(after)
    BY <1>4
  <2> HIDE DEF block, after
  <2> QED
    BY <1>4, <1>5, <2>1
<1> HIDE DEF block, before, after
<1>7. Append(before, block) \in Seq(Bytes) /\ Len(Append(before, block)) = q + 1
  BY <1>3, <1>6
<1>8. ASSUME NEW k \in 1..q + 1 PROVE Append(before, block)[k] = after[k]
  <2>1. CASE k = q + 1
    BY <1>3, <1>5, <1>6, <2>1
  <2>2. CASE k # q + 1
    <3>1. k \in 1..q
      BY <2>2
    <3>2. Append(before, block)[k] = before[k]
      BY <1>3, <1>6, <3>1
    <3> QED
      BY <1>3, <1>4, <3>1, <3>2
  <2> QED
    BY <2>1, <2>2
<1>9. Append(before, block) = after
  BY <1>4, <1>7, <1>8, SeqEqual
<1> QED
  BY <1>9 DEF block, before, after

MoreBlocks(more, u, q, w) ==
    /\ more \in Seq(Bytes) /\ Len(more) = w
    /\ \A j \in 1..w : more[j] = SubSeq(u, BlockEnd(q) + BlockEnd(j - 1) + 1, BlockEnd(q) + BlockEnd(j))

\* Any number of blocks more.
LEMMA NextBlocks ==
    ASSUME NEW u \in Bytes, NEW q \in Nat, NEW w \in Nat, BlockEnd(q + w) <= Len(u),
           NEW more, MoreBlocks(more, u, q, w)
    PROVE  BlocksUpTo(u, q + w) = BlocksUpTo(u, q) \o more
<1> DEFINE before == BlocksUpTo(u, q)
           after == BlocksUpTo(u, q + w)
<1> HIDE DEF before, after
<1>1. /\ BlockEnd(q) \in Nat /\ BlockEnd(w) \in Nat /\ BlockEnd(q + w) = BlockEnd(q) + BlockEnd(w)
      /\ BlockLen \in Nat /\ q + w \in Nat /\ Len(u) \in Nat
  <2>1. /\ BlockEnd(q) \in Nat /\ BlockEnd(w) \in Nat /\ BlockEnd(q + w) = BlockEnd(q) + BlockEnd(w)
        /\ BlockLen \in Nat
    BY BlockSums
  <2>2. Len(u) \in Nat
    BY LenIs
  <2> QED
    BY <2>1, <2>2
<1>m. more \in Seq(Bytes) /\ Len(more) = w
  BY DEF MoreBlocks
<1> USE DEF before, after
<1>2. BlockEnd(q) <= Len(u)
  BY <1>1
<1>3. /\ before \in Seq(Bytes) /\ Len(before) = q
      /\ \A k \in 1..q : before[k] = SubSeq(u, BlockEnd(k - 1) + 1, BlockEnd(k))
  BY <1>2, BlocksAre
<1>4. /\ after \in Seq(Bytes) /\ Len(after) = q + w
      /\ \A k \in 1..q + w : after[k] = SubSeq(u, BlockEnd(k - 1) + 1, BlockEnd(k))
  <2> DEFINE r == q + w
  <2>1. r \in Nat /\ BlockEnd(r) <= Len(u)
    BY <1>1
  <2> HIDE DEF r
  <2>2. /\ BlocksUpTo(u, r) \in Seq(Bytes) /\ Len(BlocksUpTo(u, r)) = r
        /\ \A k \in 1..r : BlocksUpTo(u, r)[k] = SubSeq(u, BlockEnd(k - 1) + 1, BlockEnd(k))
    BY <2>1, BlocksAre
  <2> QED
    BY <2>2 DEF r
<1> HIDE DEF before, after
<1>5. before \o more \in Seq(Bytes) /\ Len(before \o more) = q + w
      /\ \A k \in 1..q + w : (before \o more)[k] = IF k <= q THEN before[k] ELSE more[k - q]
  BY ONLY <1>m, <1>3, q \in Nat, w \in Nat, ConcatProperties
<1>6. ASSUME NEW k \in 1..q + w PROVE (before \o more)[k] = after[k]
  <2>1. CASE k <= q
    <3>1. k \in 1..q
      BY <2>1
    <3>2. (before \o more)[k] = before[k]
      BY <1>5, <2>1
    <3> QED
      BY <1>3, <1>4, <3>1, <3>2
  <2>2. CASE ~ (k <= q)
    <3> DEFINE j == k - q
               i == j - 1
    <3>1. j \in 1..w /\ k = q + j /\ i \in Nat /\ k - 1 = q + i /\ j \in Nat
      BY <2>2
    <3>2. (before \o more)[k] = more[j]
      BY <1>5, <2>2
    <3>i. i = j - 1
      OBVIOUS
    <3> HIDE DEF j, i
    <3>3. BlockEnd(q + j) = BlockEnd(q) + BlockEnd(j) /\ BlockEnd(q + i) = BlockEnd(q) + BlockEnd(i)
      BY <3>1, BlockSums
    <3>4. more[j] = SubSeq(u, BlockEnd(q) + BlockEnd(i) + 1, BlockEnd(q) + BlockEnd(j))
      BY <3>1, <3>i DEF MoreBlocks
    <3>5. after[k] = SubSeq(u, BlockEnd(q + i) + 1, BlockEnd(q + j))
      BY <1>4, <3>1
    <3> QED
      BY <3>2, <3>3, <3>4, <3>5
  <2> QED
    BY <2>1, <2>2
<1>7. before \o more = after
  BY <1>4, <1>5, <1>6, SeqEqual
<1> QED
  BY <1>7 DEF before, after

DigestContext == [buf : Bytes, total : Nat, blocks : Seq(Bytes)]

\* What a context has of the first p bytes of a stream.
DigestAt(d, u, p, q) ==
    /\ BlockEnd(q) <= p /\ p < BlockEnd(q) + BlockLen
    /\ d.buf = SubSeq(u, BlockEnd(q) + 1, p)
    /\ d.blocks = BlocksUpTo(u, q)

DigestSays(d, u, p) == \E q \in Nat : DigestAt(d, u, p, q)

ToppedUp(r, d, u, p, n) ==
    \E m \in 0..n : /\ r.rest = SubSeq(u, (p + m) + 1, p + n)
                    /\ r.ctx \in DigestContext /\ r.ctx.total = d.total
                    /\ DigestSays(r.ctx, u, p + m)
                    /\ m = n \/ r.ctx.buf = <<>>

\* The block that was waiting, after what the data adds to it.
LEMMA TopUpSays ==
    ASSUME NEW u \in Bytes, NEW p \in Nat, NEW n \in Nat, p + n <= Len(u),
           NEW d \in DigestContext, DigestSays(d, u, p)
    PROVE  ToppedUp(TopUp(d, SubSeq(u, p + 1, p + n)), d, u, p, n)
<1> DEFINE data == SubSeq(u, p + 1, p + n)
<1>1. data \in Bytes /\ Len(data) = n /\ Len(u) \in Nat
  BY PieceIs
<1>2. ASSUME NEW m \in 0..n
      PROVE  /\ SubSeq(data, m + 1, Len(data)) = SubSeq(u, (p + m) + 1, p + n)
             /\ SubSeq(data, 1, m) = SubSeq(u, p + 1, p + m)
  <2> DEFINE z == n - m
  <2>1. z \in Nat /\ m + z = n /\ (p + m) + z = p + n /\ m \in Nat /\ m + z <= n /\ 0 \in Nat /\ 0 + m <= n
        /\ 0 + 1 = 1 /\ 0 + m = m /\ p + 0 = p
    OBVIOUS
  <2> HIDE DEF z
  <2>2. SubSeq(data, m + 1, m + z) = SubSeq(u, (p + m) + 1, (p + m) + z)
    BY <2>1, PieceOfPiece
  <2>3. SubSeq(data, 0 + 1, 0 + m) = SubSeq(u, (p + 0) + 1, (p + 0) + m)
    BY <2>1, PieceOfPiece
  <2> HIDE DEF data
  <2> QED
    BY <1>1, <2>1, <2>2, <2>3
<1> SUFFICES \E m \in 0..n : /\ TopUp(d, data).rest = SubSeq(u, (p + m) + 1, p + n)
                             /\ TopUp(d, data).ctx \in DigestContext /\ TopUp(d, data).ctx.total = d.total
                             /\ DigestSays(TopUp(d, data).ctx, u, p + m)
                             /\ m = n \/ TopUp(d, data).ctx.buf = <<>>
  BY DEF ToppedUp
<1> HIDE DEF data
<1>3. PICK q \in Nat : DigestAt(d, u, p, q)
  BY DEF DigestSays
<1>5. /\ d.buf \in Bytes /\ d.total \in Nat /\ d.blocks \in Seq(Bytes) /\ <<>> \in Bytes
  <2>1. <<>> \in Bytes
    BY DEF Bytes
  <2> QED
    BY <2>1 DEF DigestContext
<1> DEFINE c == BlockEnd(q)
<1>d. d.buf = SubSeq(u, c + 1, p) /\ d.blocks = BlocksUpTo(u, q) /\ c <= p /\ p < c + BlockLen
  BY <1>3 DEF DigestAt
<1>4. c \in Nat /\ BlockLen \in Nat \ {0} /\ p \in Nat /\ p <= Len(u)
  <2>1. c \in Nat /\ BlockLen \in Nat \ {0}
    BY BlockSums
  <2> QED
    BY <1>1, <2>1
<1> HIDE DEF c
<1> DEFINE left == BlockLen - (p - c)
<1>l. left \in Nat \ {0} /\ p + left = c + BlockLen
  BY <1>4, <1>d
<1> HIDE DEF left
<1> DEFINE take == IF d.buf = <<>> THEN 0 ELSE IF n > left THEN left ELSE n
<1>6. Len(d.buf) = p - c /\ BlockLen - Len(d.buf) = left
  <2>1. Len(d.buf) = p - c
    BY <1>d, <1>4, StretchIs
  <2> QED
    BY <1>4, <1>d, <1>l, <2>1
<1>7. take = IF d.buf = <<>> THEN 0 ELSE Min({Len(data), BlockLen - Len(d.buf)})
  <2>1. n \in Int /\ left \in Int
    BY <1>l
  <2>2. Min({n, left}) = IF n > left THEN left ELSE n
    BY <2>1, MinOfTwo
  <2> QED
    BY <1>1, <1>6, <2>2
<1>8. take \in 0..n /\ take <= left /\ (take = n \/ take = left \/ (d.buf = <<>> /\ take = 0))
  BY <1>l
<1> HIDE DEF take
<1> DEFINE e == p + take
<1>9. e \in Nat /\ p <= e /\ e <= Len(u) /\ (e = c + BlockLen <=> take = left) /\ e <= c + BlockLen /\ c <= e
  BY <1>1, <1>4, <1>d, <1>8, <1>l
<1>e. e = p + take
  OBVIOUS
<1> HIDE DEF e
<1> DEFINE full == SubSeq(u, c + 1, e)
<1>10. d.buf \o SubSeq(data, 1, take) = full
  <2>1. SubSeq(data, 1, take) = SubSeq(u, p + 1, e)
    BY <1>2, <1>8, <1>e
  <2>2. SubSeq(u, c + 1, p) \o SubSeq(u, p + 1, e) = SubSeq(u, c + 1, e)
    BY <1>4, <1>d, <1>9, Adjacent
  <2> QED
    BY <1>d, <2>1, <2>2
<1>11. full \in Bytes /\ Len(full) = e - c
  BY <1>4, <1>9, StretchIs
<1>f. full = SubSeq(u, c + 1, e)
  OBVIOUS
<1> HIDE DEF full
<1>12. Len(full) = BlockLen <=> take = left
  BY <1>4, <1>9, <1>11
<1> DEFINE after == IF Len(full) = BlockLen THEN [Transform(d, full) EXCEPT !.buf = <<>>]
                                            ELSE [d EXCEPT !.buf = full]
<1>13. TopUp(d, data).ctx = after /\ TopUp(d, data).rest = SubSeq(u, (p + take) + 1, p + n)
  <2> DEFINE behind == SubSeq(data, take + 1, Len(data))
  <2>1. TopUp(d, data) = [ctx |-> after, rest |-> behind]
    BY <1>7, <1>10 DEF TopUp
  <2>3. behind = SubSeq(u, (p + take) + 1, p + n)
    BY <1>2, <1>8
  <2> HIDE DEF after, behind
  <2>2. TopUp(d, data).ctx = after /\ TopUp(d, data).rest = behind
    BY ONLY <2>1
  <2> QED
    BY <2>2, <2>3
<1>14. /\ after \in DigestContext /\ after.total = d.total /\ DigestSays(after, u, e)
       /\ take = n \/ after.buf = <<>>
  <2>1. CASE take = left
    <3>1. after = [Transform(d, full) EXCEPT !.buf = <<>>]
      BY <1>12, <2>1
    <3> HIDE DEF after
    <3>2. Append(d.blocks, full) \in Seq(Bytes)
      BY <1>5, <1>11
    <3>3. /\ after \in DigestContext /\ after.total = d.total /\ after.buf = <<>>
          /\ after.blocks = Append(d.blocks, full)
      BY <1>5, <3>1, <3>2 DEF DigestContext, Transform
    <3>4. /\ BlockEnd(q + 1) = e /\ e = c + BlockLen
      BY <1>9, <2>1, BlockSums DEF c
    <3>5. after.blocks = BlocksUpTo(u, q + 1)
      <4>1. BlocksUpTo(u, q + 1)
                = Append(BlocksUpTo(u, q), SubSeq(u, BlockEnd(q) + 1, BlockEnd(q) + BlockLen))
        BY <1>9, <3>4, NextBlock
      <4> QED
        BY <1>d, <1>f, <3>3, <3>4, <4>1 DEF c
    <3>6. after.buf = SubSeq(u, BlockEnd(q + 1) + 1, e)
      <4>1. SubSeq(u, e + 1, e) = <<>>
        BY <1>9, SubSeqEmpty
      <4> QED
        BY <3>3, <3>4, <4>1
    <3>7. BlockEnd(q + 1) <= e /\ e < BlockEnd(q + 1) + BlockLen /\ q + 1 \in Nat
      BY <1>4, <1>9, <3>4
    <3> QED
      BY <3>3, <3>5, <3>6, <3>7 DEF DigestSays, DigestAt
  <2>2. CASE take # left
    <3>1. after = [d EXCEPT !.buf = full]
      BY <1>12, <2>2
    <3> HIDE DEF after
    <3>2. after \in DigestContext /\ after.total = d.total /\ after.buf = full /\ after.blocks = d.blocks
      BY <1>5, <1>11, <3>1 DEF DigestContext
    <3>3. e < c + BlockLen
      BY <1>4, <1>9, <2>2
    <3>4. DigestAt(after, u, e, q)
      BY <1>d, <1>f, <1>9, <3>2, <3>3 DEF DigestAt, c
    <3>5. take = n \/ after.buf = <<>>
      <4>1. d.buf = <<>> /\ take = 0 => after.buf = <<>>
        <5>1. take = 0 => e = p
          BY <1>e, <1>4
        <5> QED
          BY <1>d, <1>f, <3>2, <5>1
      <4> QED
        BY <1>8, <2>2, <4>1
    <3> QED
      BY <3>2, <3>4, <3>5 DEF DigestSays
  <2> QED
    BY <2>1, <2>2
<1> HIDE DEF after
<1> QED
  BY <1>8, <1>13, <1>14, <1>e

\* The blocks straight out of the data, and what remains.
LEMMA WholeBlocksSays ==
    ASSUME NEW u \in Bytes, NEW p \in Nat, NEW n \in Nat, p + n <= Len(u),
           NEW d \in DigestContext, DigestSays(d, u, p), n = 0 \/ d.buf = <<>>
    PROVE  LET after == WholeBlocks(d, SubSeq(u, p + 1, p + n))
           IN  after \in DigestContext /\ after.total = d.total /\ DigestSays(after, u, p + n)
<1> DEFINE data == SubSeq(u, p + 1, p + n)
<1>1. data \in Bytes /\ Len(data) = n /\ Len(u) \in Nat
  BY PieceIs
<1>2. ASSUME NEW a \in Nat, NEW z \in Nat, a <= z, z <= n
      PROVE  SubSeq(data, a + 1, z) = SubSeq(u, (p + a) + 1, p + z)
  <2> DEFINE k == z - a
  <2>1. k \in Nat /\ a + k = z /\ (p + a) + k = p + z /\ a + k <= n
    BY <1>2
  <2> HIDE DEF k
  <2>2. SubSeq(data, a + 1, a + k) = SubSeq(u, (p + a) + 1, (p + a) + k)
    BY <2>1, PieceOfPiece
  <2> HIDE DEF data
  <2> QED
    BY <2>1, <2>2
<1> SUFFICES /\ WholeBlocks(d, data) \in DigestContext /\ WholeBlocks(d, data).total = d.total
             /\ DigestSays(WholeBlocks(d, data), u, p + n)
  OBVIOUS
<1>x. data = SubSeq(u, p + 1, p + n)
  OBVIOUS
<1> HIDE DEF data
<1>3. PICK q \in Nat : DigestAt(d, u, p, q)
  BY DEF DigestSays
<1>4. /\ d.buf \in Bytes /\ d.total \in Nat /\ d.blocks \in Seq(Bytes) /\ <<>> \in Bytes
  <2>1. <<>> \in Bytes
    BY DEF Bytes
  <2> QED
    BY <2>1 DEF DigestContext
<1>5. /\ BlockEnd(q) <= p /\ p < BlockEnd(q) + BlockLen
      /\ d.buf = SubSeq(u, BlockEnd(q) + 1, p) /\ d.blocks = BlocksUpTo(u, q)
  BY <1>3 DEF DigestAt
<1> DEFINE w == n \div BlockLen
<1>6. w \in Nat /\ BlockEnd(w) <= n /\ n < BlockEnd(w) + BlockLen
  BY BlockDiv
<1>w. w = n \div BlockLen
  OBVIOUS
<1> HIDE DEF w
<1>7. BlockEnd(q) \in Nat /\ BlockEnd(w) \in Nat /\ BlockLen \in Nat \ {0} /\ BlockEnd(q + w) = BlockEnd(q) + BlockEnd(w)
  BY <1>6, BlockSums
<1>8. n = 0 \/ p = BlockEnd(q)
  <2>1. Len(d.buf) = p - BlockEnd(q)
    <3>1. p <= Len(u)
      BY <1>1
    <3> QED
      BY <1>5, <1>7, <3>1, StretchIs
  <2>2. d.buf = <<>> => Len(d.buf) = 0
    OBVIOUS
  <2> QED
    BY <1>7, <2>1, <2>2
<1>9. n = 0 => w = 0 /\ BlockEnd(w) = 0
  <2>1. n = 0 => BlockEnd(w) = 0
    BY <1>6, <1>7
  <2>2. ~ (0 < w) \/ BlockEnd(0) + BlockLen <= BlockEnd(w)
    BY <1>6, BlockOrder
  <2>3. BlockEnd(0) = 0
    BY BlockSums
  <2> QED
    BY <1>6, <1>7, <2>1, <2>2, <2>3
<1>y. SubSeq(data, BlockEnd(w) + 1, Len(data)) = SubSeq(u, (p + BlockEnd(w)) + 1, p + n)
  <2> DEFINE a == BlockEnd(w)
  <2>1. a \in Nat /\ a <= n /\ n \in Nat /\ n <= n
    BY <1>6, <1>7
  <2> HIDE DEF a
  <2>2. SubSeq(data, a + 1, n) = SubSeq(u, (p + a) + 1, p + n)
    BY <1>2, <2>1
  <2> QED
    BY <1>1, <2>2 DEF a
<1> DEFINE more == [k \in 1..w |-> SubSeq(data, BlockEnd(k - 1) + 1, BlockEnd(k))]
           rest == SubSeq(u, (p + BlockEnd(w)) + 1, p + n)
<1>10. SubSeq(data, BlockEnd(w) + 1, Len(data)) = rest
  BY <1>y
<1>11. ASSUME NEW k \in 1..w
       PROVE  /\ SubSeq(data, BlockEnd(k - 1) + 1, BlockEnd(k)) \in Bytes
              /\ SubSeq(data, BlockEnd(k - 1) + 1, BlockEnd(k))
                     = SubSeq(u, (p + BlockEnd(k - 1)) + 1, p + BlockEnd(k))
  <2> DEFINE i == k - 1
             a == BlockEnd(i)
             z == BlockEnd(k)
  <2>1. i \in Nat /\ i + 1 = k /\ k \in Nat
    BY <1>6
  <2>i. i = k - 1
    OBVIOUS
  <2> HIDE DEF i
  <2>2. a \in Nat /\ z = a + BlockLen
    BY <2>1, BlockSums
  <2>3. z <= BlockEnd(w)
    <3>1. k = w \/ BlockEnd(k) + BlockLen <= BlockEnd(w)
      BY <1>6, <2>1, BlockOrder
    <3> QED
      BY <1>7, <2>2, <3>1
  <2> HIDE DEF a, z
  <2>4. z \in Nat /\ a <= z /\ z <= n
    BY <1>6, <1>7, <2>2, <2>3
  <2>5. SubSeq(data, a + 1, z) \in Bytes
    BY <1>1, <2>2, <2>4, StretchIs
  <2>6. SubSeq(data, a + 1, z) = SubSeq(u, (p + a) + 1, p + z)
    BY <1>2, <2>2, <2>4
  <2> QED
    BY <2>5, <2>6, <2>i DEF a, z
<1>12. more \in Seq(Bytes) /\ Len(more) = w /\ \A k \in 1..w : more[k] = SubSeq(data, BlockEnd(k - 1) + 1, BlockEnd(k))
  <2>1. more \in [1..w -> Bytes]
    BY <1>11
  <2>2. \A k \in 1..w : more[k] = SubSeq(data, BlockEnd(k - 1) + 1, BlockEnd(k))
    OBVIOUS
  <2> HIDE DEF more
  <2>3. more \in Seq(Bytes) /\ Len(more) = w
    BY <1>6, <2>1, SeqDef
  <2> QED
    BY <2>2, <2>3
<1>m. more = [k \in 1..w |-> SubSeq(data, BlockEnd(k - 1) + 1, BlockEnd(k))]
  OBVIOUS
<1>r. rest = SubSeq(u, (p + BlockEnd(w)) + 1, p + n)
  OBVIOUS
<1> HIDE DEF more, rest
<1>13. rest \in Bytes
  <2> DEFINE a == p + BlockEnd(w)
             z == p + n
  <2>1. a \in Nat /\ z \in Nat /\ a <= z /\ z <= Len(u)
    BY <1>1, <1>6, <1>7
  <2> HIDE DEF a, z
  <2>2. SubSeq(u, a + 1, z) \in Bytes
    BY <2>1, StretchIs
  <2> QED
    BY <1>r, <2>2 DEF a, z
<1> DEFINE after == [d EXCEPT !.blocks = @ \o more, !.buf = IF rest = <<>> THEN @ ELSE rest]
<1>14. WholeBlocks(d, data) = after
  BY <1>1, <1>10, <1>m, <1>w DEF WholeBlocks, BlockEnd
<1>15. d.blocks \o more \in Seq(Bytes)
  BY <1>4, <1>12, ConcatProperties
<1>16. /\ after \in DigestContext /\ after.total = d.total
       /\ after.blocks = d.blocks \o more
       /\ after.buf = IF rest = <<>> THEN d.buf ELSE rest
  BY <1>4, <1>13, <1>15 DEF DigestContext
<1> HIDE DEF after
<1>17. DigestAt(after, u, p + n, q + w)
  <2>1. CASE n = 0
    <3>1. w = 0 /\ q + w = q /\ p + n = p /\ BlockEnd(w) = 0
      BY <1>9, <2>1
    <3>2. rest = <<>> /\ more = <<>>
      <4>1. (p + 0) + 1 > p + 0 /\ p + 0 \in Int /\ (p + 0) + 1 \in Int
        OBVIOUS
      <4>2. SubSeq(u, (p + 0) + 1, p + 0) = <<>>
        BY <4>1, SubSeqEmpty
      <4>3. more = <<>>
        BY <1>12, <3>1, EmptySeq
      <4> QED
        BY <1>r, <2>1, <3>1, <4>2, <4>3
    <3>3. d.blocks \o more = d.blocks
      BY <1>4, <3>2, ConcatEmptySeq
    <3> QED
      BY <1>3, <1>16, <3>1, <3>2, <3>3 DEF DigestAt
  <2>2. CASE n # 0
    <3>1. p = BlockEnd(q) /\ d.buf = <<>>
      BY <1>8, <2>2
    <3>2. BlockEnd(q + w) <= p + n /\ p + n < BlockEnd(q + w) + BlockLen
      BY <1>6, <1>7, <3>1
    <3>3. after.buf = SubSeq(u, BlockEnd(q + w) + 1, p + n)
      BY <1>7, <1>16, <1>r, <3>1
    <3>4. after.blocks = BlocksUpTo(u, q + w)
      <4>1. MoreBlocks(more, u, q, w)
        BY <1>11, <1>12, <3>1 DEF MoreBlocks
      <4>2. BlockEnd(q + w) <= Len(u)
        BY <1>1, <1>7, <3>2
      <4>3. BlocksUpTo(u, q + w) = BlocksUpTo(u, q) \o more
        BY <1>6, <4>1, <4>2, NextBlocks
      <4> QED
        BY <1>5, <1>16, <4>3
    <3> QED
      BY <3>2, <3>3, <3>4 DEF DigestAt
  <2> QED
    BY <2>1, <2>2
<1>18. q + w \in Nat
  BY <1>6
<1> QED
  BY <1>14, <1>16, <1>17, <1>18 DEF DigestSays

\* A context fed any piece of a stream.
LEMMA DigestUpdateSays ==
    ASSUME NEW u \in Bytes, NEW p \in Nat, NEW n \in Nat, p + n <= Len(u),
           NEW d \in DigestContext, DigestSays(d, u, p)
    PROVE  LET after == DigestUpdate(d, SubSeq(u, p + 1, p + n))
           IN  after \in DigestContext /\ after.total = d.total + n /\ DigestSays(after, u, p + n)
<1> DEFINE data == SubSeq(u, p + 1, p + n)
           e == [d EXCEPT !.total = @ + Len(data)]
           top == TopUp(e, data)
<1>1. data \in Bytes /\ Len(data) = n
  BY PieceIs
<1> SUFFICES /\ DigestUpdate(d, data) \in DigestContext /\ DigestUpdate(d, data).total = d.total + n
             /\ DigestSays(DigestUpdate(d, data), u, p + n)
  OBVIOUS
<1>x. data = SubSeq(u, p + 1, p + n)
  OBVIOUS
<1> HIDE DEF data
<1>2. e \in DigestContext /\ e.total = d.total + n /\ e.buf = d.buf /\ e.blocks = d.blocks
  BY <1>1, SMTT(30) DEF DigestContext
<1>3. DigestUpdate(d, data) = WholeBlocks(top.ctx, top.rest)
  BY DEF DigestUpdate
<1> HIDE DEF e
<1>4. DigestSays(e, u, p)
  BY <1>2 DEF DigestSays, DigestAt
<1>5. ToppedUp(top, e, u, p, n)
  BY <1>2, <1>4, <1>x, TopUpSays
<1> HIDE DEF top
<1>6. PICK m \in 0..n : /\ top.rest = SubSeq(u, (p + m) + 1, p + n)
                        /\ top.ctx \in DigestContext /\ top.ctx.total = e.total
                        /\ DigestSays(top.ctx, u, p + m)
                        /\ m = n \/ top.ctx.buf = <<>>
  BY <1>5 DEF ToppedUp
<1> DEFINE c == p + m
           z == n - m
<1>7. c \in Nat /\ z \in Nat /\ c + z = p + n /\ c + z <= Len(u) /\ (z = 0 \/ top.ctx.buf = <<>>)
  BY <1>6
<1>8. top.rest = SubSeq(u, c + 1, c + z) /\ DigestSays(top.ctx, u, c)
  BY <1>6, <1>7
<1> HIDE DEF c, z
<1>9. LET after == WholeBlocks(top.ctx, SubSeq(u, c + 1, c + z))
      IN  after \in DigestContext /\ after.total = top.ctx.total /\ DigestSays(after, u, c + z)
  BY <1>6, <1>7, <1>8, WholeBlocksSays
<1> QED
  BY <1>2, <1>3, <1>6, <1>7, <1>8, <1>9

-----------------------------------------------------------------------------
\* A context says the same of two streams that begin alike.
LEMMA DigestSaysOf ==
    ASSUME NEW s \in Bytes, NEW u \in Bytes, NEW p \in Nat, p <= Len(s), p <= Len(u),
           \A k \in 1..p : s[k] = u[k], NEW d, DigestSays(d, s, p)
    PROVE  DigestSays(d, u, p)
<1>0. Len(s) \in Nat /\ Len(u) \in Nat
  BY LenIs
<1>1. ASSUME NEW a \in Nat, NEW z \in Nat, a <= z, z <= p
      PROVE  SubSeq(s, a + 1, z) = SubSeq(u, a + 1, z)
  <2> DEFINE n == z - a
             l == SubSeq(s, a + 1, a + n)
             r == SubSeq(u, a + 1, a + n)
  <2> HIDE DEF l, r
  <2>1. n \in Nat /\ a + n = z /\ a + n <= Len(s) /\ a + n <= Len(u)
    BY <1>0, <1>1
  <2>n. \A k \in 1..n : a + k \in 1..p
    BY <1>1
  <2> HIDE DEF n
  <2>s. n \in Nat /\ a + n <= Len(s)
    BY <2>1
  <2>u. n \in Nat /\ a + n <= Len(u)
    BY <2>1
  <2> USE DEF l, r
  <2>2. l \in Bytes /\ Len(l) = n /\ \A k \in 1..n : l[k] = s[a + k]
    BY ONLY <2>s, s \in Bytes, a \in Nat, PieceIs
  <2>3. r \in Bytes /\ Len(r) = n /\ \A k \in 1..n : r[k] = u[a + k]
    BY ONLY <2>u, u \in Bytes, a \in Nat, PieceIs, ZenonT(60)
  <2> HIDE DEF l, r
  <2>4. \A k \in 1..n : l[k] = r[k]
    BY <2>n, <2>2, <2>3
  <2>5. l = r
    BY <2>2, <2>3, <2>4, SeqEqual DEF Bytes
  <2> QED
    BY <2>1, <2>5 DEF l, r
<1>2. PICK q \in Nat : DigestAt(d, s, p, q)
  BY DEF DigestSays
<1>3. /\ BlockEnd(q) <= p /\ p < BlockEnd(q) + BlockLen
      /\ d.buf = SubSeq(s, BlockEnd(q) + 1, p) /\ d.blocks = BlocksUpTo(s, q)
  BY <1>2 DEF DigestAt
<1>4. BlockEnd(q) \in Nat
  BY BlockSums
<1>5. SubSeq(s, BlockEnd(q) + 1, p) = SubSeq(u, BlockEnd(q) + 1, p)
  BY <1>1, <1>3, <1>4, SMTT(30)
<1>6. BlocksUpTo(s, q) = BlocksUpTo(u, q)
  <2>1. ASSUME NEW k \in 1..q
        PROVE  SubSeq(s, BlockEnd(k - 1) + 1, BlockEnd(k)) = SubSeq(u, BlockEnd(k - 1) + 1, BlockEnd(k))
    <3> DEFINE i == k - 1
    <3>1. i \in Nat /\ i + 1 = k /\ k \in Nat
      OBVIOUS
    <3> HIDE DEF i
    <3>2. BlockEnd(i) \in Nat /\ BlockEnd(k) = BlockEnd(i) + BlockLen /\ BlockLen \in Nat /\ BlockEnd(k) \in Nat
      BY <3>1, BlockSums
    <3>3. k = q \/ BlockEnd(k) + BlockLen <= BlockEnd(q)
      BY <3>1, BlockOrder
    <3>4. BlockEnd(i) <= BlockEnd(k) /\ BlockEnd(k) <= p
      BY <1>3, <1>4, <3>2, <3>3, SMTT(30)
    <3>5. SubSeq(s, BlockEnd(i) + 1, BlockEnd(k)) = SubSeq(u, BlockEnd(i) + 1, BlockEnd(k))
      BY <1>1, <3>2, <3>4
    <3> QED
      BY <3>5 DEF i
  <2> QED
    BY <2>1 DEF BlocksUpTo
<1> QED
  BY <1>3, <1>5, <1>6 DEF DigestSays, DigestAt

\* The zeros end where the length fits at the end of a block, and one number of zeros does that.
ZerosFit(x, z) ==
    /\ z \in 0..BlockLen - 1
    /\ \E q \in Nat : x + z + LenBytes = BlockEnd(q) + BlockLen
    /\ \A y \in 0..BlockLen - 1 : (x + y + LenBytes) % BlockLen = 0 <=> y = z

\* sha256_final() adds the zeros that the standard asks for.
LEMMA ZerosNeededIs ==
    ASSUME NEW x \in Nat, NEW z, z = ZerosNeeded(x - BlockEnd(x \div BlockLen))
    PROVE  ZerosFit(x, z)
<1> DEFINE w == x \div BlockLen
           b == x - BlockEnd(w)
<1>1. w \in Nat /\ BlockEnd(w) <= x /\ x < BlockEnd(w) + BlockLen
  BY BlockDiv
<1>z. z = ZerosNeeded(b)
  OBVIOUS
<1> HIDE DEF w
<1>2. BlockEnd(w) \in Nat /\ BlockLen \in Nat \ {0} /\ LenBytes \in 1..BlockLen /\ BlockEnd(w + 1) = BlockEnd(w) + BlockLen
  BY <1>1, BlockSums
<1>3. b \in 0..BlockLen - 1 /\ x = BlockEnd(w) + b
  BY <1>1, <1>2
<1> HIDE DEF b
<1>4. z = IF b <= BlockLen - LenBytes THEN BlockLen - LenBytes - b ELSE BlockLen - LenBytes + BlockLen - b
  BY <1>z DEF ZerosNeeded
<1>5. z \in 0..BlockLen - 1
  BY <1>2, <1>3, <1>4
<1>6. PICK q \in Nat : x + z + LenBytes = BlockEnd(q) + BlockLen
  <2>1. CASE b <= BlockLen - LenBytes
    <3>1. x + z + LenBytes = BlockEnd(w) + BlockLen
      BY <1>2, <1>3, <1>4, <2>1
    <3> QED
      BY <1>1, <3>1
  <2>2. CASE ~ (b <= BlockLen - LenBytes)
    <3>1. x + z + LenBytes = BlockEnd(w + 1) + BlockLen
      BY <1>2, <1>3, <1>4, <2>2
    <3>2. w + 1 \in Nat
      BY <1>1
    <3> QED
      BY <3>1, <3>2
  <2> QED
    BY <2>1, <2>2
<1>7. ASSUME NEW y \in 0..BlockLen - 1
      PROVE  (x + y + LenBytes) % BlockLen = 0 <=> y = z
  <2> DEFINE n == x + y + LenBytes
             v == n \div BlockLen
  <2>1. n \in Nat
    BY <1>2
  <2>n. n = x + y + LenBytes
    OBVIOUS
  <2> HIDE DEF n
  <2>2. v \in Nat /\ (n % BlockLen = 0 <=> n = BlockEnd(v))
    BY <2>1, BlockDiv
  <2>v. v = n \div BlockLen
    OBVIOUS
  <2> HIDE DEF v
  <2>3. q + 1 \in Nat /\ BlockEnd(q + 1) = BlockEnd(q) + BlockLen /\ BlockEnd(q) \in Nat
    BY <1>6, BlockSums
  <2> DEFINE r == q + 1
  <2>4. r \in Nat /\ x + z + LenBytes = BlockEnd(r) /\ BlockEnd(r) \in Nat
    BY <1>2, <1>6, <2>3
  <2> HIDE DEF r
  <2>5. ASSUME y = z PROVE n % BlockLen = 0
    <3>1. n = BlockEnd(r)
      BY <2>4, <2>5, <2>n
    <3>2. v = r
      BY <1>2, <2>1, <2>4, <2>v, <3>1, BlockCount
    <3> QED
      BY <2>2, <3>1, <3>2
  <2>6. ASSUME n % BlockLen = 0 PROVE y = z
    <3>1. n = BlockEnd(v)
      BY <2>2, <2>6
    <3>0. y \in Int /\ z \in Int /\ 0 <= y /\ 0 <= z /\ y < BlockLen /\ z < BlockLen /\ LenBytes \in Int
          /\ BlockLen \in Int /\ x \in Int /\ BlockEnd(v) = x + y + LenBytes /\ BlockEnd(r) = x + z + LenBytes
      BY <1>2, <1>5, <2>4, <2>n, <3>1
    <3>2. ~ (v < r)
      <4>1. v < r => BlockEnd(v) + BlockLen <= BlockEnd(r)
        BY <2>2, <2>4, BlockOrder
      <4> QED
        BY ONLY <3>0, <4>1
    <3>3. ~ (r < v)
      <4>1. r < v => BlockEnd(r) + BlockLen <= BlockEnd(v)
        BY <2>2, <2>4, BlockOrder
      <4> QED
        BY ONLY <3>0, <4>1
    <3>4. v = r
      BY <2>2, <2>4, <3>2, <3>3
    <3> QED
      BY <1>2, <1>5, <2>4, <2>n, <3>1, <3>4
  <2> QED
    BY <2>5, <2>6, <2>n
<1> QED
  BY <1>5, <1>6, <1>7 DEF ZerosFit

\* A sequence of one value.
LEMMA RepeatIs ==
    ASSUME NEW n \in Nat, NEW V, NEW x \in V
    PROVE  /\ [i \in 1..n |-> x] \in Seq(V) /\ Len([i \in 1..n |-> x]) = n
           /\ \A k \in 1..n : [i \in 1..n |-> x][k] = x
<1> DEFINE s == [i \in 1..n |-> x]
<1>1. s \in [1..n -> V] /\ \A k \in 1..n : s[k] = x
  OBVIOUS
<1> HIDE DEF s
<1>2. s \in Seq(V) /\ Len(s) = n
  BY <1>1, SeqDef
<1> QED
  BY <1>1, <1>2 DEF s

\* A piece with one value throughout.
LEMMA RepeatedPiece ==
    ASSUME NEW u \in Bytes, NEW p \in Nat, NEW n \in Nat, p + n <= Len(u), NEW x \in Nat,
           \A k \in 1..n : u[p + k] = x
    PROVE  SubSeq(u, p + 1, p + n) = [i \in 1..n |-> x]
<1> DEFINE l == SubSeq(u, p + 1, p + n)
           r == [i \in 1..n |-> x]
<1>1. l \in Bytes /\ Len(l) = n /\ \A k \in 1..n : l[k] = u[p + k]
  BY PieceIs
<1>2. r \in Bytes /\ Len(r) = n /\ \A k \in 1..n : r[k] = x
  BY RepeatIs DEF Bytes
<1> HIDE DEF l, r
<1>3. l = r
  BY <1>1, <1>2, SeqEqual DEF Bytes
<1> QED
  BY <1>3 DEF l, r

\* The front of a concatenation.
LEMMA PrefixIs ==
    ASSUME NEW V, NEW x \in Seq(V), NEW y \in Seq(V)
    PROVE  SubSeq(x \o y, 1, Len(x)) = x
<1> DEFINE t == x \o y
           n == Len(x)
           l == SubSeq(t, 1, n)
<1>1. t \in Seq(V) /\ Len(t) = n + Len(y) /\ n \in Nat /\ Len(y) \in Nat /\ \A k \in 1..n : t[k] = x[k]
  BY ConcatProperties
<1> HIDE DEF t, n
<1>2. l \in Seq(V) /\ Len(l) = n /\ \A k \in 1..n : l[k] = t[k]
  BY <1>1
<1> HIDE DEF l
<1>3. l = x
  BY <1>1, <1>2, SeqEqual DEF n
<1> QED
  BY <1>3 DEF l, t, n

\* Two streams one behind the other.
Joined(t, x, y, i, j) ==
    /\ t \in Bytes /\ Len(t) = i + j
    /\ \A k \in 1..i : t[k] = x[k]
    /\ \A k \in 1..j : t[i + k] = y[k]

\* What the parts of a concatenation are.
LEMMA JoinIs ==
    ASSUME NEW x \in Bytes, NEW y \in Bytes, NEW i, i = Len(x), NEW j, j = Len(y)
    PROVE  Joined(x \o y, x, y, i, j)
<1>1. x \in Seq(Nat) /\ y \in Seq(Nat)
  BY DEF Bytes
<1>2. i \in Nat /\ j \in Nat
  BY LenIs
<1> DEFINE t == x \o y
<1>3. t \in Seq(Nat) /\ Len(t) = i + j
      /\ \A k \in 1..i + j : t[k] = IF k <= i THEN x[k] ELSE y[k - i]
  BY <1>1, ConcatProperties
<1> HIDE DEF t
<1>4. ASSUME NEW k \in 1..i PROVE t[k] = x[k]
  <2>1. k \in 1..i + j /\ k <= i
    BY <1>2
  <2> QED
    BY <1>3, <2>1
<1>5. ASSUME NEW k \in 1..j PROVE t[i + k] = y[k]
  <2> DEFINE m == i + k
  <2>1. m \in 1..i + j /\ ~ (m <= i) /\ m - i = k
    BY <1>2
  <2> HIDE DEF m
  <2>2. t[m] = y[k]
    BY <1>3, <2>1
  <2> QED
    BY <2>2 DEF m
<1> QED
  BY <1>3, <1>4, <1>5 DEF t, Bytes, Joined

\* A stream and what the standard puts behind it.
PaddedTo(u, s, n, z) ==
    /\ u \in Bytes /\ Len(u) = n + 1 + z + LenBytes
    /\ \A k \in 1..n : u[k] = s[k]
    /\ u[n + 1] = Mark
    /\ \A k \in 1..z : u[(n + 1) + k] = Zero
    /\ \A k \in 1..LenBytes : u[(n + 1 + z) + k] = n

\* The padded stream, part by part.
LEMMA PaddingIs ==
    ASSUME NEW s \in Bytes, NEW n, n = Len(s), NEW z, ZerosFit(n + 1, z)
    PROVE  PaddedTo(Padded(s), s, n, z)
<1>1. n \in Nat
  BY LenIs
<1>2. /\ z \in 0..BlockLen - 1
      /\ \A y \in 0..BlockLen - 1 : (n + 1 + y + LenBytes) % BlockLen = 0 <=> y = z
  BY DEF ZerosFit
<1>3. LenBytes \in Nat /\ BlockLen \in Nat /\ z \in Nat
  BY <1>2, DigestAssumption
<1> DEFINE m == <<Mark>>
           zeros == [i \in 1..z |-> Zero]
           lens == [i \in 1..LenBytes |-> n]
           a == s \o m
           b == a \o zeros
           u == b \o lens
<1>4. (CHOOSE y \in 0..BlockLen - 1 : (n + 1 + y + LenBytes) % BlockLen = 0) = z
  BY <1>2
<1>5. Padded(s) = u
  BY <1>4 DEF Padded
<1> HIDE DEF a, b, u
<1>6. zeros \in Bytes /\ Len(zeros) = z /\ \A k \in 1..z : zeros[k] = Zero
  <2>1. Zero \in Nat
    BY DEF Zero
  <2> QED
    BY <1>3, <2>1, RepeatIs DEF Bytes
<1>7. lens \in Bytes /\ Len(lens) = LenBytes /\ \A k \in 1..LenBytes : lens[k] = n
  BY <1>1, <1>3, RepeatIs DEF Bytes
<1>8. m \in Bytes /\ Len(m) = 1 /\ m[1] = Mark
  BY DEF Mark, Bytes
<1> HIDE DEF zeros, lens, m
<1> DEFINE i == n + 1
           j == n + 1 + z
<1>20. 1 = Len(m) /\ z = Len(zeros) /\ LenBytes = Len(lens)
  BY <1>6, <1>7, <1>8
<1>21. Joined(a, s, m, n, 1)
  BY <1>8, <1>20, JoinIs DEF a
<1>22. i = Len(a) /\ a \in Bytes
  BY <1>21 DEF Joined
<1>23. Joined(b, a, zeros, i, z)
  <2> HIDE DEF i
  <2> QED
    BY <1>6, <1>20, <1>22, JoinIs DEF b
<1>24. j = Len(b) /\ b \in Bytes
  BY <1>23 DEF Joined
<1>25. Joined(u, b, lens, j, LenBytes)
  <2> HIDE DEF j
  <2> QED
    BY <1>7, <1>20, <1>24, JoinIs DEF u
<1>9. a \in Bytes /\ Len(a) = n + 1 /\ (\A k \in 1..n : a[k] = s[k]) /\ (\A k \in 1..1 : a[n + k] = m[k])
  BY <1>21 DEF Joined
<1>10. b \in Bytes /\ Len(b) = n + 1 + z /\ (\A k \in 1..n + 1 : b[k] = a[k])
       /\ (\A k \in 1..z : b[(n + 1) + k] = zeros[k])
  BY <1>23 DEF Joined
<1>11. u \in Bytes /\ Len(u) = n + 1 + z + LenBytes /\ (\A k \in 1..n + 1 + z : u[k] = b[k])
       /\ (\A k \in 1..LenBytes : u[(n + 1 + z) + k] = lens[k])
  BY <1>25 DEF Joined
<1>12. ASSUME NEW k \in 1..n PROVE u[k] = s[k]
  <2>1. k \in 1..n + 1 /\ k \in 1..n + 1 + z
    BY <1>1, <1>3
  <2> QED
    BY <1>9, <1>10, <1>11, <2>1
<1>13. u[n + 1] = Mark
  <2>1. n + 1 \in 1..n + 1 /\ n + 1 \in 1..n + 1 + z /\ 1 \in 1..1
    BY <1>1, <1>3
  <2> QED
    BY <1>8, <1>9, <1>10, <1>11, <2>1
<1>14. ASSUME NEW k \in 1..z PROVE u[(n + 1) + k] = Zero
  <2>1. (n + 1) + k \in 1..n + 1 + z
    BY <1>1, <1>3
  <2> QED
    BY <1>6, <1>10, <1>11, <2>1
<1>15. \A k \in 1..LenBytes : u[(n + 1 + z) + k] = n
  BY <1>7, <1>11
<1> QED
  BY <1>5, <1>11, <1>12, <1>13, <1>14, <1>15 DEF PaddedTo

\* What the last block is made of is the last block of the padded stream.
LastBlock(d, u, q, n) ==
    /\ SubSeq(d.buf \o [i \in 1..BlockLen |-> Stale], 1, BlockLen - LenBytes)
           \o [i \in 1..LenBytes |-> n] = SubSeq(u, BlockEnd(q) + 1, BlockEnd(q) + BlockLen)
    /\ d.blocks = BlocksUpTo(u, q)

\* sha256_final() completes that block, whatever the buffer had behind the data.
LEMMA LastBlockIs ==
    ASSUME NEW u \in Bytes, NEW q \in Nat, Len(u) = BlockEnd(q) + BlockLen,
           NEW c \in Nat, c + LenBytes = Len(u), NEW n \in Nat, \A k \in 1..LenBytes : u[c + k] = n,
           NEW d \in DigestContext, DigestSays(d, u, c)
    PROVE  LastBlock(d, u, q, n)
<1>1. BlockEnd(q) \in Nat /\ BlockLen \in Nat /\ LenBytes \in 1..BlockLen
  BY BlockSums
<1>2. BlockEnd(q) <= c /\ c < BlockEnd(q) + BlockLen /\ c <= Len(u)
  BY <1>1
<1>3. PICK w \in Nat : DigestAt(d, u, c, w)
  BY DEF DigestSays
<1>4. w = q
  <2>1. BlockEnd(w) <= c /\ c < BlockEnd(w) + BlockLen
    BY <1>3 DEF DigestAt
  <2>2. c \div BlockLen = w
    BY <2>1, BlockCount
  <2>3. c \div BlockLen = q
    BY <1>2, BlockCount
  <2> QED
    BY <2>2, <2>3
<1>5. d.buf = SubSeq(u, BlockEnd(q) + 1, c) /\ d.blocks = BlocksUpTo(u, q)
  BY <1>3, <1>4 DEF DigestAt
<1> DEFINE buf == d.buf
           stale == [i \in 1..BlockLen |-> Stale]
           lens == [i \in 1..LenBytes |-> n]
           e == BlockEnd(q)
           r == BlockLen - LenBytes
<1>6. buf \in Bytes /\ Len(buf) = r
  <2> HIDE DEF r
  <2>1. buf \in Bytes /\ Len(buf) = c - BlockEnd(q)
    BY ONLY <1>1, <1>2, <1>5, u \in Bytes, c \in Nat, StretchIs
  <2>2. c - BlockEnd(q) = BlockLen - LenBytes
    BY <1>1
  <2> QED
    BY <2>1, <2>2 DEF r
<1>7. SubSeq(buf \o stale, 1, r) = buf
  <2>1. stale \in Seq(Int)
    <3>1. Stale \in Int
      BY DEF Stale
    <3> QED
      BY <1>1, <3>1, RepeatIs
  <2>2. buf \in Seq(Int)
    BY <1>6 DEF Bytes
  <2> HIDE DEF stale, buf, r
  <2>3. SubSeq(buf \o stale, 1, Len(buf)) = buf
    BY <2>1, <2>2, PrefixIs
  <2> QED
    BY <1>6, <2>3
<1>8. lens = SubSeq(u, c + 1, c + LenBytes)
  <2>1. LenBytes \in Nat /\ c + LenBytes <= Len(u)
    BY <1>1
  <2> QED
    BY <2>1, RepeatedPiece
<1>9. buf \o lens = SubSeq(u, e + 1, e + BlockLen)
  <2> DEFINE l == Len(u)
  <2> HIDE DEF buf, stale, lens, r
  <2>1. e \in Nat /\ l \in Nat /\ e <= c /\ c <= l /\ l <= Len(u) /\ l = e + BlockLen /\ l = c + LenBytes
    BY <1>1, <1>2, LenIs
  <2> HIDE DEF l, e
  <2>2. SubSeq(u, e + 1, c) \o SubSeq(u, c + 1, l) = SubSeq(u, e + 1, l)
    <3>1. e \in Nat /\ l \in Nat /\ e <= c /\ c <= l /\ l <= Len(u)
      BY <2>1
    <3> QED
      BY ONLY <3>1, u \in Bytes, c \in Nat, Adjacent
  <2> USE DEF e, buf
  <2> QED
    BY <1>5, <1>8, <2>1, <2>2
<1> QED
  BY <1>5, <1>7, <1>9 DEF LastBlock

\* What the final call gives to the transform is the blocks of the padded stream.
LEMMA DigestFinalIs ==
    ASSUME NEW s \in Bytes, NEW n, n = Len(s), NEW d \in DigestContext, DigestSays(d, s, n), d.total = n
    PROVE  DigestFinal(d) = BlocksOf(s)
<1> DEFINE u == Padded(s)
           marked == DigestUpdate(d, <<Mark>>)
           z == ZerosNeeded(Len(marked.buf))
           zeros == [i \in 1..z |-> Zero]
           padded == DigestUpdate(marked, zeros)
           zz == ZerosNeeded((n + 1) - BlockEnd((n + 1) \div BlockLen))
<1>1. n \in Nat /\ n + 1 \in Nat /\ d.total = n
  BY LenIs
<1>2. ZerosFit(n + 1, zz)
  <2> DEFINE x == n + 1
  <2>1. x \in Nat
    BY <1>1
  <2> HIDE DEF x
  <2>2. ZerosFit(x, ZerosNeeded(x - BlockEnd(x \div BlockLen)))
    BY <2>1, ZerosNeededIs
  <2> QED
    BY <2>2 DEF x
<1>final. DigestFinal(d) = Transform(padded, SubSeq(padded.buf \o [i \in 1..BlockLen |-> Stale], 1, BlockLen - LenBytes)
                                       \o [i \in 1..LenBytes |-> d.total]).blocks
  BY DEF DigestFinal
<1>of. BlocksOf(s) = [k \in 1..Len(u) \div BlockLen |-> SubSeq(u, (k - 1) * BlockLen + 1, k * BlockLen)]
  BY DEF BlocksOf
<1> HIDE DEF zz
<1>pad. PaddedTo(u, s, n, zz)
  BY <1>2, PaddingIs
<1>3. /\ u \in Bytes /\ Len(u) = n + 1 + zz + LenBytes
      /\ \A k \in 1..n : u[k] = s[k]
      /\ u[n + 1] = Mark
      /\ \A k \in 1..zz : u[(n + 1) + k] = Zero
      /\ \A k \in 1..LenBytes : u[(n + 1 + zz) + k] = n
  BY <1>pad DEF PaddedTo
<1> HIDE DEF u
<1>4. zz \in Nat /\ BlockLen \in Nat \ {0} /\ LenBytes \in 1..BlockLen /\ Len(u) \in Nat
  BY <1>2, <1>3, DigestAssumption, LenIs DEF ZerosFit
<1>5. DigestSays(d, u, n)
  <2>1. n <= Len(s) /\ n <= Len(u)
    BY <1>1, <1>3, <1>4
  <2> QED
    BY <1>1, <1>3, <2>1, DigestSaysOf
<1>6. <<Mark>> = SubSeq(u, n + 1, n + 1)
  <2>1. Mark \in Nat /\ \A k \in 1..1 : u[n + k] = Mark
    BY <1>3 DEF Mark
  <2>2. n + 1 <= Len(u) /\ 1 \in Nat
    BY <1>1, <1>3, <1>4
  <2>3. SubSeq(u, n + 1, n + 1) = [i \in 1..1 |-> Mark]
    BY <1>1, <1>3, <2>1, <2>2, RepeatedPiece
  <2>4. <<Mark>> = [i \in 1..1 |-> Mark]
    OBVIOUS
  <2> QED
    BY <2>3, <2>4
<1>7. marked \in DigestContext /\ DigestSays(marked, u, n + 1)
  <2>1. n + 1 <= Len(u) /\ 1 \in Nat
    BY <1>1, <1>3, <1>4
  <2>2. LET after == DigestUpdate(d, SubSeq(u, n + 1, n + 1))
        IN  after \in DigestContext /\ after.total = d.total + 1 /\ DigestSays(after, u, n + 1)
    BY <1>1, <1>3, <1>5, <2>1, DigestUpdateSays
  <2> QED
    BY <1>6, <2>2
<1> HIDE DEF marked
<1> DEFINE x == n + 1
<1>x. x \in Nat /\ x <= Len(u) /\ x + zz <= Len(u) /\ Len(u) = (x + zz) + LenBytes /\ x + zz \in Nat
  BY <1>1, <1>3, <1>4
<1>8. Len(marked.buf) = x - BlockEnd(x \div BlockLen)
  <2>1. DigestSays(marked, u, x)
    BY <1>7
  <2> HIDE DEF x
  <2>2. PICK q \in Nat : DigestAt(marked, u, x, q)
    BY <2>1 DEF DigestSays
  <2>3. BlockEnd(q) <= x /\ x < BlockEnd(q) + BlockLen /\ marked.buf = SubSeq(u, BlockEnd(q) + 1, x)
    BY <2>2 DEF DigestAt
  <2>4. x \div BlockLen = q
    BY <1>x, <2>3, BlockCount
  <2>5. BlockEnd(q) \in Nat
    BY BlockSums
  <2>6. Len(marked.buf) = x - BlockEnd(q)
    BY <1>3, <1>x, <2>3, <2>5, StretchIs
  <2> QED
    BY <2>4, <2>6
<1>9. z = zz
  BY <1>8 DEF zz
<1> HIDE DEF z
<1>10. zeros = SubSeq(u, x + 1, x + zz)
  <2> DEFINE y == Zero
  <2>1. y \in Nat /\ \A k \in 1..zz : u[x + k] = y
    BY <1>3 DEF Zero
  <2> HIDE DEF x, y, zeros, padded
  <2>2. SubSeq(u, x + 1, x + zz) = [i \in 1..zz |-> y]
    BY <1>3, <1>4, <1>x, <2>1, RepeatedPiece, SMTT(30)
  <2> USE DEF zeros, y
  <2> QED
    BY <1>9, <2>2
<1> HIDE DEF zeros
<1>11. padded \in DigestContext /\ DigestSays(padded, u, x + zz)
  <2>1. DigestSays(marked, u, x)
    BY <1>7
  <2> HIDE DEF x
  <2>2. LET after == DigestUpdate(marked, SubSeq(u, x + 1, x + zz))
        IN  after \in DigestContext /\ after.total = marked.total + zz /\ DigestSays(after, u, x + zz)
    BY <1>3, <1>4, <1>7, <1>x, <2>1, DigestUpdateSays
  <2> QED
    BY <1>10, <2>2
<1> HIDE DEF padded
<1>12. PICK q \in Nat : Len(u) = BlockEnd(q) + BlockLen
  BY <1>2, <1>3 DEF ZerosFit
<1> DEFINE c == x + zz
<1>13. c \in Nat /\ c + LenBytes = Len(u) /\ DigestSays(padded, u, c) /\ \A k \in 1..LenBytes : u[c + k] = n
  BY <1>3, <1>x, <1>11
<1> HIDE DEF x, c
<1>last. LastBlock(padded, u, q, n)
  BY <1>1, <1>3, <1>11, <1>12, <1>13, LastBlockIs
<1>14. /\ SubSeq(padded.buf \o [i \in 1..BlockLen |-> Stale], 1, BlockLen - LenBytes)
              \o [i \in 1..LenBytes |-> n] = SubSeq(u, BlockEnd(q) + 1, BlockEnd(q) + BlockLen)
       /\ padded.blocks = BlocksUpTo(u, q)
  BY <1>last DEF LastBlock
<1>15. DigestFinal(d) = Append(BlocksUpTo(u, q), SubSeq(u, BlockEnd(q) + 1, BlockEnd(q) + BlockLen))
  BY <1>1, <1>11, <1>14, <1>final DEF Transform, DigestContext
<1>16. BlockEnd(q + 1) = BlockEnd(q) + BlockLen /\ BlockEnd(q) \in Nat /\ q + 1 \in Nat
  <2>1. BlockEnd(q + 1) = BlockEnd(q) + BlockLen /\ BlockEnd(q) \in Nat
    BY BlockSums
  <2> QED
    BY <2>1
<1>17. DigestFinal(d) = BlocksUpTo(u, q + 1)
  <2>1. BlockEnd(q + 1) <= Len(u)
    BY <1>4, <1>12, <1>16
  <2>2. BlocksUpTo(u, q + 1)
            = Append(BlocksUpTo(u, q), SubSeq(u, BlockEnd(q) + 1, BlockEnd(q) + BlockLen))
    BY <1>3, <2>1, NextBlock
  <2> QED
    BY <1>15, <2>2
<1>18. Len(u) \div BlockLen = q + 1
  <2> DEFINE r == q + 1
             l == Len(u)
  <2>1. r \in Nat /\ BlockEnd(r) <= l /\ l < BlockEnd(r) + BlockLen /\ l \in Nat
    BY <1>4, <1>12, <1>16
  <2> HIDE DEF r, l
  <2>2. l \div BlockLen = r
    BY <2>1, BlockCount
  <2> QED
    BY <2>2 DEF r, l
<1>19. BlocksOf(s) = BlocksUpTo(u, Len(u) \div BlockLen)
  BY <1>of DEF BlocksUpTo, BlockEnd
<1> QED
  BY <1>17, <1>18, <1>19

-----------------------------------------------------------------------------
\* Each reader has what the part of the stream that it was fed says, the frames since the
\* last reset only.
SinceReset == SubSeq(input, since + 1, Len(input))

LineFollows == line \in LineReader /\ LineSays(line, input, pos)
FrameFollows == frame \in FrameReader /\ FrameSays(frame, kept, SinceReset, pos - since)
DigestFollows == digest \in DigestContext /\ digest.total = pos /\ DigestSays(digest, input, pos)

StreamPlaces ==
    /\ input \in Bytes /\ pos \in 0..Len(input) /\ since \in 0..pos /\ kept \in Seq(Bytes)

StreamInv == StreamPlaces /\ LineFollows /\ FrameFollows /\ DigestFollows

\* A reader between two messages, whatever comes.
LEMMA FrameStarts ==
    ASSUME NEW s \in Bytes, NEW f, f.discard = 0, f.hdr = <<>>
    PROVE  FrameSays(f, f.out, s, 0)
<1>1. SubSeq(s, 0 + 1, 0) = <<>>
  BY SubSeqEmpty DEF Bytes
<1>2. InHeader(f, s, 0, 0)
  BY <1>1 DEF InHeader
<1>3. Told(f.out, f.out, s, 0, 0)
  BY DEF Told
<1>4. 0 \in 0..0
  OBVIOUS
<1> QED
  BY <1>2, <1>3, <1>4 DEF FrameSays

\* Readers that were fed nothing.
LEMMA StreamInvInit == StreamInit => StreamInv
<1> SUFFICES ASSUME StreamInit PROVE StreamInv
  OBVIOUS
<1>0. pos = 0 /\ since = 0 /\ kept = <<>> /\ line = LineInit /\ frame = FrameInit /\ digest = DigestInit
  BY DEF StreamInit
<1>1. input \in Bytes /\ Len(input) \in Nat
  <2>1. PICK n \in 0..MaxInput : input \in [1..n -> Symbols]
    BY DEF StreamInit
  <2>2. n \in Nat /\ input \in [1..n -> Nat]
    <3>1. n \in Nat
      BY <2>1, StreamAssumption
    <3>2. Symbols \subseteq Nat
      BY StreamAssumption
    <3> QED
      BY ONLY <2>1, <3>1, <3>2
  <2>3. input \in Seq(Nat)
    BY <2>2, SeqDef
  <2> QED
    BY <2>3 DEF Bytes
<1>2. <<>> \in Bytes /\ <<>> \in Seq(Bytes)
  BY DEF Bytes
<1>3. StreamPlaces
  BY <1>0, <1>1, <1>2 DEF StreamPlaces
<1>4. LineFollows
  <2>1. LastEnd(input, 0) = 0 /\ Lines(input)[0] = <<>>
    <3>1. LastEnd(input, 0) = 0
      BY LastEndIs
    <3>2. Lines(input)[0] = <<>>
      BY <1>1, LinesAre
    <3> QED
      BY <3>1, <3>2
  <2>2. SubSeq(input, 0 + 1, 0) = <<>>
    BY <1>1, SubSeqEmpty DEF Bytes
  <2>3. ~ (0 - 0 > BufSize - 1)
    BY FramingAssumption
  <2>4. LineHolds(LineInit, input, 0, 0)
    BY <2>1, <2>2, <2>3 DEF LineHolds, LineInit
  <2>5. LineInit \in LineReader
    BY <1>2 DEF LineReader, LineInit
  <2> QED
    BY <1>0, <2>1, <2>4, <2>5 DEF LineFollows, LineSays
<1>5. FrameFollows
  <2>1. SinceReset \in Bytes
    BY <1>0, <1>1 DEF SinceReset, Bytes
  <2>2. FrameInit.discard = 0 /\ FrameInit.hdr = <<>> /\ FrameInit.out = <<>> /\ FrameInit \in FrameReader
    BY <1>2 DEF FrameInit, FrameReader
  <2>3. FrameSays(FrameInit, <<>>, SinceReset, 0)
    BY <2>1, <2>2, FrameStarts
  <2>4. pos - since = 0
    BY <1>0
  <2> QED
    BY <1>0, <2>2, <2>3, <2>4 DEF FrameFollows
<1>6. DigestFollows
  <2>1. BlockEnd(0) = 0 /\ BlockLen \in Nat \ {0}
    BY BlockSums
  <2>2. SubSeq(input, 0 + 1, 0) = <<>>
    BY <1>1, SubSeqEmpty DEF Bytes
  <2>3. BlocksUpTo(input, 0) = <<>>
    <3>1. BlocksUpTo(input, 0) \in Seq(Bytes) /\ Len(BlocksUpTo(input, 0)) = 0
      BY <1>1, <2>1, BlocksAre
    <3> QED
      BY <3>1, EmptySeq
  <2>4. DigestAt(DigestInit, input, 0, 0)
    BY <2>1, <2>2, <2>3 DEF DigestAt, DigestInit
  <2>5. DigestInit \in DigestContext /\ DigestInit.total = 0
    BY <1>2 DEF DigestContext, DigestInit
  <2> QED
    BY <1>0, <2>4, <2>5 DEF DigestFollows, DigestSays
<1> QED
  BY <1>3, <1>4, <1>5, <1>6 DEF StreamInv

\* A callback.
LEMMA FeedFollows ==
    ASSUME StreamInv, Feed
    PROVE  StreamInv'
<1>1. PICK n \in 1..Len(input) - pos :
        LET piece == SubSeq(input, pos + 1, pos + n)
        IN  /\ pos' = pos + n
            /\ line' = LineFeed(line, piece)
            /\ frame' = FrameFeed(frame, piece)
            /\ digest' = DigestUpdate(digest, piece)
            /\ UNCHANGED <<input, since, kept>>
  BY DEF Feed
<1>2. /\ input \in Bytes /\ pos \in 0..Len(input) /\ since \in 0..pos /\ kept \in Seq(Bytes)
      /\ Len(input) \in Nat
  BY LenIs DEF StreamInv, StreamPlaces
<1>3. /\ n \in Nat /\ pos \in Nat /\ since \in Nat /\ pos + n <= Len(input) /\ since <= pos
      /\ pos' = pos + n /\ pos' \in Nat
      /\ input' = input /\ since' = since /\ kept' = kept
  BY <1>1, <1>2
<1>4. StreamPlaces'
  BY <1>2, <1>3 DEF StreamPlaces
<1>5. LineFollows'
  <2>1. line \in LineReader /\ LineSays(line, input, pos)
    BY DEF StreamInv, LineFollows
  <2>2. LET fed == LineFeed(line, SubSeq(input, pos + 1, pos + n))
        IN  fed \in LineReader /\ LineSays(fed, input, pos + n)
    BY <1>2, <1>3, <2>1, LineFeedSays
  <2>3. line' \in LineReader /\ LineSays(line', input', pos')
    BY <1>1, <1>3, <2>2
  <2> QED
    BY <2>3 DEF LineFollows
<1>6. FrameFollows'
  <2> DEFINE s == SinceReset
             p == pos - since
             l == Len(input) - since
  <2>1. frame \in FrameReader /\ FrameSays(frame, kept, s, p)
    BY DEF StreamInv, FrameFollows
  <2>2. /\ l \in Nat /\ since + l = Len(input) /\ p \in Nat /\ since + p = pos /\ p + n <= l
        /\ (since + p) + n = pos + n /\ since + l <= Len(input) /\ pos' - since = p + n
    BY <1>2, <1>3
  <2> HIDE DEF p, l
  <2>3. s = SubSeq(input, since + 1, since + l)
    BY <2>2 DEF SinceReset
  <2> HIDE DEF s
  <2>4. s \in Bytes /\ Len(s) = l
    BY <1>2, <1>3, <2>2, <2>3, PieceIs, ZenonT(60)
  <2>5. SubSeq(s, p + 1, p + n) = SubSeq(input, pos + 1, pos + n)
    <3>1. SubSeq(SubSeq(input, since + 1, since + l), p + 1, p + n)
              = SubSeq(input, (since + p) + 1, (since + p) + n)
      BY <1>2, <1>3, <2>2, PieceOfPiece
    <3> QED
      BY <2>2, <2>3, <3>1
  <2>6. LET fed == FrameFeed(frame, SubSeq(s, p + 1, p + n))
        IN  fed \in FrameReader /\ FrameSays(fed, kept, s, p + n)
    <3>1. p + n <= Len(s)
      BY <2>2, <2>4
    <3> QED
      BY <1>2, <1>3, <2>1, <2>2, <2>4, <3>1, FrameFeedSays
  <2>7. frame' \in FrameReader /\ FrameSays(frame', kept, s, p + n)
    BY <1>1, <2>5, <2>6
  <2>8. s = SinceReset'
    BY <1>3 DEF s, SinceReset
  <2>9. FrameSays(frame', kept', SinceReset', pos' - since')
    BY <1>3, <2>2, <2>7, <2>8
  <2> QED
    BY <2>7, <2>9 DEF FrameFollows
<1>7. DigestFollows'
  <2>1. digest \in DigestContext /\ digest.total = pos /\ DigestSays(digest, input, pos)
    BY DEF StreamInv, DigestFollows
  <2>2. LET after == DigestUpdate(digest, SubSeq(input, pos + 1, pos + n))
        IN  after \in DigestContext /\ after.total = digest.total + n /\ DigestSays(after, input, pos + n)
    <3>1. input \in Bytes /\ pos \in Nat /\ n \in Nat /\ pos + n <= Len(input)
          /\ digest \in DigestContext /\ DigestSays(digest, input, pos)
      BY <1>2, <1>3, <2>1
    <3> QED
      BY ONLY <3>1, DigestUpdateSays
  <2>3. digest' \in DigestContext /\ digest'.total = pos' /\ DigestSays(digest', input', pos')
    BY <1>1, <1>3, <2>1, <2>2
  <2> QED
    BY <2>3 DEF DigestFollows
<1> QED
  BY <1>4, <1>5, <1>6, <1>7 DEF StreamInv

\* A reset.
LEMMA BreakFollows ==
    ASSUME StreamInv, Break
    PROVE  StreamInv'
<1>1. since' = pos /\ kept' = frame.out /\ frame' = FrameReset(frame) /\ UNCHANGED <<input, pos, line, digest>>
  BY DEF Break
<1>2. /\ input \in Bytes /\ pos \in 0..Len(input) /\ since \in 0..pos /\ kept \in Seq(Bytes)
      /\ Len(input) \in Nat /\ frame \in FrameReader
  BY LenIs DEF StreamInv, StreamPlaces, FrameFollows
<1>3. frame.out \in Seq(Bytes)
  BY <1>2 DEF FrameReader
<1>4. StreamPlaces'
  BY <1>1, <1>2, <1>3 DEF StreamPlaces
<1>5. LineFollows'
  BY <1>1 DEF StreamInv, LineFollows
<1>6. DigestFollows'
  BY <1>1 DEF StreamInv, DigestFollows
<1>7. FrameFollows'
  <2>1. frame'.discard = 0 /\ frame'.hdr = <<>> /\ frame'.out = frame.out
    BY <1>1 DEF FrameReset, FrameInit
  <2>2. frame' \in FrameReader
    <3>1. <<>> \in Bytes
      BY DEF Bytes
    <3> QED
      BY <1>1, <1>3, <3>1 DEF FrameReset, FrameInit, FrameReader
  <2>3. SinceReset' \in Bytes
    <3> DEFINE e == Len(input)
    <3>1. pos \in Nat /\ e \in Nat /\ pos <= e /\ e <= Len(input)
      BY <1>2
    <3>2. SinceReset' = SubSeq(input, pos + 1, e)
      BY <1>1 DEF SinceReset
    <3> HIDE DEF e
    <3>3. SubSeq(input, pos + 1, e) \in Bytes
      BY <1>2, <3>1, StretchIs
    <3> QED
      BY <3>2, <3>3
  <2>4. FrameSays(frame', frame'.out, SinceReset', 0)
    BY <2>1, <2>3, FrameStarts
  <2>5. pos' - since' = 0 /\ kept' = frame'.out
    BY <1>1, <1>2, <2>1
  <2> QED
    BY <2>2, <2>4, <2>5 DEF FrameFollows
<1> QED
  BY <1>4, <1>5, <1>6, <1>7 DEF StreamInv

\* The front of a stream.
LEMMA PartIs ==
    ASSUME NEW s \in Bytes, NEW p \in 0..Len(s)
    PROVE  SubSeq(s, 1, p) \in Bytes /\ Len(SubSeq(s, 1, p)) = p /\ \A k \in 1..p : SubSeq(s, 1, p)[k] = s[k]
<1>1. s \in Seq(Nat) /\ Len(s) \in Nat
  BY DEF Bytes
<1>2. SubSeq(s, 1, p) \in Seq(Nat) /\ Len(SubSeq(s, 1, p)) = p /\ \A k \in 1..p : SubSeq(s, 1, p)[k] = s[k]
  BY <1>1
<1> QED
  BY <1>2 DEF Bytes

\* What the readers handed on, from what they have in hand.
LEMMA StreamInvTells == StreamInv => PiecesDoNotMatter
<1> SUFFICES ASSUME StreamInv PROVE PiecesDoNotMatter
  OBVIOUS
<1>1. /\ input \in Bytes /\ pos \in 0..Len(input) /\ since \in 0..pos /\ kept \in Seq(Bytes)
      /\ Len(input) \in Nat
  BY LenIs DEF StreamInv, StreamPlaces
<1>2. line.out = Lines(input)[pos]
  BY DEF StreamInv, LineFollows, LineSays, LineHolds
<1>3. frame.out = kept \o Messages(SubSeq(input, since + 1, pos))[0]
  <2> DEFINE s == SinceReset
             p == pos - since
             l == Len(input) - since
  <2>1. frame \in FrameReader /\ FrameSays(frame, kept, s, p)
    BY DEF StreamInv, FrameFollows
  <2>2. /\ l \in Nat /\ since + l = Len(input) /\ p \in 0..l /\ since + p = pos /\ since \in Nat
        /\ since + l <= Len(input) /\ 0 + p <= l /\ p \in Nat
    BY <1>1
  <2> HIDE DEF p, l
  <2>3. s = SubSeq(input, since + 1, since + l)
    BY <2>2 DEF SinceReset
  <2> HIDE DEF s
  <2>4. s \in Bytes /\ Len(s) = l
    BY <1>1, <2>2, <2>3, PieceIs
  <2>5. frame.out = kept \o Messages(SubSeq(s, 1, p))[0]
    BY <1>1, <2>1, <2>2, <2>4, FrameTells
  <2>6. SubSeq(s, 1, p) = SubSeq(input, since + 1, pos)
    <3>1. SubSeq(SubSeq(input, since + 1, since + l), 0 + 1, 0 + p)
              = SubSeq(input, (since + 0) + 1, (since + 0) + p)
      BY <1>1, <2>2, PieceOfPiece
    <3>2. 0 + 1 = 1 /\ 0 + p = p /\ since + 0 = since
      BY <2>2
    <3> QED
      BY <2>2, <2>3, <3>1, <3>2
  <2> QED
    BY <2>5, <2>6
<1>4. DigestFinal(digest) = BlocksOf(Fed)
  <2>1. digest \in DigestContext /\ digest.total = pos /\ DigestSays(digest, input, pos)
    BY DEF StreamInv, DigestFollows
  <2>2. Fed \in Bytes /\ Len(Fed) = pos /\ \A k \in 1..pos : Fed[k] = input[k]
    BY <1>1, PartIs DEF Fed
  <2>3. DigestSays(digest, Fed, pos)
    <3>1. pos <= Len(input) /\ pos <= Len(Fed) /\ pos \in Nat
      BY <1>1, <2>2
    <3> QED
      BY <1>1, <2>1, <2>2, <3>1, DigestSaysOf
  <2> QED
    BY <2>1, <2>2, <2>3, DigestFinalIs
<1> QED
  BY <1>2, <1>3, <1>4 DEF PiecesDoNotMatter, CommandsAreWhole, DigestIsOfTheBytes

\* However the stream is cut into callbacks, whatever it holds: the commands of
\* line_proto_feed() and of ble_frame_feed() are those of the stream, and what
\* sha256_update() and sha256_final() hash is what they were given.
THEOREM CutsMakeNoDifference == StreamSpec => []PiecesDoNotMatter
<1>1. StreamInit => StreamInv
  BY StreamInvInit
<1>2. StreamInv /\ [StreamNext]_stream => StreamInv'
  <2> SUFFICES ASSUME StreamInv, [StreamNext]_stream PROVE StreamInv'
    OBVIOUS
  <2>1. CASE Feed
    BY <2>1, FeedFollows
  <2>2. CASE Break
    BY <2>2, BreakFollows
  <2>3. CASE UNCHANGED stream
    BY <2>3 DEF stream, StreamInv, StreamPlaces, LineFollows, FrameFollows, DigestFollows, SinceReset
  <2> QED
    BY <2>1, <2>2, <2>3 DEF StreamNext
<1>3. StreamInv => PiecesDoNotMatter
  BY StreamInvTells
<1> QED
  BY <1>1, <1>2, <1>3, PTL DEF StreamSpec
=============================================================================
