---------------------------- MODULE BleLinkProofs ----------------------------
(***************************************************************************)
(* Proofs about BleLink, for every number of clients, commands, queue      *)
(* places and notifications a reply takes.                                 *)
(***************************************************************************)
EXTENDS BleLink, SequenceTheorems, FiniteSetTheorems, TLAPS

LEMMA Bounds ==
    /\ MaxGeneration \in Nat /\ MaxCommands \in Nat
    /\ QueueDepth \in Nat /\ QueueDepth > 0 /\ Pieces \in Nat /\ Pieces > 0
BY BleAssumption

-----------------------------------------------------------------------------
(***************************************************************************)
(* A command is one client's.  What g_rx holds is of the client on the     *)
(* air; it is forgotten before another one can be.                         *)
(***************************************************************************)
Whole(c) == c.first = c.last
Numbered == [first: Nat, last: Nat, no: Nat]

Reassembly ==
    /\ conn \in Nat /\ generation \in 0 .. MaxGeneration /\ rx \in Nat
    /\ handler \in {"none", "connecting", "dropping", "dropped"}
    /\ rx # Nobody /\ conn # Nobody => rx = conn
    /\ rx # Nobody => conn # Nobody \/ handler = "dropped"
    /\ handler = "connecting" => conn = Nobody

Commands ==
    /\ queue \in Seq(Numbered)
    /\ completed \in Nat
    /\ \A i \in 1 .. Len(queue) : Whole(queue[i])
    /\ task \in [at: {"receive", "dispatch", "subscribe", "send", "notify"},
                 cmd: Numbered \cup {NoCommand},
                 gen: Nat, sent: Nat]
    /\ task.cmd # NoCommand => Whole(task.cmd)
    /\ task.at \notin {"send", "notify"} => task.sent = 0
    /\ task.at = "notify" => task.sent < Pieces

LEMMA ReassemblyInit == Init => Reassembly
BY Bounds DEF Init, Reassembly, Nobody

LEMMA ReassemblyStep == Reassembly /\ [Next]_vars => Reassembly'
<1> SUFFICES ASSUME Reassembly, [Next]_vars PROVE Reassembly'
  OBVIOUS
<1> USE DEF Reassembly, Nobody
<1>1. CASE Connect
  BY <1>1, Bounds DEF Connect, Bump
<1>2. CASE PublishHandle
  BY <1>2, Bounds DEF PublishHandle
<1>3. CASE Disconnect
  BY <1>3, Bounds DEF Disconnect, Bump
<1>4. CASE RetractHandle
  BY <1>4 DEF RetractHandle
<1>5. CASE ForgetClient
  BY <1>5 DEF ForgetClient
<1>6. CASE FirstWrite
  BY <1>6 DEF FirstWrite, link
<1>7. CASE LastWrite
  BY <1>7 DEF LastWrite, link
<1>8. CASE UNCHANGED <<conn, generation, rx, handler>>
  BY <1>8
<1> QED
  BY <1>1, <1>2, <1>3, <1>4, <1>5, <1>6, <1>7, <1>8
  DEF Next, Host, CmdTask, vars, link, Subscribe, Receive, Dispatched, Subscribed,
      NoSubscriber, Checked, LinkDropped, Notify, Refused, GiveUp, AllSent

LEMMA CommandsInit == Init => Commands
BY DEF Init, Commands, Receiving, NoCommand

LEMMA ReceivingIsTask ==
    Receiving \in [at: {"receive", "dispatch", "subscribe", "send", "notify"},
                   cmd: Numbered \cup {NoCommand},
                   gen: Nat, sent: Nat]
    /\ Receiving.cmd = NoCommand /\ Receiving.at = "receive" /\ Receiving.sent = 0
BY DEF Receiving

LEMMA CommandsStep == Reassembly /\ Commands /\ [Next]_vars => Commands'
<1> SUFFICES ASSUME Reassembly, Commands, [Next]_vars PROVE Commands'
  OBVIOUS
<1>1. CASE UNCHANGED <<queue, completed, task>>
  BY <1>1 DEF Commands
<1>2. CASE LastWrite
  <2> DEFINE c == [first |-> rx, last |-> conn, no |-> completed + 1]
  <2>1. /\ UNCHANGED task /\ completed' \in Nat
        /\ queue' = Append(queue, c) \/ UNCHANGED queue
    BY <1>2 DEF LastWrite, OnMessage, Commands
  <2>2. c \in Numbered /\ Whole(c)
    BY <1>2 DEF LastWrite, Reassembly, Commands, Whole, Numbered
  <2> HIDE DEF c
  <2>3. CASE queue' = Append(queue, c)
    <3>1. /\ queue' \in Seq(Numbered) /\ Len(queue') = Len(queue) + 1
          /\ queue'[Len(queue) + 1] = c
          /\ \A i \in 1 .. Len(queue) : queue'[i] = queue[i]
      BY <2>2, <2>3, AppendProperties DEF Commands
    <3>2. \A i \in 1 .. Len(queue') : i \in 1 .. Len(queue) \/ i = Len(queue) + 1
      BY <3>1 DEF Commands
    <3> QED
      BY <2>1, <2>2, <3>1, <3>2 DEF Commands
  <2> QED
    BY <2>1, <2>3 DEF Commands
<1>3. CASE Receive
  <2>1. /\ queue # <<>> /\ queue' = Tail(queue) /\ UNCHANGED completed
        /\ task' = [task EXCEPT !.at = "dispatch", !.cmd = Head(queue)]
    BY <1>3 DEF Receive
  <2>2. Head(queue) \in Numbered /\ Whole(Head(queue))
    <3>1. queue \in Seq(Numbered) /\ queue # <<>>
      BY <2>1 DEF Commands
    <3>2. Head(queue) = queue[1] /\ 1 \in 1 .. Len(queue) /\ queue[1] \in Numbered
      BY <3>1
    <3> QED
      BY <3>2 DEF Commands
  <2>3. /\ queue' \in Seq(Numbered)
        /\ \A i \in 1 .. Len(queue') : i + 1 \in 1 .. Len(queue) /\ queue'[i] = queue[i + 1]
    <3>1. queue \in Seq(Numbered) /\ queue # <<>>
      BY <2>1 DEF Commands
    <3>2. queue' \in Seq(Numbered) /\ Len(queue') = Len(queue) - 1 /\ Len(queue) \in Nat
      BY <2>1, <3>1
    <3>3. \A i \in 1 .. Len(queue') : queue'[i] = queue[i + 1]
      BY <2>1, <3>1
    <3> QED
      BY <3>2, <3>3
  <2>4. \A i \in 1 .. Len(queue') : Whole(queue'[i])
    BY <2>3 DEF Commands
  <2>5. /\ task' \in [at: {"receive", "dispatch", "subscribe", "send", "notify"},
                     cmd: Numbered \cup {NoCommand}, gen: Nat, sent: Nat]
        /\ task'.cmd = Head(queue) /\ task'.at = "dispatch" /\ task'.sent = 0
    BY <1>3, <2>1, <2>2 DEF Receive, Commands
  <2> QED
    BY <2>1, <2>2, <2>3, <2>4, <2>5 DEF Commands
<1>4. CASE Dispatched
  <2>1. task' = [task EXCEPT !.at = "subscribe", !.gen = generation, !.sent = 0]
    BY <1>4 DEF Dispatched
  <2>2. generation \in Nat /\ UNCHANGED <<queue, completed>>
    BY <1>4, Bounds DEF Dispatched, Reassembly
  <2>3. /\ task' \in [at: {"receive", "dispatch", "subscribe", "send", "notify"},
                     cmd: Numbered \cup {NoCommand}, gen: Nat, sent: Nat]
        /\ task'.cmd = task.cmd /\ task'.at = "subscribe" /\ task'.sent = 0
    BY <2>1, <2>2 DEF Commands
  <2> QED
    BY <2>2, <2>3 DEF Commands
<1>5. CASE Subscribed \/ Checked \/ Refused
  BY <1>5 DEF Subscribed, Checked, Refused, Commands
<1>6. CASE NoSubscriber \/ LinkDropped \/ GiveUp \/ AllSent
  <2>1. task' = Receiving /\ UNCHANGED <<queue, completed>>
    BY <1>6 DEF NoSubscriber, LinkDropped, GiveUp, AllSent
  <2> QED
    BY <2>1, ReceivingIsTask DEF Commands
<1>7. CASE Notify
  <2>1. /\ UNCHANGED <<queue, completed>> /\ task.sent + 1 \in Nat
        /\ task' = [task EXCEPT !.at = "send", !.sent = task.sent + 1]
    BY <1>7 DEF Notify, Commands
  <2>2. /\ task' \in [at: {"receive", "dispatch", "subscribe", "send", "notify"},
                     cmd: Numbered \cup {NoCommand}, gen: Nat, sent: Nat]
        /\ task'.cmd = task.cmd /\ task'.at = "send"
    BY <2>1 DEF Commands
  <2> QED
    BY <2>1, <2>2 DEF Commands
<1> QED
  BY <1>1, <1>2, <1>3, <1>4, <1>5, <1>6, <1>7
  DEF Next, Host, CmdTask, vars, link, Connect, PublishHandle, Disconnect, RetractHandle,
      ForgetClient, Subscribe, FirstWrite

\* ble_gatt.c: no command is put together from the writes of two clients.
THEOREM CommandsAreWhole == Spec => []NeverSpliced
<1>1. Commands => NeverSpliced
  BY DEF Commands, NeverSpliced, Whole
<1> QED
  BY <1>1, ReassemblyInit, ReassemblyStep, CommandsInit, CommandsStep, PTL DEF Spec

-----------------------------------------------------------------------------
(***************************************************************************)
(* The order of the commands: those whose replies went out, the one in     *)
(* hand, those that wait.                                                  *)
(***************************************************************************)
SomePiece == [to: Numbered \cup {NoCommand}, k: Nat]

Delivered ==
    /\ conn \in Clients \cup {Nobody}
    /\ inbox \in [Clients -> Seq(SomePiece)]

\* The places of the queue and of the inboxes.
Waiting(i) == i \in 1 .. Len(queue)
Place(c, i) == c \in Clients /\ i \in 1 .. Len(inbox[c])

InOrder ==
    /\ task.cmd.no <= completed
    /\ task.at # "receive" => task.cmd.no > 0
    /\ \A i : Waiting(i) => queue[i].no <= completed /\ task.cmd.no < queue[i].no
    /\ \A i, j : Waiting(i) /\ Waiting(j) /\ i < j => queue[i].no < queue[j].no
    /\ \A c, i : Place(c, i) =>
          /\ inbox[c][i].k > 0
          /\ inbox[c][i].to.no > 0 /\ inbox[c][i].to.no <= completed
          /\ \A j : Waiting(j) => inbox[c][i].to.no < queue[j].no

LEMMA DeliveredInit == Init => Delivered
BY DEF Init, Delivered

LEMMA DeliveredStep == Reassembly /\ Commands /\ Delivered /\ [Next]_vars => Delivered'
<1> SUFFICES ASSUME Reassembly, Commands, Delivered, [Next]_vars PROVE Delivered'
  OBVIOUS
<1>1. CASE PublishHandle
  BY <1>1, Bounds DEF PublishHandle, Delivered, Clients, Reassembly, Nobody
<1>2. CASE RetractHandle
  BY <1>2 DEF RetractHandle, Delivered
<1>3. CASE Notify
  <2>1. /\ conn # Nobody
        /\ inbox' = [inbox EXCEPT ![conn] = Append(inbox[conn],
                                                   [to |-> task.cmd, k |-> task.sent + 1])]
        /\ UNCHANGED conn
    BY <1>3 DEF Notify, link
  <2>2. [to |-> task.cmd, k |-> task.sent + 1] \in SomePiece
    BY DEF Commands, SomePiece
  <2>3. conn \in Clients /\ inbox[conn] \in Seq(SomePiece)
    BY <2>1 DEF Delivered
  <2>4. Append(inbox[conn], [to |-> task.cmd, k |-> task.sent + 1]) \in Seq(SomePiece)
    BY <2>2, <2>3, AppendProperties
  <2> QED
    BY <2>1, <2>4 DEF Delivered
<1>4. CASE UNCHANGED <<conn, inbox>>
  BY <1>4 DEF Delivered
<1> QED
  BY <1>1, <1>2, <1>3, <1>4
  DEF Next, Host, CmdTask, vars, link, Connect, Disconnect, ForgetClient, Subscribe,
      FirstWrite, LastWrite, Receive, Dispatched, Subscribed, NoSubscriber, Checked,
      LinkDropped, Refused, GiveUp, AllSent

\* The one place more after a notification, and what is at every place.  A piece
\* goes on from the one before it if that one is where GoesOn looks.
OneMore(n) ==
    /\ conn \in Clients /\ conn' = conn /\ ~Place(conn, n)
    /\ inbox'[conn][n] = [to |-> task.cmd, k |-> task.sent + 1]
    /\ \A c, i : Place(c, i)' <=> Place(c, i) \/ (c = conn /\ i = n)
    /\ \A c, i : Place(c, i) => /\ inbox'[c][i] = inbox[c][i]
                                /\ GoesOn(c, i)' <=> GoesOn(c, i)
    /\ Place(conn, n - 1) /\ inbox[conn][n - 1] = [to |-> task.cmd, k |-> task.sent]
          => \A c : c = conn => GoesOn(c, n)'

LEMMA NotifyAddsOne ==
    ASSUME Delivered, Commands, Notify
    PROVE  \E n \in Nat : n = Len(inbox[conn]) + 1 /\ OneMore(n)
<1> DEFINE p == [to |-> task.cmd, k |-> task.sent + 1]
           s == inbox[conn]
<1>1. /\ conn \in Clients /\ conn' = conn /\ s \in Seq(SomePiece) /\ p \in SomePiece
      /\ task.sent \in Nat
  <2>1. task.cmd \in Numbered \cup {NoCommand} /\ task.sent \in Nat
    BY DEF Commands
  <2>2. conn \in Clients /\ conn' = conn
    BY DEF Notify, Delivered, link
  <2>3. s \in Seq(SomePiece)
    BY <2>2 DEF Delivered
  <2>4. p \in SomePiece
    BY <2>1 DEF SomePiece
  <2> HIDE DEF s, p
  <2> QED
    BY <2>1, <2>2, <2>3, <2>4
<1>2. inbox'[conn] = Append(s, p) /\ \A c \in Clients : c # conn => inbox'[c] = inbox[c]
  BY <1>1 DEF Notify, Delivered
<1>3. /\ Len(s) \in Nat /\ Len(inbox'[conn]) = Len(s) + 1 /\ inbox'[conn][Len(s) + 1] = p
      /\ \A i \in 1 .. Len(s) : inbox'[conn][i] = s[i]
  <2> HIDE DEF p, s
  <2> QED
    BY <1>1, <1>2, AppendProperties
<1>4. [p EXCEPT !.k = @ - 1] = [to |-> task.cmd, k |-> task.sent]
  BY <1>1
<1>5. \A c \in Clients : inbox[c] \in Seq(SomePiece) /\ Len(inbox[c]) \in Nat
  BY DEF Delivered
<1> HIDE DEF p
<1>6. \A c, i : Place(c, i) => i \in Nat /\ inbox'[c][i] = inbox[c][i]
  BY <1>2, <1>3, <1>5 DEF Place
<1>7. \A c, i : Place(c, i) /\ i > 1 => Place(c, i - 1)
  BY <1>5 DEF Place
<1>8. \A c, i : Place(c, i) => (GoesOn(c, i)' <=> GoesOn(c, i))
  BY <1>6, <1>7 DEF GoesOn
<1>9. PICK n \in Nat : n = Len(s) + 1
  BY <1>3
<1>10. \A c, i : Place(c, i)' <=> Place(c, i) \/ (c = conn /\ i = n)
  BY <1>1, <1>2, <1>3, <1>5, <1>9 DEF Place
<1>11. inbox'[conn][n] = p /\ ~Place(conn, n)
  BY <1>3, <1>9 DEF Place
<1>12. ASSUME Place(conn, n - 1), inbox[conn][n - 1] = [to |-> task.cmd, k |-> task.sent],
              NEW c, c = conn
       PROVE  GoesOn(c, n)'
  <2>1. n > 1 /\ inbox'[conn][n - 1] = inbox[conn][n - 1]
    BY <1>6, <1>9, <1>12 DEF Place
  <2> QED
    BY <1>4, <1>11, <1>12, <2>1 DEF GoesOn
<1> QED
  BY <1>1, <1>6, <1>8, <1>9, <1>10, <1>11, <1>12 DEF OneMore, p

\* What the order is of are numbers.
Numbers ==
    /\ task.cmd.no \in Nat /\ task.sent \in Nat /\ task.gen \in Nat /\ completed \in Nat
    /\ \A i : Waiting(i) => i \in Nat /\ queue[i].no \in Nat
    /\ \A c, i : Place(c, i) => inbox[c][i].k \in Nat /\ inbox[c][i].to.no \in Nat

LEMMA NumbersAreNumbers == Commands /\ Delivered => Numbers
<1> SUFFICES ASSUME Commands, Delivered PROVE Numbers
  OBVIOUS
<1>1. \A c \in Numbered \cup {NoCommand} : c.no \in Nat
  BY DEF Numbered, NoCommand
<1>2. \A i : Waiting(i) => i \in Nat /\ queue[i] \in Numbered
  BY DEF Commands, Waiting
<1>3. \A c, i : Place(c, i) => inbox[c][i] \in SomePiece
  BY DEF Delivered, Place
<1> QED
  BY <1>1, <1>2, <1>3 DEF Commands, SomePiece, Numbers

LEMMA InOrderInit == Init => InOrder
BY DEF Init, InOrder, Waiting, Place, Receiving, NoCommand

LEMMA InOrderStep ==
    Reassembly /\ Commands /\ Delivered /\ InOrder /\ [Next]_vars => InOrder'
<1> SUFFICES ASSUME Reassembly, Commands, Delivered, InOrder, [Next]_vars PROVE InOrder'
  OBVIOUS
<1>n. Numbers
  BY NumbersAreNumbers
<1>1. CASE UNCHANGED <<queue, task, inbox, completed>>
  BY <1>1 DEF InOrder, Waiting, Place
<1>2. CASE LastWrite
  <2> DEFINE c == [first |-> rx, last |-> conn, no |-> completed + 1]
  <2>1. /\ UNCHANGED <<task, inbox>> /\ completed' = completed + 1
        /\ queue' = Append(queue, c) \/ UNCHANGED queue
    BY <1>2 DEF LastWrite, OnMessage
  <2>2. CASE UNCHANGED queue
    BY <1>n, <2>1, <2>2 DEF InOrder, Waiting, Place, Numbers
  <2>3. CASE queue' = Append(queue, c)
    <3>1. c \in Numbered /\ c.no = completed + 1
      BY <1>n DEF Reassembly, Numbered, Numbers
    <3> HIDE DEF c
    <3>2. PICK n \in Nat : n = Len(queue) + 1
      <4>1. Len(queue) \in Nat
        BY DEF Commands
      <4> QED
        BY <4>1
    <3>3. /\ queue'[n] = c
          /\ \A i : Waiting(i)' <=> Waiting(i) \/ i = n
          /\ \A i : Waiting(i) => queue'[i] = queue[i] /\ i < n
      BY <2>3, <3>1, <3>2, AppendProperties DEF Commands, Waiting
    <3>4. UNCHANGED <<task, inbox>> /\ completed' = completed + 1
      BY <2>1
    <3>5. \A d, i : Place(d, i)' <=> Place(d, i)
      BY <2>1 DEF Place
    <3>6. \A i, j : Waiting(i)' /\ Waiting(j)' /\ i < j => queue'[i].no < queue'[j].no
      BY <1>n, <3>1, <3>2, <3>3 DEF InOrder, Numbers
    <3>7. /\ \A i : Waiting(i)' => queue'[i].no <= completed + 1 /\ task.cmd.no < queue'[i].no
          /\ \A d, i : Place(d, i) => \A j : Waiting(j)' => inbox[d][i].to.no < queue'[j].no
      BY <1>n, <3>1, <3>3 DEF InOrder, Numbers
    <3>8. /\ task.cmd.no <= completed + 1
          /\ \A d, i : Place(d, i) => inbox[d][i].to.no <= completed + 1
      BY <1>n DEF InOrder, Numbers
    <3> QED
      BY <3>4, <3>5, <3>6, <3>7, <3>8 DEF InOrder
  <2> QED
    BY <2>1, <2>2, <2>3
<1>3. CASE Receive
  <2>1. /\ task.at = "receive" /\ queue # <<>> /\ queue' = Tail(queue)
        /\ task' = [task EXCEPT !.at = "dispatch", !.cmd = Head(queue)]
        /\ UNCHANGED <<inbox, completed>>
    BY <1>3 DEF Receive
  <2>2. queue \in Seq(Numbered) /\ task'.cmd = Head(queue)
    BY <2>1 DEF Commands
  <2>3. /\ Waiting(1) /\ task'.cmd = queue[1]
        /\ \A i : Waiting(i)' => Waiting(i + 1) /\ i > 0 /\ i \in Nat /\ queue'[i] = queue[i + 1]
    BY <2>1, <2>2 DEF Waiting
  <2>4. \A c, i : Place(c, i)' <=> Place(c, i)
    BY <2>1 DEF Place
  <2>5. /\ task'.cmd.no > 0 /\ task'.cmd.no <= completed
        /\ \A i : Waiting(i)' => queue'[i].no <= completed /\ task'.cmd.no < queue'[i].no
    BY <1>n, <2>3 DEF InOrder, Numbers
  <2>6. \A i, j : Waiting(i)' /\ Waiting(j)' /\ i < j => queue'[i].no < queue'[j].no
    BY <2>3 DEF InOrder
  <2>7. \A c, i : Place(c, i) => \A j : Waiting(j)' => inbox[c][i].to.no < queue'[j].no
    BY <2>3 DEF InOrder
  <2> QED
    BY <2>1, <2>4, <2>5, <2>6, <2>7 DEF InOrder
<1>4. CASE Dispatched \/ Subscribed \/ Checked \/ Refused
  <2>1. /\ UNCHANGED <<queue, inbox, completed>> /\ task'.cmd = task.cmd
        /\ task.at # "receive"
    BY <1>4 DEF Dispatched, Subscribed, Checked, Refused, Commands
  <2> QED
    BY <2>1 DEF InOrder, Waiting, Place
<1>5. CASE NoSubscriber \/ LinkDropped \/ GiveUp \/ AllSent
  <2>1. UNCHANGED <<queue, inbox, completed>> /\ task' = Receiving /\ task'.at = "receive"
    BY <1>5 DEF NoSubscriber, LinkDropped, GiveUp, AllSent, Receiving
  <2>2. task'.cmd.no = 0
    BY <2>1 DEF Receiving, NoCommand
  <2> QED
    BY <1>n, <2>1, <2>2 DEF InOrder, Waiting, Place, Numbers
<1>6. CASE Notify
  <2>1. PICK n \in Nat : OneMore(n)
    BY <1>6, NotifyAddsOne
  <2>2. /\ UNCHANGED <<queue, completed>> /\ task'.cmd = task.cmd /\ task.at = "notify"
    BY <1>6 DEF Notify, Commands
  <2>3. /\ inbox'[conn][n].k = task.sent + 1 /\ inbox'[conn][n].to = task.cmd
        /\ \A c, i : Place(c, i)' => \/ Place(c, i) /\ inbox'[c][i] = inbox[c][i]
                                     \/ c = conn /\ i = n
    BY <2>1 DEF OneMore
  <2>4. \A i : Waiting(i)' <=> Waiting(i)
    BY <2>2 DEF Waiting
  <2> QED
    BY <1>n, <2>2, <2>3, <2>4 DEF InOrder, Numbers
<1> QED
  BY <1>1, <1>2, <1>3, <1>4, <1>5, <1>6
  DEF Next, Host, CmdTask, vars, link, Connect, PublishHandle, Disconnect, RetractHandle,
      ForgetClient, Subscribe, FirstWrite

-----------------------------------------------------------------------------
(***************************************************************************)
(* Where the pieces of a reply are.  From its first piece on, a reply goes *)
(* on to the client that got the piece before as long as the link is the   *)
(* one send_response() looked at: the connection that was being dropped    *)
(* then is not followed by another without another generation.  A piece    *)
(* that went to another client is therefore the last one: the next check   *)
(* fails.                                                                  *)
(***************************************************************************)
Goes(c) == inbox[c] # <<>> /\ inbox[c][Len(inbox[c])] = [to |-> task.cmd, k |-> task.sent]

Torn(c, i) == Place(c, i) /\ inbox[c][i].k > 1 /\ ~GoesOn(c, i)

Of(c, i, no) == Place(c, i) /\ inbox[c][i].to.no = no

Untorn ==
    /\ task.gen <= generation
    /\ handler = "connecting" /\ task.gen = generation => task.sent = 0 /\ task.at # "notify"
    /\ task.sent > 0 /\ SameLink(task.gen) => Goes(conn)
    /\ \A c, i : Of(c, i, task.cmd.no) => inbox[c][i].k <= task.sent
    /\ \A c, i : Torn(c, i) /\ Of(c, i, task.cmd.no) =>
                    task.gen # generation /\ task.at # "notify"

LastOfItsReply ==
    \A c, i, d, j : Torn(c, i) /\ Of(d, j, inbox[c][i].to.no) /\ <<d, j>> # <<c, i>> =>
                        inbox[d][j].k < inbox[c][i].k

LEMMA UntornInit == Init => Untorn /\ LastOfItsReply
BY Bounds DEF Init, Untorn, LastOfItsReply, Receiving, Torn, Of, Place

LEMMA UntornStep ==
    Reassembly /\ Commands /\ Delivered /\ InOrder /\ Untorn /\ [Next]_vars => Untorn'
<1> SUFFICES ASSUME Reassembly, Commands, Delivered, InOrder, Untorn, [Next]_vars PROVE Untorn'
  OBVIOUS
<1>n. Numbers
  BY NumbersAreNumbers
<1>0. generation \in Nat
  BY Bounds DEF Reassembly
<1>a. ASSUME UNCHANGED inbox
      PROVE  /\ \A c, i : Torn(c, i)' <=> Torn(c, i)
             /\ \A c, i, no : Of(c, i, no)' <=> Of(c, i, no)
  BY <1>a DEF Torn, Of, Place, GoesOn
<1>1. CASE Connect \/ Disconnect
  <2>1. generation' = generation + 1 /\ UNCHANGED <<conn, task, inbox>>
    BY <1>1 DEF Connect, Disconnect, Bump
  <2>2. task.gen # generation' /\ task.gen <= generation'
    BY <1>0, <1>n, <2>1 DEF Untorn, Numbers
  <2>3. ~SameLink(task.gen)'
    BY <2>1, <2>2 DEF SameLink
  <2> QED
    BY <1>a, <2>1, <2>2, <2>3 DEF Untorn
<1>2. CASE PublishHandle
  <2>1. handler = "connecting" /\ handler' = "none" /\ UNCHANGED <<generation, task, inbox>>
    BY <1>2 DEF PublishHandle
  <2>2. task.sent > 0 => ~SameLink(task.gen)'
    BY <2>1 DEF Untorn, SameLink
  <2> QED
    BY <1>a, <2>1, <2>2 DEF Untorn
<1>3. CASE RetractHandle
  <2>1. conn' = Nobody /\ handler' = "dropped" /\ UNCHANGED <<generation, task, inbox>>
    BY <1>3 DEF RetractHandle
  <2> QED
    BY <1>a, <2>1 DEF Untorn, SameLink
<1>4. CASE ForgetClient \/ (\E on \in BOOLEAN : Subscribe(on)) \/ FirstWrite \/ LastWrite
           \/ UNCHANGED vars
  <2>1. UNCHANGED <<conn, generation, task, inbox>> /\ (handler' = handler \/ handler' = "none")
    BY <1>4 DEF ForgetClient, Subscribe, FirstWrite, LastWrite, vars, link
  <2> QED
    BY <1>a, <2>1 DEF Untorn, SameLink, Goes
<1>5. CASE Receive
  <2>1. /\ UNCHANGED <<conn, generation, handler, inbox>>
        /\ task'.gen = task.gen /\ task'.sent = 0 /\ task'.at = "dispatch"
    BY <1>5 DEF Receive, link, Commands
  <2>2. Waiting(1) /\ task'.cmd = queue[1]
    BY <1>5 DEF Receive, Commands, Waiting
  <2>3. \A c, i : ~Of(c, i, task'.cmd.no)
    BY <1>n, <2>2 DEF InOrder, Of, Numbers
  <2> QED
    BY <1>a, <2>1, <2>3 DEF Untorn
<1>6. CASE Dispatched
  <2>1. /\ UNCHANGED <<conn, generation, handler, inbox>> /\ task'.cmd = task.cmd
        /\ task'.gen = generation /\ task'.sent = 0 /\ task.sent = 0 /\ task'.at = "subscribe"
    BY <1>6 DEF Dispatched, link, Commands
  <2>2. \A c, i : ~Of(c, i, task'.cmd.no)
    BY <1>n, <2>1 DEF InOrder, Untorn, Of, Numbers
  <2> QED
    BY <1>0, <1>a, <1>n, <2>1, <2>2 DEF Untorn, Numbers
<1>7. CASE Subscribed \/ Refused
  <2>1. /\ UNCHANGED <<conn, generation, handler, inbox>> /\ task'.cmd = task.cmd
        /\ task'.gen = task.gen /\ task'.sent = task.sent /\ task'.at = "send"
    BY <1>7 DEF Subscribed, Refused, link, Commands
  <2>2. \A c, i : Torn(c, i) /\ Of(c, i, task.cmd.no) => task.gen # generation
    BY DEF Untorn
  <2> QED
    BY <1>a, <2>1, <2>2 DEF Untorn, SameLink, Goes
<1>8. CASE Checked
  <2>1. /\ UNCHANGED <<conn, generation, handler, inbox>> /\ task'.cmd = task.cmd
        /\ task'.gen = task.gen /\ task'.sent = task.sent
        /\ generation = task.gen /\ conn # Nobody
    BY <1>8 DEF Checked, SameLink, link, Commands
  <2>2. handler # "connecting"
    BY <2>1 DEF Reassembly
  <2> QED
    BY <1>a, <2>1, <2>2 DEF Untorn, SameLink, Goes
<1>9. CASE NoSubscriber \/ LinkDropped \/ GiveUp \/ AllSent
  <2>1. UNCHANGED <<conn, generation, handler, inbox>> /\ task' = Receiving
    BY <1>9 DEF NoSubscriber, LinkDropped, GiveUp, AllSent, link
  <2>2. task'.gen = 0 /\ task'.sent = 0 /\ task'.cmd.no = 0 /\ task'.at = "receive"
    BY <2>1 DEF Receiving, NoCommand
  <2>3. \A c, i : ~Of(c, i, task'.cmd.no)
    BY <1>n, <2>2 DEF InOrder, Of, Numbers
  <2> QED
    BY <1>0, <1>a, <2>1, <2>2, <2>3 DEF Untorn
<1>10. CASE Notify
  <2>1. PICK n \in Nat : n = Len(inbox[conn]) + 1 /\ OneMore(n)
    BY <1>10, NotifyAddsOne
  <2>2. /\ task.at = "notify" /\ conn # Nobody /\ UNCHANGED <<conn, generation, handler>>
        /\ task'.sent = task.sent + 1 /\ task'.cmd = task.cmd /\ task'.gen = task.gen
        /\ task'.at = "send"
    BY <1>10 DEF Notify, link, Commands
  <2>3. Goes(conn)'
    <3>1. inbox'[conn] = Append(inbox[conn], [to |-> task.cmd, k |-> task.sent + 1])
      BY <1>10, <2>1 DEF Notify, Delivered, OneMore
    <3>2. inbox[conn] \in Seq(SomePiece) /\ [to |-> task.cmd, k |-> task.sent + 1] \in SomePiece
      <4>1. task.cmd \in Numbered \cup {NoCommand} /\ task.sent \in Nat
        BY DEF Commands
      <4>2. conn \in Clients
        BY <2>1 DEF OneMore
      <4>3. inbox[conn] \in Seq(SomePiece)
        BY <4>2 DEF Delivered
      <4>4. [to |-> task.cmd, k |-> task.sent + 1] \in SomePiece
        BY <4>1 DEF SomePiece
      <4> QED
        BY <4>3, <4>4
    <3>3. /\ inbox'[conn] # <<>>
          /\ inbox'[conn][Len(inbox'[conn])] = [to |-> task.cmd, k |-> task.sent + 1]
      BY <3>1, <3>2, AppendProperties, EmptySeq
    <3> QED
      BY <2>2, <3>3 DEF Goes
  <2>4. handler # "connecting"
    BY <2>2 DEF Reassembly
  <2>5. ASSUME NEW c, NEW i, Of(c, i, task.cmd.no)' PROVE inbox'[c][i].k <= task'.sent
    <3>1. CASE c = conn /\ i = n
      BY <1>n, <2>1, <2>2, <3>1 DEF OneMore, Numbers
    <3>2. CASE ~(c = conn /\ i = n)
      <4>1. Of(c, i, task.cmd.no) /\ inbox'[c][i] = inbox[c][i]
        BY <2>1, <2>2, <2>5, <3>2 DEF OneMore, Of
      <4> QED
        BY <1>n, <2>2, <4>1 DEF Untorn, Numbers, Of
    <3> QED
      BY <3>1, <3>2
  <2>6. ASSUME NEW c, NEW i, Torn(c, i)', Of(c, i, task.cmd.no)' PROVE task.gen # generation
    <3>1. ~(Torn(c, i) /\ Of(c, i, task.cmd.no))
      BY <2>2 DEF Untorn
    <3>2. c = conn /\ i = n
      BY <2>1, <2>2, <2>6, <3>1 DEF OneMore, Of, Torn
    <3>3. task.sent > 0
      BY <1>n, <2>1, <2>6, <3>2 DEF OneMore, Torn, Numbers
    <3>4. Goes(conn) => GoesOn(c, i)'
      <4>1. inbox[conn] \in Seq(SomePiece) /\ conn \in Clients
        BY <2>1 DEF Delivered, OneMore
      <4>2. Goes(conn) => Place(conn, n - 1) /\ n - 1 = Len(inbox[conn])
        BY <2>1, <4>1, EmptySeq DEF Goes, Place
      <4> QED
        BY <2>1, <3>2, <4>2 DEF OneMore, Goes
    <3> QED
      BY <2>2, <2>6, <3>3, <3>4 DEF Untorn, SameLink, Torn
  <2> QED
    BY <1>0, <2>2, <2>3, <2>4, <2>5, <2>6 DEF Untorn
<1> QED
  BY <1>1, <1>2, <1>3, <1>4, <1>5, <1>6, <1>7, <1>8, <1>9, <1>10 DEF Next, Host, CmdTask

LEMMA LastOfItsReplyStep ==
    Commands /\ Delivered /\ Untorn /\ LastOfItsReply /\ [Next]_vars => LastOfItsReply'
<1> SUFFICES ASSUME Commands, Delivered, Untorn, LastOfItsReply, [Next]_vars
             PROVE  LastOfItsReply'
  OBVIOUS
<1>1. CASE UNCHANGED inbox
  BY <1>1 DEF LastOfItsReply, Torn, Of, Place, GoesOn
<1>2. CASE Notify
  <2>1. PICK n \in Nat : OneMore(n)
    BY <1>2, NotifyAddsOne
  <2>2. task.at = "notify"
    BY <1>2 DEF Notify
  <2>3. \A c, i : Place(c, i)' /\ ~(c = conn /\ i = n) => Place(c, i) /\ inbox'[c][i] = inbox[c][i]
    BY <2>1 DEF OneMore
  <2>4. inbox'[conn][n].k = task.sent + 1 /\ inbox'[conn][n].to.no = task.cmd.no
    BY <2>1 DEF OneMore
  <2>5. \A c, i : Torn(c, i)' /\ ~(c = conn /\ i = n) => Torn(c, i)
    BY <2>1, <2>3 DEF OneMore, Torn
  <2>6. \A c, i, no : Of(c, i, no)' /\ ~(c = conn /\ i = n) => Of(c, i, no)
    BY <2>3 DEF Of
  <2>7. \A c, i : Of(c, i, task.cmd.no) => inbox[c][i].k < task.sent + 1
    BY NumbersAreNumbers DEF Untorn, Of, Numbers
  <2>8. \A c, i : Torn(c, i) => Place(c, i) /\ inbox[c][i].to.no # task.cmd.no
    BY <2>2 DEF Untorn, Of, Torn
  <2>9. ASSUME NEW c, NEW i, NEW d, NEW j, Torn(c, i)', Of(d, j, inbox[c][i].to.no)',
               <<d, j>> # <<c, i>>
        PROVE  inbox'[d][j].k < inbox'[c][i].k
    <3>1. CASE c = conn /\ i = n
      <4>1. Of(d, j, task.cmd.no) /\ inbox'[d][j] = inbox[d][j]
        BY <2>3, <2>4, <2>9, <3>1 DEF Of
      <4> QED
        BY <2>4, <2>7, <3>1, <4>1
    <3>2. CASE ~(c = conn /\ i = n)
      <4>1. Torn(c, i) /\ inbox'[c][i] = inbox[c][i]
        BY <2>3, <2>5, <2>9, <3>2 DEF Torn
      <4>2. ~(d = conn /\ j = n)
        BY <2>4, <2>8, <2>9, <4>1 DEF Of
      <4>3. Of(d, j, inbox[c][i].to.no) /\ inbox'[d][j] = inbox[d][j]
        BY <2>3, <2>9, <4>1, <4>2 DEF Of
      <4> QED
        BY <2>9, <4>1, <4>3 DEF LastOfItsReply
    <3> QED
      BY <3>1, <3>2
  <2> QED
    BY <2>9 DEF LastOfItsReply
<1> QED
  BY <1>1, <1>2
  DEF Next, Host, CmdTask, vars, link, Connect, PublishHandle, Disconnect, RetractHandle,
      ForgetClient, Subscribe, FirstWrite, LastWrite, Receive, Dispatched, Subscribed,
      NoSubscriber, Checked, LinkDropped, Refused, GiveUp, AllSent

\* send_response(): however often clients come and go between its check of the
\* link and the notification, at most one piece of a reply reaches a client that
\* was not sent its beginning, and it is the last one anybody is sent.
THEOREM TornTailsEnd == Spec => []TornTailIsOnePiece
<1>1. Delivered /\ LastOfItsReply => TornTailIsOnePiece
  <2> SUFFICES ASSUME Delivered, LastOfItsReply,
                      NEW c \in Clients, NEW i \in DOMAIN inbox[c],
                      inbox[c][i].k > 1, ~GoesOn(c, i),
                      NEW d \in Clients, NEW j \in DOMAIN inbox[d],
                      inbox[d][j].to = inbox[c][i].to, <<d, j>> # <<c, i>>
               PROVE  inbox[d][j].k < inbox[c][i].k
    BY DEF TornTailIsOnePiece
  <2>1. Place(c, i) /\ Place(d, j)
    BY DEF Delivered, Place
  <2> QED
    BY <2>1 DEF LastOfItsReply, Torn, Of
<1> QED
  BY <1>1, ReassemblyInit, ReassemblyStep, CommandsInit, CommandsStep, DeliveredInit,
     DeliveredStep, InOrderInit, InOrderStep, UntornInit, UntornStep, LastOfItsReplyStep, PTL
  DEF Spec

-----------------------------------------------------------------------------
(***************************************************************************)
(* The counters.  A command completed is at one place: in a counter of     *)
(* lost ones, in the queue, in hand, or among the replies sent in full.    *)
(***************************************************************************)
InHand == IF task.cmd = NoCommand \/ (task.at = "send" /\ task.sent = Pieces) THEN 0 ELSE 1

Counters == [rx: Nat, tx: Nat, stalled: Nat]

Total(r, t, s, q, a, h) == r + t + s + q + a + h

Balance == completed = Total(drops.rx, drops.tx, drops.stalled, Len(queue),
                             Cardinality(Answered), InHand)

Counted ==
    /\ drops \in Counters
    /\ task.at = "receive" <=> task.cmd = NoCommand
    /\ task.sent <= Pieces
    /\ IsFiniteSet(Answered)
    /\ Balance

LEMMA CountedInit == Init => Counted
<1> SUFFICES ASSUME Init PROVE Counted
  OBVIOUS
<1>1. Answered = {}
  BY DEF Init, Answered
<1>2. IsFiniteSet(Answered) /\ Cardinality(Answered) = 0
  BY <1>1, FS_EmptySet
<1>3. Len(queue) = 0 /\ InHand = 0
  BY DEF Init, InHand, Receiving
<1> QED
  BY <1>2, <1>3, Bounds DEF Init, Counted, Counters, Balance, Total, Receiving

\* The last piece of a reply is one answer more, any other piece is none.
LEMMA NotifyAnswers ==
    ASSUME Delivered, Commands, Notify
    PROVE  IF task.sent + 1 = Pieces
           THEN \E a : a \notin Answered /\ Answered' = Answered \cup {a}
           ELSE Answered' = Answered
<1> DEFINE p == [to |-> task.cmd, k |-> task.sent + 1]
           n == Len(inbox[conn]) + 1
<1>1. conn \in Clients /\ inbox[conn] \in Seq(SomePiece)
  BY DEF Notify, Delivered
<1>2. /\ inbox'[conn] = Append(inbox[conn], p)
      /\ \A c \in Clients : c # conn => inbox'[c] = inbox[c]
  BY <1>1 DEF Notify, Delivered
<1>3. p \in SomePiece /\ p.k = task.sent + 1
  BY DEF Commands, SomePiece
<1>4. /\ DOMAIN inbox[conn] = 1 .. Len(inbox[conn]) /\ Len(inbox[conn]) \in Nat
      /\ DOMAIN inbox'[conn] = DOMAIN inbox[conn] \cup {n} /\ n \notin DOMAIN inbox[conn]
      /\ inbox'[conn][n] = p
      /\ \A i \in DOMAIN inbox[conn] : inbox'[conn][i] = inbox[conn][i]
  <2>1. inbox[conn] \in Seq(SomePiece) /\ p \in SomePiece
    BY <1>1, <1>3
  <2> HIDE DEF p
  <2>2. /\ Len(inbox'[conn]) = n /\ inbox'[conn] \in Seq(SomePiece)
        /\ inbox'[conn][n] = p
        /\ \A i \in 1 .. Len(inbox[conn]) : inbox'[conn][i] = inbox[conn][i]
    BY <1>2, <2>1, AppendProperties
  <2>3. DOMAIN inbox'[conn] = 1 .. n /\ Len(inbox[conn]) \in Nat
        /\ DOMAIN inbox[conn] = 1 .. Len(inbox[conn])
    BY <2>1, <2>2
  <2> QED
    BY <2>2, <2>3
<1> HIDE DEF p, n
<1>5. \A a : a \in Answered <=> \E c \in Clients : \E i \in DOMAIN inbox[c] :
                                  inbox[c][i].k = Pieces /\ a = <<c, i>>
  BY DEF Answered
<1>6. \A a : a \in Answered' <=> \E c \in Clients : \E i \in DOMAIN inbox'[c] :
                                  inbox'[c][i].k = Pieces /\ a = <<c, i>>
  BY DEF Answered
<1>7. \A a : a \in Answered' <=> a \in Answered \/ (task.sent + 1 = Pieces /\ a = <<conn, n>>)
  <2>1. ASSUME NEW c \in Clients, NEW i \in DOMAIN inbox'[c], inbox'[c][i].k = Pieces
        PROVE  <<c, i>> \in Answered \/ (task.sent + 1 = Pieces /\ <<c, i>> = <<conn, n>>)
    <3>1. CASE c = conn /\ i = n
      BY <1>3, <1>4, <2>1, <3>1
    <3>2. CASE ~(c = conn /\ i = n)
      <4>1. i \in DOMAIN inbox[c] /\ inbox[c][i].k = Pieces
        BY <1>2, <1>4, <2>1, <3>2
      <4> QED
        BY <1>5, <4>1
    <3> QED
      BY <3>1, <3>2
  <2>2. ASSUME NEW c \in Clients, NEW i \in DOMAIN inbox[c], inbox[c][i].k = Pieces
        PROVE  <<c, i>> \in Answered'
    <3>1. i \in DOMAIN inbox'[c] /\ inbox'[c][i].k = Pieces
      BY <1>2, <1>4, <2>2
    <3> QED
      BY <1>6, <3>1
  <2>3. task.sent + 1 = Pieces => <<conn, n>> \in Answered'
    BY <1>1, <1>3, <1>4, <1>6
  <2> QED
    BY <1>5, <1>6, <2>1, <2>2, <2>3
<1>8. <<conn, n>> \notin Answered
  BY <1>4, <1>5
<1> QED
  BY <1>7, <1>8

\* One counter goes up, the others stay.
LEMMA OneDropMore ==
    ASSUME NEW d \in Counters, NEW n \in Nat
    PROVE  /\ [d EXCEPT !.rx = n] = [rx |-> n, tx |-> d.tx, stalled |-> d.stalled]
           /\ [d EXCEPT !.tx = n] = [rx |-> d.rx, tx |-> n, stalled |-> d.stalled]
           /\ [d EXCEPT !.stalled = n] = [rx |-> d.rx, tx |-> d.tx, stalled |-> n]
BY DEF Counters

LEMMA CountedStep ==
    Reassembly /\ Commands /\ Delivered /\ Counted /\ [Next]_vars => Counted'
<1> SUFFICES ASSUME Reassembly, Commands, Delivered, Counted, [Next]_vars PROVE Counted'
  OBVIOUS
<1>0. /\ queue \in Seq(Numbered) /\ Len(queue) \in Nat /\ Cardinality(Answered) \in Nat
      /\ task.sent \in Nat /\ completed \in Nat
      /\ drops.rx \in Nat /\ drops.tx \in Nat /\ drops.stalled \in Nat
      /\ Pieces \in Nat /\ Pieces > 0
  BY FS_CardinalityType, Bounds DEF Commands, Counted, Counters
<1>a. ASSUME inbox' = inbox
      PROVE  Answered' = Answered
  BY <1>a DEF Answered
<1>b. Balance /\ InHand \in Nat
  BY DEF Counted, InHand
<1> DEFINE r == drops.rx
           t == drops.tx
           s == drops.stalled
           q == Len(queue)
           a == Cardinality(Answered)
\* A command comes in; the task takes one; it gives one up or answers it.
<1>c. /\ Total(r + 1, t, s, q, a, InHand) = completed + 1
      /\ Total(r, t, s, q + 1, a, InHand) = completed + 1
      /\ InHand = 0 => Total(r, t, s, q - 1, a, 1) = completed
      /\ InHand = 1 => /\ Total(r, t + 1, s, q, a, 0) = completed
                       /\ Total(r, t, s + 1, q, a, 0) = completed
                       /\ Total(r, t, s, q, a + 1, 0) = completed
  <2>1. /\ r \in Nat /\ t \in Nat /\ s \in Nat /\ q \in Nat /\ a \in Nat
        /\ InHand \in Nat /\ completed = Total(r, t, s, q, a, InHand)
    BY <1>0, <1>b DEF Balance
  <2> HIDE DEF r, t, s, q, a
  <2> QED
    BY <2>1 DEF Total
<1>1. CASE UNCHANGED <<queue, task, inbox, drops, completed>>
  BY <1>1, <1>a DEF Counted, Balance, InHand
<1>2. CASE LastWrite
  <2> DEFINE c == [first |-> rx, last |-> conn, no |-> completed + 1]
  <2>1. /\ UNCHANGED <<task, inbox>> /\ completed' = completed + 1 /\ OnMessage(c)
    BY <1>2 DEF LastWrite
  <2>2. c \in Numbered
    BY <1>0 DEF Reassembly, Numbered
  <2>3. InHand' = InHand /\ Answered' = Answered
    BY <2>1, <1>a DEF InHand
  <2> HIDE DEF c
  <2>4. CASE queue' = Append(queue, c) /\ UNCHANGED drops
    <3>1. Len(queue') = Len(queue) + 1
      BY <1>0, <2>2, <2>4
    <3> QED
      <4>1. task' = task
        BY <2>1
      <4>2. completed' = completed + 1 /\ drops' = drops
        BY <2>1, <2>4
      <4>3. Balance'
        BY <2>3, <3>1, <1>c, <4>2 DEF Balance
      <4> QED
        BY <2>3, <2>4, <4>1, <4>3 DEF Counted
  <2>5. CASE drops' = [drops EXCEPT !.rx = @ + 1] /\ UNCHANGED queue
    <3>1. queue' = queue /\ drops' = [drops EXCEPT !.rx = drops.rx + 1]
      BY <2>5
    <3>2. /\ drops' \in Counters /\ drops'.rx = drops.rx + 1
          /\ drops'.tx = drops.tx /\ drops'.stalled = drops.stalled
      <4>1. drops.rx + 1 \in Nat /\ drops \in Counters
        BY <1>0 DEF Counted
      <4>2. drops' = [rx |-> drops.rx + 1, tx |-> drops.tx, stalled |-> drops.stalled]
        BY <3>1, <4>1, OneDropMore
      <4> QED
        BY <1>0, <4>1, <4>2 DEF Counters
    <3> QED
      <4>1. task' = task
        BY <2>1
      <4>2. completed' = completed + 1
        BY <2>1
      <4>3. Balance'
        BY <2>3, <3>1, <3>2, <1>c, <4>2 DEF Balance
      <4> QED
        BY <2>3, <3>2, <4>1, <4>3 DEF Counted
  <2> QED
    BY <2>1, <2>4, <2>5 DEF OnMessage
<1>3. CASE Receive
  <2>1. /\ task.at = "receive" /\ queue # <<>> /\ queue' = Tail(queue)
        /\ task' = [task EXCEPT !.at = "dispatch", !.cmd = Head(queue)]
        /\ UNCHANGED <<inbox, drops, completed>>
    BY <1>3 DEF Receive
  <2>2. Head(queue) \in Numbered /\ Len(queue') = Len(queue) - 1
    BY <1>0, <2>1
  <2>3. Head(queue) # NoCommand
    <3>1. DOMAIN Head(queue) = {"first", "last", "no"} /\ DOMAIN NoCommand = {"no"}
      BY <2>2 DEF Numbered, NoCommand
    <3> QED
      BY <3>1
  <2>4. task'.at = "dispatch" /\ task'.cmd = Head(queue) /\ task'.sent = task.sent
    BY <2>1 DEF Commands
  <2>5. InHand = 0 /\ InHand' = 1
    BY <2>1, <2>3, <2>4 DEF InHand, Counted
  <2>6. Balance'
    BY <1>a, <2>1, <2>2, <2>5, <1>b, <1>c DEF Balance
  <2> QED
    BY <1>0, <1>a, <2>1, <2>2, <2>3, <2>4, <2>5, <2>6 DEF Counted
<1>4. CASE Dispatched \/ Subscribed
  <2>1. /\ UNCHANGED <<queue, inbox, drops, completed>>
        /\ task.at \in {"dispatch", "subscribe"} /\ task'.at \in {"subscribe", "send"}
        /\ task'.cmd = task.cmd /\ (task'.sent = 0 \/ task'.sent = task.sent)
        /\ task'.at = "send" => task'.sent = task.sent
    BY <1>4 DEF Dispatched, Subscribed, Commands
  <2>2. task.cmd # NoCommand /\ task'.sent = 0
    BY <2>1 DEF Counted, Commands
  <2>3. InHand = 1 /\ InHand' = 1
    BY <1>0, <2>1, <2>2 DEF InHand
  <2>6. Balance'
    BY <1>a, <2>1, <2>3, <1>b, <1>c DEF Balance
  <2> QED
    BY <1>0, <1>a, <2>1, <2>2, <2>3, <2>6 DEF Counted
<1>5. CASE NoSubscriber
  <2>1. /\ UNCHANGED <<queue, inbox, completed>> /\ task.at = "subscribe" /\ task' = Receiving
        /\ drops' = [drops EXCEPT !.tx = drops.tx + 1]
    BY <1>5 DEF NoSubscriber
  <2>2. InHand = 1 /\ InHand' = 0
    BY <2>1 DEF InHand, Counted, Receiving
  <2>3. /\ drops' \in Counters /\ drops'.tx = drops.tx + 1
        /\ drops'.rx = drops.rx /\ drops'.stalled = drops.stalled
    <3>1. drops.tx + 1 \in Nat /\ drops \in Counters
      BY <1>0 DEF Counted
    <3>2. drops' = [rx |-> drops.rx, tx |-> drops.tx + 1, stalled |-> drops.stalled]
      BY <2>1, <3>1, OneDropMore
    <3> QED
      BY <1>0, <3>1, <3>2 DEF Counters
  <2>6. Balance'
    BY <1>a, <2>1, <2>2, <2>3, <1>b, <1>c DEF Balance
  <2> QED
    BY <1>0, <1>a, <2>1, <2>2, <2>3, <2>6 DEF Counted, Receiving
<1>6. CASE LinkDropped \/ GiveUp
  <2>1. /\ UNCHANGED <<queue, inbox, completed>> /\ task.at \in {"send", "notify"}
        /\ task.sent < Pieces
        /\ task' = Receiving /\ drops' = [drops EXCEPT !.stalled = drops.stalled + 1]
    BY <1>6 DEF LinkDropped, GiveUp, Commands
  <2>2. InHand = 1 /\ InHand' = 0
    BY <1>0, <2>1 DEF InHand, Counted, Receiving
  <2>3. /\ drops' \in Counters /\ drops'.stalled = drops.stalled + 1
        /\ drops'.rx = drops.rx /\ drops'.tx = drops.tx
    <3>1. drops.stalled + 1 \in Nat /\ drops \in Counters
      BY <1>0 DEF Counted
    <3>2. drops' = [rx |-> drops.rx, tx |-> drops.tx, stalled |-> drops.stalled + 1]
      BY <2>1, <3>1, OneDropMore
    <3> QED
      BY <1>0, <3>1, <3>2 DEF Counters
  <2>6. Balance'
    BY <1>a, <2>1, <2>2, <2>3, <1>b, <1>c DEF Balance
  <2> QED
    BY <1>0, <1>a, <2>1, <2>2, <2>3, <2>6 DEF Counted, Receiving
<1>7. CASE AllSent
  <2>1. /\ UNCHANGED <<queue, inbox, drops, completed>> /\ task.at = "send"
        /\ task.sent = Pieces /\ task' = Receiving
    BY <1>7 DEF AllSent
  <2>2. InHand = 0 /\ InHand' = 0
    BY <2>1 DEF InHand, Receiving
  <2>6. Balance'
    BY <1>a, <2>1, <2>2, <1>b, <1>c DEF Balance
  <2> QED
    BY <1>0, <1>a, <2>1, <2>2, <2>6 DEF Counted, Receiving
<1>8. CASE Notify
  <2>1. /\ task.at = "notify" /\ task.sent < Pieces /\ UNCHANGED <<queue, drops, completed>>
        /\ task' = [task EXCEPT !.at = "send", !.sent = task.sent + 1]
    BY <1>8 DEF Notify, Commands
  <2>2. /\ task'.at = "send" /\ task'.cmd = task.cmd /\ task'.sent = task.sent + 1
        /\ task.cmd # NoCommand
    BY <2>1 DEF Commands, Counted
  <2>3. InHand = 1 /\ InHand' = IF task.sent + 1 = Pieces THEN 0 ELSE 1
    BY <1>0, <2>1, <2>2 DEF InHand
  <2>4. /\ IsFiniteSet(Answered')
        /\ IF task.sent + 1 = Pieces THEN Cardinality(Answered') = a + 1 ELSE Answered' = Answered
    BY <1>0, <1>8, NotifyAnswers, FS_AddElement DEF Counted
  <2>6. Balance'
    <3>1. CASE task.sent + 1 = Pieces
      BY <1>c, <2>1, <2>3, <2>4, <3>1 DEF Balance
    <3>2. CASE task.sent + 1 # Pieces
      BY <1>b, <2>1, <2>3, <2>4, <3>2 DEF Balance
    <3> QED
      BY <3>1, <3>2
  <2> QED
    BY <1>0, <1>a, <2>1, <2>2, <2>3, <2>4, <2>6 DEF Counted
<1>9. CASE Checked \/ Refused
  <2>1. /\ UNCHANGED <<queue, inbox, drops, completed>> /\ task.sent < Pieces
        /\ task.at \in {"send", "notify"} /\ task'.at \in {"send", "notify"}
        /\ task'.cmd = task.cmd /\ task'.sent = task.sent
    BY <1>9 DEF Checked, Refused, Commands
  <2>2. InHand = 1 /\ InHand' = 1
    BY <1>0, <2>1 DEF InHand, Counted
  <2>6. Balance'
    BY <1>a, <2>1, <2>2, <1>b DEF Balance
  <2> QED
    BY <1>0, <1>a, <2>1, <2>6 DEF Counted
<1> QED
  BY <1>1, <1>2, <1>3, <1>4, <1>5, <1>6, <1>7, <1>8, <1>9
  DEF Next, Host, CmdTask, vars, link, Connect, PublishHandle, Disconnect, RetractHandle,
      ForgetClient, Subscribe, FirstWrite

\* get_info: for any number of clients, commands, queue places and pieces the
\* counters, the queue, the task and the replies sent in full add up.
THEOREM NoCommandIsForgotten == Spec => []EveryCommandIsAccountedFor
<1>1. Counted => EveryCommandIsAccountedFor
  BY DEF Counted, Balance, Total, InHand, EveryCommandIsAccountedFor
<1> QED
  BY <1>1, ReassemblyInit, ReassemblyStep, CommandsInit, CommandsStep, DeliveredInit,
     DeliveredStep, CountedInit, CountedStep, PTL DEF Spec

-----------------------------------------------------------------------------
(***************************************************************************)
(* Types.  That each counter stays below MaxCommands is the accounting     *)
(* again: it is one of the terms of a sum that is `completed'.             *)
(***************************************************************************)
LinkTypes ==
    /\ conn \in Clients \cup {Nobody} /\ rx \in Clients \cup {Nobody}
    /\ generation \in 0 .. MaxGeneration /\ subscribed \in BOOLEAN
    /\ handler \in {"none", "connecting", "dropping", "dropped"}
    /\ handler = "connecting" => generation \in Clients

TaskTypes ==
    /\ queue \in Seq(Command) /\ Len(queue) <= QueueDepth
    /\ task \in Task /\ (task.at # "receive" => task.cmd \in Command)
    /\ inbox \in [Clients -> Seq(Piece)]
    /\ completed \in 0 .. MaxCommands

LEMMA LinkTypesStep == LinkTypes /\ [Next]_vars => LinkTypes'
<1> SUFFICES ASSUME LinkTypes, [Next]_vars PROVE LinkTypes'
  OBVIOUS
<1> USE Bounds DEF LinkTypes, Clients, Nobody
<1>1. CASE UNCHANGED <<link, rx>>
  BY <1>1 DEF link
<1>2. CASE Connect \/ Disconnect
  BY <1>2 DEF Connect, Disconnect, Bump
<1>3. CASE PublishHandle
  BY <1>3 DEF PublishHandle
<1>4. CASE RetractHandle \/ ForgetClient
  BY <1>4 DEF RetractHandle, ForgetClient
<1>5. ASSUME NEW on \in BOOLEAN, Subscribe(on) PROVE LinkTypes'
  BY <1>5 DEF Subscribe
<1>6. CASE FirstWrite \/ LastWrite
  BY <1>6 DEF FirstWrite, LastWrite, link
<1>7. CASE CmdTask \/ UNCHANGED vars
  BY <1>1, <1>7 DEF CmdTask, Receive, Dispatched, Subscribed, NoSubscriber, Checked,
     LinkDropped, Notify, Refused, GiveUp, AllSent, vars
<1> QED
  BY <1>2, <1>3, <1>4, <1>5, <1>6, <1>7 DEF Next, Host

LEMMA TaskTypesStep == Commands /\ LinkTypes /\ TaskTypes /\ [Next]_vars => TaskTypes'
<1> SUFFICES ASSUME Commands, LinkTypes, TaskTypes, [Next]_vars PROVE TaskTypes'
  OBVIOUS
<1> USE DEF TaskTypes
<1>1. CASE UNCHANGED <<queue, task, inbox, completed>>
  BY <1>1
<1>2. CASE LastWrite
  <2> DEFINE c == [first |-> rx, last |-> conn, no |-> completed + 1]
  <2>1. completed' = completed + 1 /\ completed' \in 1 .. MaxCommands /\ UNCHANGED <<task, inbox>>
    BY <1>2, Bounds DEF LastWrite
  <2>2. c \in Command
    BY <1>2, <2>1, Bounds DEF LastWrite, Command, LinkTypes
  <2>3. \/ queue' = queue
        \/ queue' = Append(queue, c) /\ Len(queue) < QueueDepth
    BY <1>2 DEF LastWrite, OnMessage
  <2> HIDE DEF c
  <2>4. queue' \in Seq(Command) /\ Len(queue') <= QueueDepth
    BY <2>2, <2>3, Bounds
  <2> QED
    BY <2>1, <2>4
<1>3. CASE Receive
  <2>1. Head(queue) \in Command /\ Tail(queue) \in Seq(Command) /\ Len(Tail(queue)) = Len(queue) - 1
    BY <1>3 DEF Receive
  <2>2. queue' = Tail(queue) /\ UNCHANGED <<inbox, completed>>
    BY <1>3 DEF Receive
  <2>3. task' = [task EXCEPT !.at = "dispatch", !.cmd = Head(queue)]
    BY <1>3 DEF Receive
  <2>4. task' \in Task /\ task'.cmd \in Command
    BY <2>1, <2>3 DEF Task
  <2> QED
    BY <2>1, <2>2, <2>4, Bounds
<1>4. CASE Dispatched
  <2>1. task' \in Task /\ task'.cmd = task.cmd /\ task.at = "dispatch"
    <3>1. generation \in 0 .. MaxGeneration /\ 0 \in 0 .. Pieces
      BY Bounds DEF LinkTypes
    <3> QED
      BY <1>4, <3>1 DEF Dispatched, Task
  <2> QED
    BY <1>4, <2>1 DEF Dispatched
<1>5. CASE Subscribed \/ Checked \/ Refused
  <2>1. task' \in Task /\ task'.cmd = task.cmd /\ task.at # "receive"
    BY <1>5 DEF Subscribed, Checked, Refused, Task
  <2> QED
    BY <1>5, <2>1 DEF Subscribed, Checked, Refused
<1>6. CASE NoSubscriber \/ LinkDropped \/ GiveUp \/ AllSent
  <2>1. Receiving \in Task /\ Receiving.at = "receive"
    BY Bounds DEF Receiving, Task
  <2> QED
    BY <1>6, <2>1 DEF NoSubscriber, LinkDropped, GiveUp, AllSent
<1>7. CASE Notify
  <2> DEFINE piece == [to |-> task.cmd, k |-> task.sent + 1]
  <2>1. task.sent \in 0 .. Pieces /\ task.sent < Pieces /\ task.cmd \in Command
    BY <1>7 DEF Notify, Task, Commands
  <2>2. piece \in Piece
    BY <2>1, Bounds DEF Piece
  <2>3. conn \in Clients /\ inbox' = [inbox EXCEPT ![conn] = Append(@, piece)]
    BY <1>7 DEF Notify, LinkTypes
  <2> HIDE DEF piece
  <2>4. inbox' \in [Clients -> Seq(Piece)]
    BY <2>2, <2>3
  <2>5. task' \in Task /\ task'.cmd = task.cmd
    <3>1. task' = [task EXCEPT !.at = "send", !.sent = task.sent + 1]
      BY <1>7 DEF Notify
    <3>2. task.sent + 1 \in 0 .. Pieces
      BY <2>1, Bounds
    <3> QED
      BY <3>1, <3>2 DEF Task
  <2> QED
    BY <1>7, <2>1, <2>4, <2>5 DEF Notify
<1> QED
  BY <1>1, <1>2, <1>3, <1>4, <1>5, <1>6, <1>7 DEF Next, Host, CmdTask, vars, Connect,
     PublishHandle, Disconnect, RetractHandle, ForgetClient, Subscribe, FirstWrite

LEMMA TermsOfSum ==
    ASSUME NEW r \in Nat, NEW t \in Nat, NEW s \in Nat, NEW q \in Nat, NEW a \in Nat,
           NEW h \in Nat, NEW m \in Nat, r + t + s + q + a + h \in 0 .. m
    PROVE  r \in 0 .. m /\ t \in 0 .. m /\ s \in 0 .. m
OBVIOUS

LEMMA TypesSuffice == LinkTypes /\ TaskTypes /\ Counted => TypeOK
<1> SUFFICES ASSUME LinkTypes, TaskTypes, Counted PROVE TypeOK
  OBVIOUS
<1>1. /\ drops.rx \in Nat /\ drops.tx \in Nat /\ drops.stalled \in Nat /\ drops \in Counters
      /\ completed = drops.rx + drops.tx + drops.stalled + Len(queue) + Cardinality(Answered) + InHand
  BY DEF Counted, Counters, Balance, Total
<1>2. Cardinality(Answered) \in Nat /\ Len(queue) \in Nat /\ InHand \in Nat
  BY FS_CardinalityType DEF Counted, TaskTypes, InHand
<1>3. completed \in 0 .. MaxCommands /\ MaxCommands \in Nat
  BY Bounds DEF TaskTypes
<1>4. /\ drops.rx \in 0 .. MaxCommands /\ drops.tx \in 0 .. MaxCommands
      /\ drops.stalled \in 0 .. MaxCommands
  <2> DEFINE total == drops.rx + drops.tx + drops.stalled + Len(queue) +
                      Cardinality(Answered) + InHand
  <2>1. total \in 0 .. MaxCommands
    BY <1>1, <1>3
  <2> QED
    <3> HIDE DEF total
    <3>1. total = drops.rx + drops.tx + drops.stalled + Len(queue) + Cardinality(Answered) + InHand
      BY DEF total
    <3>2. /\ drops.rx \in Nat /\ drops.tx \in Nat /\ drops.stalled \in Nat
          /\ Len(queue) \in Nat /\ Cardinality(Answered) \in Nat /\ InHand \in Nat
          /\ MaxCommands \in Nat
          /\ drops.rx + drops.tx + drops.stalled + Len(queue) + Cardinality(Answered) + InHand
                \in 0 .. MaxCommands
      BY <1>1, <1>2, <1>3, <2>1, <3>1
    <3> QED
      BY ONLY <3>2, TermsOfSum
<1>5. drops \in Drops
  BY <1>1, <1>4 DEF Counters, Drops
<1> QED
  BY <1>5 DEF TypeOK, LinkTypes, TaskTypes

\* The variables have their types; no counter exceeds what clients completed.
THEOREM TypeCorrect == Spec => []TypeOK
<1>1. Init => LinkTypes /\ TaskTypes
  <2> SUFFICES ASSUME Init PROVE LinkTypes /\ TaskTypes
    OBVIOUS
  <2>1. Receiving \in Task /\ Receiving.at = "receive"
    BY Bounds DEF Receiving, Task
  <2> QED
    <3>1. LinkTypes
      <4>1. 0 \in 0 .. MaxGeneration
        BY Bounds
      <4> QED
        BY <4>1 DEF Init, LinkTypes
    <3>2. <<>> \in Seq(Command) /\ Len(<<>>) <= QueueDepth /\ <<>> \in Seq(Piece)
      BY Bounds
    <3>3. inbox \in [Clients -> Seq(Piece)]
      BY <3>2 DEF Init
    <3> QED
      BY <2>1, <3>1, <3>2, <3>3, Bounds DEF Init, TaskTypes
<1> QED
  BY <1>1, TypesSuffice, LinkTypesStep, TaskTypesStep, ReassemblyInit, ReassemblyStep,
     CommandsInit, CommandsStep, DeliveredInit, DeliveredStep, CountedInit, CountedStep, PTL
  DEF Spec
=============================================================================
