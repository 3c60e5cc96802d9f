--------------------------- MODULE ApprovalProofs ---------------------------
(***************************************************************************)
(* Proofs about Approval, for every hold, bounce, debounce and deadline,   *)
(* and for every spacing of the polls: the few flags that approval.c keeps *)
(* say of the whole history of a prompt what the owner did.                *)
(***************************************************************************)
EXTENDS Approval, SequenceTheorems, TLAPS

LEMMA Times ==
    /\ Hold \in Nat /\ Hold > 0 /\ Bounce \in Nat /\ Bounce > 0
    /\ Debounce \in Nat /\ Debounce > 0 /\ Timeout \in Nat /\ MaxPoll \in Nat
BY ApprovalAssumption

\* The log, in the order of time.
Logged ==
    /\ log \in Seq(Poll)
    /\ \A i, j \in 1 .. Len(log) : i <= j => log[i].at <= log[j].at

Since ==
    /\ holdSince \in Nat \cup {None} /\ releaseSince \in Nat \cup {None}
    /\ cancelSince \in Nat \cup {None}

\* What one poll adds to it.
LEMMA OneMorePoll ==
    ASSUME Logged, NEW t \in Now .. Now + MaxPoll, NEW a \in BOOLEAN, NEW c \in BOOLEAN,
           log' = Append(log, [at |-> t, approve |-> a, cancel |-> c])
    PROVE  /\ log' \in Seq(Poll) /\ Last \in Nat /\ Last' = Last + 1 /\ t \in Nat
           /\ log'[Last + 1].at = t
           /\ log'[Last + 1].approve = a /\ log'[Last + 1].cancel = c
           /\ \A i \in 1 .. Last : log'[i] = log[i] /\ log[i].at \in Nat /\ log[i].at <= t
<1>1. log \in Seq(Poll) /\ Last \in Nat
  BY DEF Logged, Last
<1>2. Now \in Nat /\ \A i \in 1 .. Last : log[i].at \in Nat /\ log[i].at <= Now
  <2>1. CASE log = <<>>
    BY <2>1 DEF Now, Last
  <2>2. CASE log # <<>>
    <3>1. Last \in 1 .. Last /\ Now = log[Last].at
      BY <1>1, <2>2, EmptySeq DEF Now, Last
    <3>2. \A i \in 1 .. Last : log[i] \in Poll
      BY <1>1 DEF Last
    <3> QED
      BY <3>1, <3>2 DEF Logged, Last, Poll, Time
  <2> QED
    BY <2>1, <2>2
<1>3. t \in Nat /\ Now <= t
  BY <1>2, Times
<1>4. [at |-> t, approve |-> a, cancel |-> c] \in Poll
  BY <1>3 DEF Poll, Time
<1>5. /\ log' \in Seq(Poll) /\ Last' = Last + 1
      /\ log'[Last + 1] = [at |-> t, approve |-> a, cancel |-> c]
      /\ \A i \in 1 .. Last : log'[i] = log[i]
  BY <1>1, <1>4, AppendProperties DEF Last
<1>6. log'[Last + 1].at = t /\ log'[Last + 1].approve = a /\ log'[Last + 1].cancel = c
  <2>1. ASSUME NEW r, r = [at |-> t, approve |-> a, cancel |-> c]
        PROVE  r.at = t /\ r.approve = a /\ r.cancel = c
    BY <2>1
  <2> QED
    BY <1>5, <2>1, Zenon
<1>7. \A i \in 1 .. Last : log[i].at <= t
  BY <1>2, <1>3
<1> QED
  BY <1>1, <1>2, <1>3, <1>5, <1>6, <1>7, Zenon

LEMMA Steps ==
    ASSUME [Next]_vars
    PROVE  \/ Begin \/ UNCHANGED vars
           \/ \E t \in Now .. Now + MaxPoll, a, c \in BOOLEAN : PollButtons(t, a, c)
BY DEF Next

LEMMA LoggedInit == Init => Logged
BY DEF Init, Logged

LEMMA LoggedStep == Logged /\ [Next]_vars => Logged'
<1> SUFFICES ASSUME Logged, [Next]_vars PROVE Logged'
  OBVIOUS
<1>1. ASSUME NEW t \in Now .. Now + MaxPoll, NEW a \in BOOLEAN, NEW c \in BOOLEAN,
             PollButtons(t, a, c)
      PROVE  Logged'
  <2>1. log' = Append(log, [at |-> t, approve |-> a, cancel |-> c])
    BY <1>1 DEF PollButtons
  <2>2. /\ log' \in Seq(Poll) /\ Last \in Nat /\ Last' = Last + 1 /\ t \in Nat
        /\ log'[Last + 1].at = t
        /\ \A i \in 1 .. Last : log'[i] = log[i] /\ log[i].at \in Nat /\ log[i].at <= t
    BY <2>1, OneMorePoll
  <2>3. ASSUME NEW i \in 1 .. Last + 1, NEW j \in 1 .. Last + 1, i <= j
        PROVE  log'[i].at <= log'[j].at
    <3>1. CASE j = Last + 1
      <4>1. i \in 1 .. Last \/ i = Last + 1
        BY <2>2
      <4> QED
        BY <2>2, <3>1, <4>1
    <3>2. CASE j # Last + 1
      <4>1. i \in 1 .. Last /\ j \in 1 .. Last
        BY <2>2, <2>3, <3>2
      <4> QED
        BY <2>2, <2>3, <4>1 DEF Logged, Last
    <3> QED
      BY <3>1, <3>2
  <2> QED
    BY <2>2, <2>3 DEF Logged, Last
<1>2. CASE Begin
  BY <1>2 DEF Begin, Logged
<1>3. CASE UNCHANGED vars
  BY <1>3 DEF vars, Logged
<1> QED
  BY <1>1, <1>2, <1>3, Steps

-----------------------------------------------------------------------------
(***************************************************************************)
(* The end of a prompt.                                                    *)
(***************************************************************************)
LEMMA LingersInit == Init => NeverLingers
BY Times DEF Init, NeverLingers, Now

LEMMA LingersStep == Logged /\ NeverLingers /\ [Next]_vars => NeverLingers'
<1> SUFFICES ASSUME Logged, NeverLingers, [Next]_vars PROVE NeverLingers'
  OBVIOUS
<1>1. ASSUME NEW t \in Now .. Now + MaxPoll, NEW a \in BOOLEAN, NEW c \in BOOLEAN,
             PollButtons(t, a, c)
      PROVE  NeverLingers'
  <2>1. log' = Append(log, [at |-> t, approve |-> a, cancel |-> c])
    BY <1>1 DEF PollButtons
  <2>2. Now' = t /\ t \in Nat
    BY <2>1, OneMorePoll, EmptySeq DEF Now, Last
  <2>3. PICK down, held, cancelled : state' = Verdict(down, held, cancelled, t)
    BY <1>1 DEF PollButtons
  <2>4. /\ state' = "pending" => t < Timeout + Hold
        /\ state' = "expired" => t >= Timeout
    BY <2>2, <2>3, Times DEF Verdict, Finishing
  <2> QED
    BY <2>2, <2>4 DEF NeverLingers
<1>2. CASE Begin
  <2>1. state' = "pending" /\ Now' = 0
    BY <1>2 DEF Begin, Now
  <2> QED
    BY <2>1, Times DEF NeverLingers
<1>3. CASE UNCHANGED vars
  BY <1>3 DEF vars, NeverLingers, Now
<1> QED
  BY <1>1, <1>2, <1>3, Steps

\* approval.c: a prompt nobody answers ends by itself, and not before its time.
THEOREM PromptsEnd == Spec => []NeverLingers
BY LoggedInit, LoggedStep, LingersInit, LingersStep, PTL DEF Spec

-----------------------------------------------------------------------------
(***************************************************************************)
(* Denial: cancel_stale says that the owner has not let go of cancel yet,  *)
(* and cancel_since_us when the press that the polls still see began.      *)
(***************************************************************************)
Pressed(i) == SeenUp("cancel", i) /\ \A j \in i .. Last : log[j].cancel

CancelStaleIs == cancelStale <=> \A j \in 1 .. Last : log[j].cancel

CancelSinceIs ==
    /\ cancelSince = None => \A i \in 1 .. Last : ~Pressed(i)
    /\ cancelSince # None => /\ \E i \in 1 .. Last : Pressed(i) /\ log[i].at = cancelSince
                            /\ \A i \in 1 .. Last : Pressed(i) => cancelSince <= log[i].at

CancelFlags == state = "pending" => CancelStaleIs /\ CancelSinceIs

RefusedIs == Refused <=> \E i \in 1 .. Last : Pressed(i) /\ log[Last].at >= log[i].at + Debounce

LEMMA RefusedMeans == Logged => RefusedIs
<1> SUFFICES ASSUME Logged PROVE RefusedIs
  OBVIOUS
<1>1. Polls = 1 .. Last
  BY DEF Logged, Polls, Last
<1> QED
  BY <1>1, Zenon DEF RefusedIs, Refused, DownFor, Pressed

\* Which presses of cancel the polls see once there is one more.
LEMMA PressedThen ==
    ASSUME Logged, NEW t \in Now .. Now + MaxPoll, NEW a \in BOOLEAN, NEW c \in BOOLEAN,
           log' = Append(log, [at |-> t, approve |-> a, cancel |-> c]),
           NEW n \in Nat, n = Last + 1
    PROVE  /\ \A i \in 1 .. Last : Pressed(i)' <=> Pressed(i) /\ c
           /\ Pressed(n)' <=> c /\ \E j \in 1 .. Last : ~log[j].cancel
<1>1. /\ Last \in Nat /\ Last' = Last + 1 /\ log'[Last + 1].cancel = c
      /\ \A i \in 1 .. Last : log'[i] = log[i]
  BY OneMorePoll
<1>2. ASSUME NEW i \in 1 .. Last + 1
      PROVE  SeenUp("cancel", i)' <=> \E j \in 1 .. i - 1 : ~log[j].cancel
  <2>0. i \in Nat /\ i <= Last + 1 /\ i >= 1
    BY <1>1
  <2>1. \A j \in 1 .. i - 1 : log'[j] = log[j]
    <3>1. \A j \in 1 .. i - 1 : j \in 1 .. Last
      BY <1>1, <2>0
    <3> QED
      BY <1>1, <3>1
  <2> QED
    BY <2>1 DEF SeenUp
<1>3. ASSUME NEW i \in 1 .. Last
      PROVE  (\A j \in i .. Last' : log'[j].cancel) <=> c /\ \A j \in i .. Last : log[j].cancel
  <2>1. i .. Last' = (i .. Last) \cup {Last + 1}
    BY <1>1
  <2>2. \A j \in i .. Last : log'[j] = log[j]
    <3>1. \A j \in i .. Last : j \in 1 .. Last
      BY <1>1
    <3> QED
      BY <1>1, <3>1
  <2> QED
    BY <1>1, <2>1, <2>2
<1>4. \A i \in 1 .. Last : SeenUp("cancel", i) <=> \E j \in 1 .. i - 1 : ~log[j].cancel
  BY DEF SeenUp
<1>5. n - 1 = Last /\ n \in 1 .. Last + 1 /\ \A i \in 1 .. Last : i \in 1 .. Last + 1
  BY <1>1
<1>6. (\A j \in n .. Last' : log'[j].cancel) <=> c
  <2>1. n .. Last' = {n}
    BY <1>1
  <2> QED
    BY <1>1, <2>1
<1>7. ASSUME NEW i \in 1 .. Last PROVE Pressed(i)' <=> Pressed(i) /\ c
  <2>1. SeenUp("cancel", i)' <=> SeenUp("cancel", i)
    BY <1>2, <1>4, <1>5
  <2>2. (\A j \in i .. Last' : log'[j].cancel) <=> c /\ \A j \in i .. Last : log[j].cancel
    BY <1>3
  <2> QED
    BY <2>1, <2>2, Zenon DEF Pressed
<1>8. Pressed(n)' <=> c /\ \E j \in 1 .. Last : ~log[j].cancel
  <2>1. SeenUp("cancel", n)' <=> \E j \in 1 .. Last : ~log[j].cancel
    BY <1>2, <1>5
  <2> QED
    BY <2>1, <1>6, Zenon DEF Pressed
<1> QED
  BY <1>7, <1>8

LEMMA CancelFlagsInit == Init => CancelFlags
BY DEF Init, CancelFlags, CancelStaleIs, CancelSinceIs, Last, None

LEMMA DeniedInit == Init => DeniedIsRefused
BY DEF Init, DeniedIsRefused, Refused, Polls

\* The types of the times.
LEMMA SinceInit == Init => Since
BY DEF Init, Since

LEMMA SinceStep == Logged /\ Since /\ [Next]_vars => Since'
<1> SUFFICES ASSUME Logged, Since, [Next]_vars PROVE Since'
  OBVIOUS
<1>1. ASSUME NEW t \in Now .. Now + MaxPoll, NEW a \in BOOLEAN, NEW c \in BOOLEAN,
             PollButtons(t, a, c)
      PROVE  Since'
  <2>1. t \in Nat
    BY <1>1, OneMorePoll DEF PollButtons
  <2>2. PICK down, x :
          /\ cancelSince' = CancelFrom(x, t)
          /\ holdSince' \in {holdSince, HoldFrom(down, t)}
          /\ releaseSince' \in {releaseSince, None, ReleaseFrom(down, t)}
    BY <1>1 DEF PollButtons
  <2> QED
    BY <2>1, <2>2 DEF Since, CancelFrom, HoldFrom, ReleaseFrom
<1>2. CASE Begin
  BY <1>2 DEF Begin, Since
<1>3. CASE UNCHANGED vars
  BY <1>3 DEF vars, flags, Since
<1> QED
  BY <1>1, <1>2, <1>3, Steps

LEMMA RefusedMeansThen == Logged' => RefusedIs'
BY RefusedMeans, PTL

\* A poll, as far as denial goes.
LEMMA CancelPoll ==
    ASSUME Logged, Logged', Since, CancelFlags, NEW t \in Now .. Now + MaxPoll,
           NEW a \in BOOLEAN, NEW c \in BOOLEAN, PollButtons(t, a, c)
    PROVE  CancelFlags' /\ CancelSinceIs' /\ (state' = "denied" <=> Refused')
<1>0. /\ state = "pending" /\ cancelStale' = (cancelStale /\ c)
      /\ cancelSince' = CancelFrom(c /\ ~cancelStale, t)
      /\ log' = Append(log, [at |-> t, approve |-> a, cancel |-> c])
  BY DEF PollButtons
<1>1. /\ Last \in Nat /\ Last' = Last + 1 /\ t \in Nat
      /\ log'[Last + 1].at = t
      /\ log'[Last + 1].approve = a /\ log'[Last + 1].cancel = c
      /\ \A i \in 1 .. Last : log'[i] = log[i] /\ log[i].at \in Nat /\ log[i].at <= t
  BY <1>0, OneMorePoll
<1>2. PICK n \in Nat : n = Last + 1
  BY <1>1
<1>3. /\ \A i \in 1 .. Last : Pressed(i)' <=> Pressed(i) /\ c
      /\ Pressed(n)' <=> c /\ \E j \in 1 .. Last : ~log[j].cancel
  BY <1>0, <1>2, PressedThen
<1>4. /\ Last' = n /\ log'[n].at = t /\ \A i \in 1 .. n : i \in 1 .. Last \/ i = n
      /\ n \in 1 .. n /\ \A i \in 1 .. Last : i \in 1 .. n
      /\ \A i \in 1 .. Last : log'[i].at = log[i].at /\ log[i].at \in Nat /\ log[i].at <= t
  BY <1>1, <1>2
<1>5. CancelStaleIs /\ CancelSinceIs
  BY <1>0 DEF CancelFlags
<1>6. CancelStaleIs'
  <2>1. (\A j \in 1 .. n : log'[j].cancel) <=> c /\ \A j \in 1 .. Last : log[j].cancel
    <3>1. log'[n].cancel = c /\ \A j \in 1 .. Last : log'[j] = log[j]
      BY <1>1, <1>2
    <3> QED
      BY <1>4, <3>1, Zenon
  <2> QED
    BY <1>0, <1>4, <1>5, <2>1, Zenon DEF CancelStaleIs
<1>7. CancelSinceIs'
  <2>1. CASE ~c \/ cancelStale
    <3>1. cancelSince' = None
      BY <1>0, <2>1 DEF CancelFrom
    <3>2. \A i \in 1 .. n : ~Pressed(i)'
      <4>1. CASE ~c
        BY <1>3, <1>4, <4>1, Zenon
      <4>2. CASE cancelStale
        <5>1. \A j \in 1 .. Last : log[j].cancel
          BY <1>5, <4>2, Zenon DEF CancelStaleIs
        <5>2. \A i \in 1 .. Last : ~Pressed(i)
          <6>1. \A i \in 1 .. Last : \A j \in 1 .. i - 1 : j \in 1 .. Last
            BY <1>1
          <6> QED
            BY <5>1, <6>1, Zenon DEF Pressed, SeenUp
        <5> QED
          BY <1>3, <1>4, <5>1, <5>2, Zenon
      <4> QED
        BY <2>1, <4>1, <4>2
    <3> QED
      BY <1>4, <3>1, <3>2 DEF CancelSinceIs
  <2>2. CASE c /\ ~cancelStale /\ cancelSince = None
    <3>1. cancelSince' = t /\ t # None
      BY <1>0, <1>1, <2>2 DEF CancelFrom, None
    <3>2. Pressed(n)'
      BY <1>3, <1>5, <2>2, Zenon DEF CancelStaleIs
    <3>3. \A i \in 1 .. Last : ~Pressed(i)'
      BY <1>3, <1>5, <2>2, Zenon DEF CancelSinceIs
    <3>4. \A i \in 1 .. n : Pressed(i)' => i = n
      BY <1>4, <3>3
    <3> QED
      BY <1>1, <1>4, <3>1, <3>2, <3>4 DEF CancelSinceIs
  <2>3. CASE c /\ ~cancelStale /\ cancelSince # None
    <3>1. cancelSince' = cancelSince /\ cancelSince \in Nat
      BY <1>0, <2>3 DEF CancelFrom, Since
    <3>2. PICK i \in 1 .. Last : Pressed(i) /\ log[i].at = cancelSince
      BY <1>5, <2>3 DEF CancelSinceIs
    <3>3. Pressed(i)' /\ log'[i].at = cancelSince' /\ i \in 1 .. n /\ cancelSince <= t
      <4>1. Pressed(i)'
        BY <1>3, <2>3, <3>2, Zenon
      <4> QED
        BY <1>4, <3>1, <3>2, <4>1
    <3>4. ASSUME NEW k \in 1 .. n, Pressed(k)' PROVE cancelSince' <= log'[k].at
      <4>1. CASE k \in 1 .. Last
        <5>1. Pressed(k)
          BY <1>3, <3>4, <4>1, Zenon
        <5> QED
          BY <1>4, <1>5, <2>3, <3>1, <4>1, <5>1 DEF CancelSinceIs
      <4> QED
        BY <1>4, <3>1, <3>3, <4>1
    <3> QED
      BY <1>4, <2>3, <3>1, <3>3, <3>4 DEF CancelSinceIs
  <2> QED
    BY <2>1, <2>2, <2>3, Zenon
<1>8. state' = "denied" <=> Refused'
  <2>1. Refused' <=> \E i \in 1 .. n : Pressed(i)' /\ t >= log'[i].at + Debounce
    BY <1>4, RefusedMeansThen DEF RefusedIs
  <2>2. cancelSince' \in Nat \cup {None}
    BY <1>0, <1>1 DEF CancelFrom, Since
  <2>3. \A i \in 1 .. n : log'[i].at \in Nat
    BY <1>1, <1>4
  <2>4. Refused' <=> Lasted(cancelSince', t, Debounce)
    <3>1. CASE cancelSince' = None
      <4>1. \A i \in 1 .. n : ~Pressed(i)'
        BY <1>4, <1>7, <3>1 DEF CancelSinceIs
      <4> QED
        BY <2>1, <3>1, <4>1 DEF Lasted
    <3>2. CASE cancelSince' # None
      <4>0. cancelSince' \in Nat
        BY <2>2, <3>2
      <4>1. /\ \E i \in 1 .. n : Pressed(i)' /\ log'[i].at = cancelSince'
            /\ \A i \in 1 .. n : Pressed(i)' => cancelSince' <= log'[i].at
        BY <1>4, <1>7, <3>2 DEF CancelSinceIs
      <4>2. ASSUME NEW i \in 1 .. n, Pressed(i)', t >= log'[i].at + Debounce
            PROVE  t >= cancelSince' + Debounce
        <5>1. cancelSince' <= log'[i].at /\ log'[i].at \in Nat
          BY <2>3, <4>1, <4>2, Zenon
        <5> DEFINE x == log'[i].at  y == cancelSince'
        <5>2. y <= x /\ x \in Nat /\ y \in Nat /\ t >= x + Debounce
          BY <4>0, <4>2, <5>1, Zenon
        <5>3. t \in Nat /\ Debounce \in Nat
          BY <1>1, Times
        <5> HIDE DEF x, y
        <5>4. t >= y + Debounce
          BY <5>2, <5>3
        <5> QED
          BY <5>4 DEF y
      <4>3. ASSUME t >= cancelSince' + Debounce
            PROVE  \E i \in 1 .. n : Pressed(i)' /\ t >= log'[i].at + Debounce
        BY <4>1, <4>3
      <4> QED
        BY <2>1, <3>2, <4>2, <4>3 DEF Lasted
    <3> QED
      BY <3>1, <3>2
  <2>5. PICK down, held : state' = Verdict(down, held, cancelSince', t)
    BY DEF PollButtons
  <2>6. state' = "denied" <=> Lasted(cancelSince', t, Debounce)
    BY <2>5 DEF Verdict
  <2> QED
    BY <2>4, <2>6
<1> QED
  BY <1>6, <1>7, <1>8 DEF CancelFlags

LEMMA CancelFlagsStep == Logged /\ Since /\ CancelFlags /\ [Next]_vars => CancelFlags'
<1> SUFFICES ASSUME Logged, Since, CancelFlags, [Next]_vars PROVE CancelFlags'
  OBVIOUS
<1>1. ASSUME NEW t \in Now .. Now + MaxPoll, NEW a \in BOOLEAN, NEW c \in BOOLEAN,
             PollButtons(t, a, c)
      PROVE  CancelFlags'
  BY <1>1, LoggedStep, CancelPoll
<1>2. CASE Begin
  <2>1. log' = <<>> /\ cancelStale' = TRUE /\ cancelSince' = None
    BY <1>2 DEF Begin
  <2> QED
    BY <2>1 DEF CancelFlags, CancelStaleIs, CancelSinceIs, Last
<1>3. CASE UNCHANGED vars
  BY <1>3 DEF vars, flags, CancelFlags, CancelStaleIs, CancelSinceIs, Last, Pressed, SeenUp
<1> QED
  BY <1>1, <1>2, <1>3, Steps

LEMMA DeniedStep ==
    Logged /\ Since /\ CancelFlags /\ DeniedIsRefused /\ [Next]_vars => DeniedIsRefused'
<1> SUFFICES ASSUME Logged, Since, CancelFlags, DeniedIsRefused, [Next]_vars
             PROVE  DeniedIsRefused'
  OBVIOUS
<1>1. ASSUME NEW t \in Now .. Now + MaxPoll, NEW a \in BOOLEAN, NEW c \in BOOLEAN,
             PollButtons(t, a, c)
      PROVE  DeniedIsRefused'
  BY <1>1, LoggedStep, CancelPoll DEF DeniedIsRefused
<1>2. CASE Begin
  BY <1>2 DEF Begin, DeniedIsRefused, Refused, Polls
<1>3. CASE UNCHANGED vars
  BY <1>3 DEF vars, DeniedIsRefused, Refused, Polls, SeenUp, DownFor, Last
<1> QED
  BY <1>1, <1>2, <1>3, Steps

\* approval_poll(): a prompt is denied exactly when a fresh press of cancel
\* lasted, whatever the lines were doing before the prompt and besides.
THEOREM DenialIsTheOwners == Spec => []DeniedIsRefused
BY LoggedInit, LoggedStep, SinceInit, SinceStep, CancelFlagsInit, CancelFlagsStep, DeniedInit,
   DeniedStep, PTL DEF Spec

-----------------------------------------------------------------------------
(***************************************************************************)
(* The grant: hold_since_us is when the hold began that the polls still    *)
(* see, and release_since_us when contact was lost in it, if it is lost.   *)
(***************************************************************************)
Begun(i) == SeenUp("approve", i) /\ log[i].approve /\ ~Released(i, Last)

ApproveStaleIs == approveStale <=> \A j \in 1 .. Last : log[j].approve

HoldSinceIs ==
    /\ holdSince = None => \A i \in 1 .. Last : ~Begun(i)
    /\ holdSince # None => /\ \E i \in 1 .. Last : Begun(i) /\ log[i].at = holdSince
                          /\ \A i \in 1 .. Last : Begun(i) => holdSince <= log[i].at

\* The polls from k on, and not the one before, saw button 1 up.
UpFrom(k) == k > 1 /\ log[k - 1].approve /\ \A m \in k .. Last : ~log[m].approve

ReleaseSinceIs ==
    holdSince # None =>
        /\ log[Last].approve => releaseSince = None
        /\ ~log[Last].approve => \E k \in 1 .. Last : UpFrom(k) /\ log[k].at = releaseSince

HoldFlags == state = "pending" => ApproveStaleIs /\ HoldSinceIs /\ ReleaseSinceIs

LEMMA HoldFlagsInit == Init => HoldFlags
BY DEF Init, HoldFlags, ApproveStaleIs, HoldSinceIs, ReleaseSinceIs, Last, None

\* Which holds the polls see once there is one more, at n.
LEMMA BegunThen ==
    ASSUME Logged, NEW t \in Now .. Now + MaxPoll, NEW a \in BOOLEAN, NEW c \in BOOLEAN,
           log' = Append(log, [at |-> t, approve |-> a, cancel |-> c]),
           NEW n \in Nat, n = Last + 1
    PROVE  /\ \A i \in 1 .. Last : Begun(i)' => Begun(i)
           /\ a => \A i \in 1 .. Last : Begun(i) => Begun(i)'
           /\ Begun(n)' <=> a /\ \E j \in 1 .. Last : ~log[j].approve
<1>1. /\ Last \in Nat /\ Last' = n /\ log'[n].approve = a
      /\ \A i \in 1 .. Last : log'[i] = log[i]
  BY OneMorePoll
<1>2. ASSUME NEW i \in 1 .. n
      PROVE  SeenUp("approve", i)' <=> \E j \in 1 .. i - 1 : ~log[j].approve
  <2>0. i \in Nat /\ i <= n /\ i >= 1
    BY <1>1
  <2>1. \A j \in 1 .. i - 1 : log'[j] = log[j]
    <3>1. \A j \in 1 .. i - 1 : j \in 1 .. Last
      BY <1>1, <2>0
    <3> QED
      BY <1>1, <3>1
  <2> QED
    BY <2>1 DEF SeenUp
<1>3. \A i \in 1 .. Last : SeenUp("approve", i) <=> \E j \in 1 .. i - 1 : ~log[j].approve
  BY DEF SeenUp
<1>4. n - 1 = Last /\ n \in 1 .. n /\ \A i \in 1 .. Last : i \in 1 .. n
  BY <1>1
<1>5. ASSUME NEW i \in 1 .. Last, Released(i, Last)
      PROVE  Released(i, Last)'
  <2>1. PICK k \in i .. Last, l \in i .. Last :
            /\ k < l /\ log[l].at >= log[k].at + Bounce
            /\ \A m \in k .. l : ~log[m].approve
    BY <1>5 DEF Released
  <2>2. k \in i .. n /\ l \in i .. n /\ k \in 1 .. Last /\ l \in 1 .. Last
    BY <1>1, <2>1
  <2>3. \A m \in k .. l : m \in 1 .. Last
    BY <1>1, <2>2
  <2>4. log'[l] = log[l] /\ log'[k] = log[k] /\ \A m \in k .. l : log'[m] = log[m]
    BY <1>1, <2>2, <2>3
  <2>5. /\ k \in i .. Last' /\ l \in i .. Last' /\ k < l
        /\ log'[l].at >= log'[k].at + Bounce /\ \A m \in k .. l : ~log'[m].approve
    BY <1>1, <2>1, <2>2, <2>4, Zenon
  <2> QED
    BY <2>5, Zenon DEF Released
<1>6. ASSUME a, NEW i \in 1 .. Last, Released(i, Last)'
      PROVE  Released(i, Last)
  <2>1. PICK k \in i .. n, l \in i .. n :
            /\ k < l /\ log'[l].at >= log'[k].at + Bounce
            /\ \A m \in k .. l : ~log'[m].approve
    BY <1>1, <1>6 DEF Released
  <2>2. l # n
    <3>1. l \in k .. l
      BY <2>1
    <3> QED
      BY <1>1, <1>6, <2>1, <3>1
  <2>3. k \in i .. Last /\ l \in i .. Last /\ k \in 1 .. Last /\ l \in 1 .. Last
    BY <1>1, <2>1, <2>2
  <2>4. \A m \in k .. l : m \in 1 .. Last
    BY <1>1, <2>3
  <2>5. log'[l] = log[l] /\ log'[k] = log[k] /\ \A m \in k .. l : log'[m] = log[m]
    BY <1>1, <2>3, <2>4
  <2> QED
    BY <2>1, <2>3, <2>5 DEF Released
<1>7. ~Released(n, Last)'
  BY <1>1 DEF Released
<1>8. ASSUME NEW i \in 1 .. Last
      PROVE  SeenUp("approve", i)' <=> SeenUp("approve", i)
  BY <1>2, <1>3, <1>4
<1>9. ASSUME NEW i \in 1 .. Last, Begun(i)' PROVE Begun(i)
  BY <1>1, <1>5, <1>8, <1>9 DEF Begun
<1>10. ASSUME a, NEW i \in 1 .. Last, Begun(i) PROVE Begun(i)'
  BY <1>1, <1>6, <1>8, <1>10 DEF Begun
<1>11. Begun(n)' <=> a /\ \E j \in 1 .. Last : ~log[j].approve
  <2>1. SeenUp("approve", n)' <=> \E j \in 1 .. Last : ~log[j].approve
    BY <1>2, <1>4
  <2> QED
    BY <1>1, <1>7, <2>1, Zenon DEF Begun
<1> QED
  BY <1>9, <1>10, <1>11

\* A poll that is not a denial, as far as the hold goes.
LEMMA HoldPoll ==
    ASSUME Logged, Since, HoldFlags, NEW t \in Now .. Now + MaxPoll,
           NEW a \in BOOLEAN, NEW c \in BOOLEAN, PollButtons(t, a, c), state' # "denied"
    PROVE  ApproveStaleIs' /\ HoldSinceIs' /\ ReleaseSinceIs'
           /\ (holdSince' # None /\ a => ~approveStale)
<1> DEFINE down == a /\ ~approveStale
<1>0. /\ state = "pending" /\ approveStale' = (approveStale /\ a)
      /\ holdSince' = HoldFrom(down, t)
      /\ releaseSince' = IF LetGo(down, t) THEN None ELSE ReleaseFrom(down, t)
      /\ log' = Append(log, [at |-> t, approve |-> a, cancel |-> c])
  BY DEF PollButtons
<1>1. /\ Last \in Nat /\ Last' = Last + 1 /\ t \in Nat
      /\ log'[Last + 1].at = t
      /\ log'[Last + 1].approve = a /\ log'[Last + 1].cancel = c
      /\ \A i \in 1 .. Last : log'[i] = log[i] /\ log[i].at \in Nat /\ log[i].at <= t
  BY <1>0, OneMorePoll
<1>2. PICK n \in Nat : n = Last + 1
  BY <1>1
<1>3. /\ \A i \in 1 .. Last : Begun(i)' => Begun(i)
      /\ a => \A i \in 1 .. Last : Begun(i) => Begun(i)'
      /\ Begun(n)' <=> a /\ \E j \in 1 .. Last : ~log[j].approve
  BY <1>0, <1>2, BegunThen
<1>4. /\ Last' = n /\ log'[n].at = t /\ \A i \in 1 .. n : i \in 1 .. Last \/ i = n
      /\ n \in 1 .. n /\ \A i \in 1 .. Last : i \in 1 .. n
      /\ \A i \in 1 .. Last : log'[i].at = log[i].at /\ log[i].at \in Nat /\ log[i].at <= t
  BY <1>1, <1>2
<1>5. /\ ApproveStaleIs /\ HoldSinceIs /\ ReleaseSinceIs
      /\ holdSince \in Nat \cup {None} /\ releaseSince \in Nat \cup {None}
  BY <1>0 DEF HoldFlags, Since
<1>6. log'[n].approve = a /\ \A j \in 1 .. Last : log'[j].approve = log[j].approve
  BY <1>1, <1>2
<1>7. ApproveStaleIs'
  <2>1. (\A j \in 1 .. n : log'[j].approve) <=> a /\ \A j \in 1 .. Last : log[j].approve
    BY <1>4, <1>6, Zenon
  <2> QED
    BY <1>0, <1>4, <1>5, <2>1, Zenon DEF ApproveStaleIs
<1>8. holdSince # None => Last \in 1 .. Last /\ \E i \in 1 .. Last : Begun(i)
  BY <1>1, <1>5 DEF HoldSinceIs
<1>9. CASE a /\ approveStale
  <2>1. \A j \in 1 .. Last : log[j].approve
    BY <1>5, <1>9, Zenon DEF ApproveStaleIs
  <2>2. \A i \in 1 .. Last : ~Begun(i)
    <3>1. \A i \in 1 .. Last : \A j \in 1 .. i - 1 : j \in 1 .. Last
      BY <1>1
    <3> QED
      BY <2>1, <3>1, Zenon DEF Begun, SeenUp
  <2>3. holdSince = None /\ holdSince' = None
    <3>1. holdSince = None
      BY <1>8, <2>2, Zenon
    <3> QED
      BY <1>0, <1>9, <3>1 DEF HoldFrom, LetGo
  <2>4. \A i \in 1 .. n : ~Begun(i)'
    BY <1>3, <1>4, <2>1, <2>2, Zenon
  <2> QED
    BY <1>4, <1>7, <2>3, <2>4 DEF HoldSinceIs, ReleaseSinceIs
<1>10. CASE a /\ ~approveStale
  <2>1. ~LetGo(down, t) /\ releaseSince' = None
    BY <1>0, <1>10 DEF LetGo, ReleaseFrom
  <2>2. log[Last]'.approve
    BY <1>4, <1>6, <1>10
  <2>3. ReleaseSinceIs'
    BY <2>1, <2>2 DEF ReleaseSinceIs
  <2>4. Begun(n)'
    BY <1>3, <1>5, <1>10, Zenon DEF ApproveStaleIs
  <2>5. CASE holdSince = None
    <3>1. holdSince' = t /\ t # None
      BY <1>0, <1>1, <1>10, <2>1, <2>5 DEF HoldFrom, None
    <3>2. \A i \in 1 .. n : Begun(i)' => i = n
      BY <1>3, <1>4, <1>5, <2>5, Zenon DEF HoldSinceIs
    <3>3. HoldSinceIs'
      BY <1>1, <1>4, <2>4, <3>1, <3>2 DEF HoldSinceIs
    <3> QED
      BY <1>7, <1>10, <2>3, <3>3
  <2>6. CASE holdSince # None
    <3>1. holdSince' = holdSince /\ holdSince \in Nat
      BY <1>0, <1>5, <2>1, <2>6 DEF HoldFrom
    <3>2. PICK i \in 1 .. Last : Begun(i) /\ log[i].at = holdSince
      BY <1>5, <2>6 DEF HoldSinceIs
    <3>3. Begun(i)' /\ log'[i].at = holdSince' /\ i \in 1 .. n /\ holdSince <= t
      <4>1. Begun(i)'
        BY <1>3, <1>10, <3>2, Zenon
      <4> QED
        BY <1>4, <3>1, <3>2, <4>1
    <3>4. ASSUME NEW k \in 1 .. n, Begun(k)' PROVE holdSince' <= log'[k].at
      <4>1. CASE k \in 1 .. Last
        <5>1. Begun(k)
          BY <1>3, <3>4, <4>1, Zenon
        <5> QED
          BY <1>4, <1>5, <2>6, <3>1, <4>1, <5>1 DEF HoldSinceIs
      <4> QED
        BY <1>4, <3>1, <3>3, <4>1
    <3>5. HoldSinceIs'
      BY <1>4, <2>6, <3>1, <3>3, <3>4 DEF HoldSinceIs
    <3> QED
      BY <1>7, <1>10, <2>3, <3>5
  <2> QED
    BY <2>5, <2>6
<1>11. CASE ~a
  <2>0. ~down /\ ~Begun(n)'
    BY <1>3, <1>11
  <2>1. CASE holdSince = None
    <3>1. holdSince' = None
      BY <1>0, <2>0, <2>1 DEF HoldFrom, LetGo
    <3>2. \A i \in 1 .. n : ~Begun(i)'
      BY <1>3, <1>4, <1>5, <2>0, <2>1, Zenon DEF HoldSinceIs
    <3> QED
      BY <1>4, <1>7, <3>1, <3>2 DEF HoldSinceIs, ReleaseSinceIs
  <2>2. CASE holdSince # None /\ LetGo(down, t)
    <3>1. holdSince' = None
      BY <1>0, <2>2 DEF HoldFrom
    <3>2. releaseSince # None /\ t >= releaseSince + Bounce
      BY <2>2 DEF LetGo, Lasted
    <3>3. PICK k \in 1 .. Last : UpFrom(k) /\ log[k].at = releaseSince
      BY <1>5, <2>2, <3>2 DEF ReleaseSinceIs
    <3>4. ASSUME NEW i \in 1 .. Last, Begun(i) PROVE ~Begun(i)'
      <4>1. i < k
        <5>1. log[i].approve
          BY <3>4 DEF Begun
        <5>2. i \notin k .. Last
          BY <3>3, <5>1 DEF UpFrom
        <5> QED
          BY <1>1, <5>2
      <4>2. k \in i .. n /\ n \in i .. n /\ k < n
        BY <1>1, <1>2, <4>1
      <4>3. log'[n].at >= log'[k].at + Bounce
        BY <1>4, <3>2, <3>3
      <4>4. \A m \in k .. n : ~log'[m].approve
        <5>1. \A m \in k .. n : m = n \/ (m \in k .. Last /\ m \in 1 .. Last)
          BY <1>1, <1>2
        <5> QED
          BY <1>6, <1>11, <3>3, <5>1, Zenon DEF UpFrom
      <4>5. Released(i, Last)'
        BY <1>4, <4>2, <4>3, <4>4, Zenon DEF Released
      <4> QED
        BY <4>5 DEF Begun
    <3>5. \A i \in 1 .. n : ~Begun(i)'
      BY <1>3, <1>4, <2>0, <3>4, Zenon
    <3> QED
      BY <1>4, <1>7, <3>1, <3>5 DEF HoldSinceIs, ReleaseSinceIs
  <2>3. CASE holdSince # None /\ ~LetGo(down, t)
    <3>1. holdSince' = holdSince /\ releaseSince' = IF releaseSince = None THEN t ELSE releaseSince
      BY <1>0, <2>0, <2>3 DEF HoldFrom, ReleaseFrom
    <3>2. releaseSince = None \/ ~(t >= releaseSince + Bounce)
      BY <2>0, <2>3 DEF LetGo, Lasted
    <3>3. ASSUME NEW i \in 1 .. Last, Begun(i) PROVE Begun(i)'
      <4>1. SUFFICES ASSUME Released(i, Last)' PROVE FALSE
        <5>1. SeenUp("approve", i)'
          <6>1. \A j \in 1 .. i - 1 : j \in 1 .. Last
            BY <1>1
          <6> QED
            BY <1>1, <3>3, <6>1 DEF Begun, SeenUp
        <5> QED
          BY <1>6, <3>3, <5>1, Zenon DEF Begun
      <4>2. PICK k \in i .. n, l \in i .. n :
                /\ k < l /\ log'[l].at >= log'[k].at + Bounce
                /\ \A m \in k .. l : ~log'[m].approve
        BY <1>4, <4>1, Zenon DEF Released
      <4>3. k \in i .. Last /\ k \in 1 .. Last
        BY <1>1, <1>2, <4>2
      <4>4. CASE l # n
        <5>1. l \in i .. Last /\ l \in 1 .. Last
          BY <1>1, <1>2, <4>2, <4>4
        <5>2. log[l].at >= log[k].at + Bounce
          BY <1>4, <4>2, <4>3, <5>1
        <5>3. \A m \in k .. l : ~log[m].approve
          <6>1. \A m \in k .. l : m \in 1 .. Last
            BY <1>1, <4>3, <5>1
          <6> QED
            BY <1>6, <4>2, <6>1, Zenon
        <5>4. Released(i, Last)
          BY <4>2, <4>3, <5>1, <5>2, <5>3, Zenon DEF Released
        <5> QED
          BY <3>3, <5>4 DEF Begun
      <4>5. CASE l = n
        <5>1. \A m \in k .. Last : ~log[m].approve
          <6>1. \A m \in k .. Last : m \in k .. l /\ m \in 1 .. Last
            BY <1>1, <1>2, <4>3, <4>5
          <6> QED
            BY <1>6, <4>2, <6>1, Zenon
        <5>2. ~log[Last].approve
          BY <1>1, <4>3, <5>1
        <5>3. PICK k0 \in 1 .. Last : UpFrom(k0) /\ log[k0].at = releaseSince
          BY <1>5, <2>3, <5>2, Zenon DEF ReleaseSinceIs
        <5>4. k0 <= k
          <6>1. k0 - 1 \notin k .. Last
            BY <5>1, <5>3 DEF UpFrom
          <6> QED
            BY <1>1, <4>3, <6>1
        <5>5. log[k0].at <= log[k].at
          BY <4>3, <5>4 DEF Logged, Last
        <5>6. t >= log[k].at + Bounce
          BY <1>4, <4>2, <4>3, <4>5
        <5>7. releaseSince \in Nat /\ log[k].at \in Nat /\ releaseSince <= log[k].at
          BY <1>4, <4>3, <5>3, <5>5
        <5>8. t >= releaseSince + Bounce /\ releaseSince # None
          <6> DEFINE x == log[k].at
          <6>1. x \in Nat /\ releaseSince <= x /\ t >= x + Bounce /\ releaseSince \in Nat
            BY <5>6, <5>7
          <6> HIDE DEF x
          <6> QED
            BY <1>1, <6>1, Times DEF None
        <5> QED
          BY <3>2, <5>8
      <4> QED
        BY <4>4, <4>5
    <3>4. HoldSinceIs'
      <4>1. \A i \in 1 .. n : Begun(i)' <=> i \in 1 .. Last /\ Begun(i)
        BY <1>3, <1>4, <2>0, <3>3, Zenon
      <4>2. PICK i \in 1 .. Last : Begun(i) /\ log[i].at = holdSince
        BY <1>5, <2>3 DEF HoldSinceIs
      <4>3. i \in 1 .. n /\ Begun(i)' /\ log'[i].at = holdSince'
        BY <1>4, <3>1, <4>1, <4>2
      <4>4. ASSUME NEW k \in 1 .. n, Begun(k)' PROVE holdSince' <= log'[k].at
        <5>1. k \in 1 .. Last /\ Begun(k)
          BY <4>1, <4>4, Zenon
        <5> QED
          BY <1>4, <1>5, <2>3, <3>1, <5>1 DEF HoldSinceIs
      <4> QED
        BY <1>4, <2>3, <3>1, <4>3, <4>4 DEF HoldSinceIs
    <3>5. ReleaseSinceIs'
      <4>0. ~log[Last]'.approve
        BY <1>4, <1>6, <1>11
      <4>1. Last \in 1 .. Last /\ n > 1 /\ n - 1 = Last
        BY <1>1, <1>2, <1>8, <2>3
      <4>2. CASE log[Last].approve
        <5>1. releaseSince' = t
          BY <1>5, <2>3, <3>1, <4>2, Zenon DEF ReleaseSinceIs
        <5>2. UpFrom(n)'
          <6>1. log'[n - 1].approve
            BY <1>6, <4>1, <4>2
          <6>2. \A m \in n .. n : ~log'[m].approve
            BY <1>6, <1>11
          <6> QED
            BY <1>4, <4>1, <6>1, <6>2 DEF UpFrom
        <5> QED
          BY <1>4, <4>0, <5>1, <5>2, Zenon DEF ReleaseSinceIs
      <4>3. CASE ~log[Last].approve
        <5>1. PICK k \in 1 .. Last : UpFrom(k) /\ log[k].at = releaseSince
          BY <1>5, <2>3, <4>3, Zenon DEF ReleaseSinceIs
        <5>2. releaseSince' = releaseSince
          BY <1>4, <3>1, <5>1 DEF None
        <5>3. UpFrom(k)'
          <6>1. k > 1 /\ k - 1 \in 1 .. Last /\ log[k - 1].approve
            BY <1>1, <5>1 DEF UpFrom
          <6>2. log'[k - 1].approve
            BY <1>6, <6>1
          <6>3. \A m \in k .. n : m = n \/ (m \in k .. Last /\ m \in 1 .. Last)
            BY <1>1, <1>2
          <6>4. \A m \in k .. n : ~log'[m].approve
            BY <1>6, <1>11, <5>1, <6>3, Zenon DEF UpFrom
          <6> QED
            BY <1>4, <6>1, <6>2, <6>4, Zenon DEF UpFrom
        <5>4. k \in 1 .. n /\ log'[k].at = releaseSince'
          BY <1>4, <5>1, <5>2
        <5> QED
          BY <1>4, <4>0, <5>3, <5>4, Zenon DEF ReleaseSinceIs
      <4> QED
        BY <4>2, <4>3
    <3> QED
      BY <1>7, <1>11, <3>4, <3>5
  <2> QED
    BY <2>1, <2>2, <2>3
<1> QED
  BY <1>9, <1>10, <1>11

LEMMA HoldFlagsStep == Logged /\ Since /\ HoldFlags /\ [Next]_vars => HoldFlags'
<1> SUFFICES ASSUME Logged, Since, HoldFlags, [Next]_vars PROVE HoldFlags'
  OBVIOUS
<1>1. ASSUME NEW t \in Now .. Now + MaxPoll, NEW a \in BOOLEAN, NEW c \in BOOLEAN,
             PollButtons(t, a, c)
      PROVE  HoldFlags'
  BY <1>1, HoldPoll DEF HoldFlags
<1>2. CASE Begin
  <2>1. log' = <<>> /\ approveStale' = TRUE /\ holdSince' = None
    BY <1>2 DEF Begin
  <2> QED
    BY <2>1 DEF HoldFlags, ApproveStaleIs, HoldSinceIs, ReleaseSinceIs, Last
<1>3. CASE UNCHANGED vars
  BY <1>3 DEF vars, flags, HoldFlags, ApproveStaleIs, HoldSinceIs, ReleaseSinceIs, Last, Begun,
              SeenUp, Released, UpFrom
<1> QED
  BY <1>1, <1>2, <1>3, Steps

HeldIs == HeldThrough <=> \E i \in 1 .. Last : /\ Begun(i) /\ log[Last].approve
                                              /\ log[Last].at >= log[i].at + Hold

LEMMA HeldMeans == Logged => HeldIs
<1> SUFFICES ASSUME Logged PROVE HeldIs
  OBVIOUS
<1>1. Polls = 1 .. Last
  BY DEF Logged, Polls, Last
<1> QED
  BY <1>1, Zenon DEF HeldIs, HeldThrough, Begun

LEMMA HeldMeansThen == Logged' => HeldIs'
BY HeldMeans, PTL

LEMMA GrantedInit == Init => GrantedIsHeld
BY DEF Init, GrantedIsHeld, HeldThrough, Polls

\* The verdict of a poll, against what the polls saw.
LEMMA GrantPoll ==
    ASSUME Logged, Logged', Since, Since', HoldFlags, CancelFlags,
           NEW t \in Now .. Now + MaxPoll, NEW a \in BOOLEAN, NEW c \in BOOLEAN,
           PollButtons(t, a, c)
    PROVE  GrantedIsHeld'
<1>0. /\ state' = Verdict(a /\ ~approveStale, HoldFrom(a /\ ~approveStale, t), cancelSince', t)
      /\ state' # "denied" => holdSince' = HoldFrom(a /\ ~approveStale, t)
      /\ log' = Append(log, [at |-> t, approve |-> a, cancel |-> c])
  BY DEF PollButtons
<1>1. /\ Last \in Nat /\ Last' = Last + 1 /\ t \in Nat
      /\ log'[Last + 1].at = t
      /\ log'[Last + 1].approve = a /\ log'[Last + 1].cancel = c
      /\ \A i \in 1 .. Last : log'[i] = log[i] /\ log[i].at \in Nat /\ log[i].at <= t
  BY <1>0, OneMorePoll
<1>2. PICK n \in Nat : n = Last + 1
  BY <1>1
<1>3. CancelSinceIs' /\ (state' = "denied" <=> Refused')
  BY CancelPoll
<1>6. Last' = n /\ n \in 1 .. n /\ log'[n].at = t /\ log'[n].approve = a /\ n > 0
  BY <1>1, <1>2
<1>4. CASE state' = "denied"
  BY <1>3, <1>4 DEF GrantedIsHeld
<1>5. CASE state' # "denied"
  <2>1. HoldSinceIs' /\ (holdSince' # None /\ a => ~approveStale)
    BY <1>5, HoldPoll
  <2>2. state' = "granted" <=> /\ a /\ ~approveStale /\ cancelSince' = None
                              /\ Lasted(holdSince', t, Hold)
    BY <1>0, <1>5 DEF Verdict
  <2>3. HeldThrough' <=> a /\ \E i \in 1 .. n : Begun(i)' /\ t >= log'[i].at + Hold
    BY <1>6, HeldMeansThen DEF HeldIs
  <2>4. HeldThrough' <=> a /\ Lasted(holdSince', t, Hold)
    <3>0. \A i \in 1 .. n : log'[i].at \in Nat
      <4>1. \A i \in 1 .. n : i \in 1 .. Last \/ i = n
        BY <1>1, <1>2
      <4> QED
        BY <1>1, <1>2, <4>1
    <3>1. CASE holdSince' = None
      <4>1. \A i \in 1 .. n : ~Begun(i)'
        BY <1>6, <2>1, <3>1 DEF HoldSinceIs
      <4> QED
        BY <2>3, <3>1, <4>1 DEF Lasted
    <3>2. CASE holdSince' # None
      <4>0. holdSince' \in Nat
        BY <3>2 DEF Since
      <4>1. /\ \E i \in 1 .. n : Begun(i)' /\ log'[i].at = holdSince'
            /\ \A i \in 1 .. n : Begun(i)' => holdSince' <= log'[i].at
        BY <1>6, <2>1, <3>2 DEF HoldSinceIs
      <4>2. ASSUME NEW i \in 1 .. n, Begun(i)', t >= log'[i].at + Hold
            PROVE  t >= holdSince' + Hold
        <5>1. holdSince' <= log'[i].at /\ log'[i].at \in Nat
          BY <3>0, <4>1, <4>2, Zenon
        <5> DEFINE x == log'[i].at  y == holdSince'
        <5>2. y <= x /\ x \in Nat /\ y \in Nat /\ t >= x + Hold
          BY <4>0, <4>2, <5>1, Zenon
        <5>3. t \in Nat /\ Hold \in Nat
          BY <1>1, Times
        <5> HIDE DEF x, y
        <5>4. t >= y + Hold
          BY <5>2, <5>3
        <5> QED
          BY <5>4 DEF y
      <4>3. ASSUME t >= holdSince' + Hold
            PROVE  \E i \in 1 .. n : Begun(i)' /\ t >= log'[i].at + Hold
        BY <4>1, <4>3
      <4> QED
        BY <2>3, <3>2, <4>2, <4>3 DEF Lasted
    <3> QED
      BY <3>1, <3>2
  <2>5. ~Refused' /\ ~CancelInDoubt' <=> cancelSince' = None
    <3>0. ~Refused'
      BY <1>3, <1>5
    <3>1. CancelInDoubt' <=> log'[n].cancel /\ SeenUp("cancel", n)'
      <4>1. SeenUp("cancel", Last)' <=> SeenUp("cancel", n)'
        BY <1>6 DEF SeenUp
      <4> QED
        BY <1>6, <3>0, <4>1 DEF CancelInDoubt
    <3>2. CASE cancelSince' = None
      <4>1. ~Pressed(n)'
        BY <1>3, <1>6, <3>2 DEF CancelSinceIs
      <4>2. \A j \in n .. Last' : j = n
        BY <1>6
      <4> QED
        BY <3>0, <3>1, <3>2, <4>1, <4>2, Zenon DEF Pressed
    <3>3. CASE cancelSince' # None
      <4>1. PICK i \in 1 .. n : Pressed(i)'
        BY <1>3, <1>6, <3>3 DEF CancelSinceIs
      <4>2. n \in i .. Last' /\ \A j \in 1 .. i - 1 : j \in 1 .. n - 1
        BY <1>6
      <4> QED
        BY <3>1, <3>3, <4>1, <4>2, Zenon DEF Pressed, SeenUp
    <3> QED
      BY <3>2, <3>3
  <2>6. Lasted(holdSince', t, Hold) => holdSince' # None
    BY DEF Lasted
  <2> QED
    BY <2>1, <2>2, <2>4, <2>5, <2>6, Zenon DEF GrantedIsHeld
<1> QED
  BY <1>4, <1>5

LEMMA GrantedStep ==
    Logged /\ Since /\ HoldFlags /\ CancelFlags /\ GrantedIsHeld /\ [Next]_vars => GrantedIsHeld'
<1> SUFFICES ASSUME Logged, Since, HoldFlags, CancelFlags, GrantedIsHeld, [Next]_vars
             PROVE  GrantedIsHeld'
  OBVIOUS
<1>1. ASSUME NEW t \in Now .. Now + MaxPoll, NEW a \in BOOLEAN, NEW c \in BOOLEAN,
             PollButtons(t, a, c)
      PROVE  GrantedIsHeld'
  BY <1>1, LoggedStep, SinceStep, GrantPoll
<1>2. CASE Begin
  BY <1>2 DEF Begin, GrantedIsHeld, HeldThrough, Polls
<1>3. CASE UNCHANGED vars
  BY <1>3 DEF vars, GrantedIsHeld, HeldThrough, Refused, CancelInDoubt, Polls, SeenUp, DownFor,
              Released, Last
<1> QED
  BY <1>1, <1>2, <1>3, Steps

\* approval_poll(): a disclosure is granted exactly when the owner has held
\* button 1 through, from a fresh press, with at most contact bounce in
\* between and no cancel in doubt, wherever the polls happen to fall.
THEOREM GrantIsTheOwners == Spec => []GrantedIsHeld
BY LoggedInit, LoggedStep, SinceInit, SinceStep, CancelFlagsInit, CancelFlagsStep,
   HoldFlagsInit, HoldFlagsStep, GrantedInit, GrantedStep, PTL DEF Spec

-----------------------------------------------------------------------------
\* Types: what Since and Logged leave out.
FlagShape == state \in State /\ approveStale \in BOOLEAN /\ cancelStale \in BOOLEAN

LEMMA FlagShapeStep == FlagShape /\ [Next]_vars => FlagShape'
<1> SUFFICES ASSUME FlagShape, [Next]_vars PROVE FlagShape'
  OBVIOUS
<1>1. ASSUME NEW t \in Now .. Now + MaxPoll, NEW a \in BOOLEAN, NEW c \in BOOLEAN,
             PollButtons(t, a, c)
      PROVE  FlagShape'
  <2>1. PICK down, held, cancelled : state' = Verdict(down, held, cancelled, t)
    BY <1>1 DEF PollButtons
  <2>2. state' \in State
    BY <2>1 DEF Verdict, State
  <2>3. approveStale' = (approveStale /\ a) /\ cancelStale' = (cancelStale /\ c)
    BY <1>1 DEF PollButtons
  <2> QED
    BY <2>2, <2>3, Zenon DEF FlagShape
<1>2. CASE Begin
  BY <1>2 DEF Begin, FlagShape, State
<1>3. CASE UNCHANGED vars
  BY <1>3 DEF vars, flags, FlagShape
<1> QED
  BY <1>1, <1>2, <1>3, Steps

\* The variables have their types, whatever the polls see.
THEOREM TypeCorrect == Spec => []TypeOK
<1>1. Init => FlagShape
  BY DEF Init, FlagShape, State
<1>2. Logged /\ Since /\ FlagShape => TypeOK
  BY DEF Logged, Since, FlagShape, TypeOK, Time
<1> QED
  BY <1>1, <1>2, FlagShapeStep, LoggedInit, LoggedStep, SinceInit, SinceStep, PTL DEF Spec
=============================================================================
