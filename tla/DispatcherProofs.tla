-------------------------- MODULE DispatcherProofs --------------------------
(***************************************************************************)
(* The two parts of dispatcher.c that keep something between two requests. *)
(*                                                                         *)
(* What Ota promises, for every set of images and every size.  The parts   *)
(* of the invariant lean on each other: a chunk may be appended to the     *)
(* slot because the slot is not the running one; the slot may be selected  *)
(* because it holds what the digest was taken of; and that digest counts   *)
(* because a session is only ever one the owner approved.                  *)
(*                                                                         *)
(* What Listing promises, for every ledger, every size of its notes and of *)
(* the buffer.  What the writer prints is the sum of what the page holds,  *)
(* so a shorter page with a next one behind it is never longer than a      *)
(* longer one: that is what lets the loop halve the range it looks in, and *)
(* makes the page it ends with the largest that fits.                      *)
(***************************************************************************)
EXTENDS Ota, Listing, FiniteSetTheorems, WellFoundedInduction, TLAPS

\* Past esp_ota_end() the session is still open, and verified.
EndedIsVerified ==
    session.ended => session.active /\ Verified(session.received, session.sig)

\* While the owner is asked about an update no other is in progress.
AskingIsAlone == asked # NotAsked => ~session.active

IInv == /\ TypeOK
        /\ StillBoots
        /\ SessionApproved
        /\ DigestIsOfFlash
        /\ EndedIsVerified
        /\ AskingIsAlone

\* Closing the session keeps every fact that is about one.
LEMMA ClosedIsFine ==
    ASSUME TypeOK, Abort
    PROVE  /\ session' \in Session /\ Len(session'.received) <= session'.size
           /\ ~session'.active /\ ~session'.ended
<1>1. NoSession \in Session /\ Len(NoSession.received) <= NoSession.size
  BY OtaAssumption DEF NoSession, Session, Image
<1> QED
  BY <1>1 DEF Abort, NoSession

\* The slot written to is never the running one.
LEMMA TargetIsOther ==
    ASSUME TypeOK
    PROVE  Target \in Slot /\ Target # running
BY DEF TypeOK, Target, Slot

\* Erasing the target, or appending to it, leaves the running slot alone.
LEMMA WritesSpareRunning ==
    ASSUME TypeOK, NEW d \in Chunks
    PROVE  /\ Erased \in [Slot -> Image] /\ Written(d) \in [Slot -> Image]
           /\ Erased[running] = slots[running] /\ Written(d)[running] = slots[running]
           /\ Erased[Target] = <<>> /\ Written(d)[Target] = Append(slots[Target], d)
<1>1. slots \in [Slot -> Image] /\ running \in Slot
  BY DEF TypeOK
<1>2. <<>> \in Image /\ Append(slots[Target], d) \in Image
  BY <1>1, TargetIsOther DEF Image
<1> QED
  BY <1>1, <1>2, TargetIsOther DEF Erased, Written

LEMMA ErasingSparesRunning ==
    ASSUME TypeOK
    PROVE  /\ Erased \in [Slot -> Image]
           /\ Erased[running] = slots[running] /\ Erased[Target] = <<>>
<1>1. slots \in [Slot -> Image] /\ running \in Slot /\ <<>> \in Image
  BY DEF TypeOK, Image
<1> QED
  BY <1>1, TargetIsOther DEF Erased

LEMMA InitInv == Init => IInv
<1> SUFFICES ASSUME Init PROVE IInv
  OBVIOUS
<1>1. NoSession \in Session /\ Len(NoSession.received) <= NoSession.size
  BY OtaAssumption DEF NoSession, Session, Image
<1>2. Factory \in Image /\ <<>> \in Image
  BY OtaAssumption DEF Image
<1>3. slots \in [Slot -> Image] /\ slots[0] = Factory
  BY <1>2 DEF Init, Slot
<1>4. TypeOK
  BY <1>1, <1>3 DEF Init, TypeOK, Slot
<1>5. StillBoots
  BY <1>3, OtaAssumption DEF Init, StillBoots
<1> QED
  BY <1>4, <1>5 DEF Init, IInv, NoSession, SessionApproved, DigestIsOfFlash,
     EndedIsVerified, AskingIsAlone

-----------------------------------------------------------------------------
LEMMA BeginKeeps == \A r \in Begin : IInv /\ OtaBegin(r) => IInv'
<1> SUFFICES ASSUME NEW r \in Begin, IInv, OtaBegin(r) PROVE IInv'
  OBVIOUS
<1>1. /\ session' \in Session /\ Len(session'.received) <= session'.size
      /\ ~session'.active /\ ~session'.ended
  BY ClosedIsFine DEF IInv, OtaBegin
<1>2. asked' \in Begin \cup {NotAsked} /\ answer' \in {"none", "yes", "no"}
  BY DEF OtaBegin
<1>3. TypeOK'
  BY <1>1, <1>2 DEF IInv, TypeOK, OtaBegin
<1>4. StillBoots'
  BY DEF IInv, StillBoots, OtaBegin
<1> QED
  BY <1>1, <1>3, <1>4 DEF IInv, SessionApproved, DigestIsOfFlash, EndedIsVerified,
     AskingIsAlone

LEMMA RefusedKeeps == IInv /\ Refused => IInv'
<1> SUFFICES ASSUME IInv, Refused PROVE IInv'
  OBVIOUS
<1>1. ~session.active
  BY DEF IInv, AskingIsAlone, Refused
<1>2. TypeOK'
  BY DEF IInv, TypeOK, Refused
<1> QED
  BY <1>1, <1>2 DEF IInv, Refused, StillBoots, SessionApproved, DigestIsOfFlash,
     EndedIsVerified, AskingIsAlone, Verified

LEMMA ApprovedKeeps == \A ok \in BOOLEAN : IInv /\ Approved(ok) => IInv'
<1> SUFFICES ASSUME NEW ok \in BOOLEAN, IInv, Approved(ok) PROVE IInv'
  OBVIOUS
<1> USE DEF IInv
<1>1. asked \in Begin /\ ~session.active /\ ~session.ended
  BY DEF TypeOK, Approved, AskingIsAlone, EndedIsVerified
<1>2. slots' \in {slots, Erased}
  BY DEF Approved
<1>3. slots' \in [Slot -> Image] /\ slots'[running] = slots[running]
  BY <1>2, ErasingSparesRunning DEF TypeOK
<1>4. CASE ok
  <2>1. /\ session' = [active |-> TRUE, size |-> asked.size, sig |-> asked.sig,
                       received |-> <<>>, ended |-> FALSE]
        /\ slots' = Erased /\ answer' = "yes" /\ asked' = NotAsked
    BY <1>4 DEF Approved
  <2>2. asked.size \in 1..MaxSize /\ asked.sig \in Images
    BY <1>1 DEF Begin
  <2>3. <<>> \in Image /\ Len(<<>>) = 0 /\ asked.size \in 0..MaxSize /\ 0 <= asked.size
    BY <2>2, OtaAssumption DEF Image
  <2>4. session' \in Session /\ Len(session'.received) <= session'.size
    BY <2>1, <2>2, <2>3 DEF Session
  <2>5. TypeOK'
    BY <2>1, <2>4, <1>3 DEF TypeOK, Approved
  <2>6. DigestIsOfFlash'
    BY <2>1, ErasingSparesRunning DEF DigestIsOfFlash, Approved, Target
  <2> QED
    BY <2>1, <2>5, <2>6, <1>3 DEF StillBoots, Approved, SessionApproved,
       EndedIsVerified, AskingIsAlone
<1>5. CASE ~ok
  <2>1. session' = session /\ answer' = "yes" /\ asked' = NotAsked
    BY <1>5 DEF Approved
  <2>2. TypeOK'
    BY <2>1, <1>3 DEF TypeOK, Approved
  <2> QED
    BY <2>1, <2>2, <1>1, <1>3 DEF StillBoots, Approved, SessionApproved,
       DigestIsOfFlash, EndedIsVerified, AskingIsAlone
<1> QED
  BY <1>4, <1>5

LEMMA ChunkKeeps == \A d \in Chunks : IInv /\ OtaChunk(d) => IInv'
<1> SUFFICES ASSUME NEW d \in Chunks, IInv, OtaChunk(d) PROVE IInv'
  OBVIOUS
<1> USE DEF IInv
<1>1. slots' \in {slots, Written(d)}
  BY DEF OtaChunk
<1>2. slots' \in [Slot -> Image] /\ slots'[running] = slots[running]
  BY <1>1, WritesSpareRunning DEF TypeOK
<1>3. StillBoots'
  BY <1>2 DEF OtaChunk, StillBoots
<1>4. CASE /\ session' = [session EXCEPT !.received = Append(@, d)]
           /\ slots' = Written(d)
  <2>1. session \in Session /\ session.received \in Seq(Chunks)
        /\ Len(session.received) < session.size /\ session.size \in Nat
    BY OtaAssumption DEF TypeOK, Session, Image, OtaChunk
  <2>2. Append(session.received, d) \in Seq(Chunks)
        /\ Len(Append(session.received, d)) <= session.size
    BY <2>1
  <2>3. session' \in Session
    BY <1>4, <2>1, <2>2 DEF Session, Image
  <2>4. session'.received = Append(session.received, d) /\ session'.size = session.size
        /\ session'.active = session.active /\ session'.ended = session.ended
    BY <1>4, <2>1 DEF Session
  <2>5. TypeOK'
    BY <1>2, <2>2, <2>3, <2>4 DEF TypeOK, OtaChunk
  <2>6. DigestIsOfFlash'
    BY <1>4, <2>4, WritesSpareRunning DEF DigestIsOfFlash, OtaChunk, Target
  <2> QED
    BY <1>3, <2>4, <2>5, <2>6 DEF OtaChunk, Ready, SessionApproved, EndedIsVerified,
       AskingIsAlone
<1>5. CASE Abort
  <2>1. /\ session' \in Session /\ Len(session'.received) <= session'.size
        /\ ~session'.active /\ ~session'.ended
    BY <1>5, ClosedIsFine
  <2>2. TypeOK'
    BY <2>1, <1>2 DEF TypeOK, OtaChunk
  <2> QED
    BY <1>3, <2>1, <2>2 DEF SessionApproved, DigestIsOfFlash, EndedIsVerified,
       AskingIsAlone
<1> QED
  BY <1>4, <1>5 DEF OtaChunk

LEMMA FinishKeeps == IInv /\ OtaFinish => IInv'
<1> SUFFICES ASSUME IInv, OtaFinish PROVE IInv'
  OBVIOUS
<1> USE DEF IInv
<1>1. StillBoots'
  BY DEF OtaFinish, StillBoots
<1>2. CASE Finishable /\ session' = [session EXCEPT !.ended = TRUE]
  <2>1. session \in Session
    BY DEF TypeOK
  <2>2. /\ session' \in Session
        /\ session'.received = session.received /\ session'.size = session.size
        /\ session'.active = session.active /\ session'.sig = session.sig
    BY <1>2, <2>1 DEF Session
  <2>3. TypeOK'
    BY <2>2 DEF TypeOK, OtaFinish
  <2> QED
    BY <1>1, <1>2, <2>2, <2>3 DEF OtaFinish, Ready, Finishable, SessionApproved,
       DigestIsOfFlash, Target, EndedIsVerified, AskingIsAlone, Verified
<1>3. CASE Abort
  <2>1. /\ session' \in Session /\ Len(session'.received) <= session'.size
        /\ ~session'.active /\ ~session'.ended
    BY <1>3, ClosedIsFine
  <2>2. TypeOK'
    BY <2>1 DEF TypeOK, OtaFinish
  <2> QED
    BY <1>1, <2>1, <2>2 DEF SessionApproved, DigestIsOfFlash, EndedIsVerified,
       AskingIsAlone
<1> QED
  BY <1>2, <1>3 DEF OtaFinish

\* The steps that end with the session closed and every slot as it was.
LEMMA ClosingKeeps ==
    ASSUME IInv, Abort, UNCHANGED slots,
           asked' \in Begin \cup {NotAsked}, answer' \in {"none", "yes", "no"},
           boot' \in Slot, running' \in Slot, rebootDue' \in BOOLEAN, StillBoots'
    PROVE  IInv'
<1>1. /\ session' \in Session /\ Len(session'.received) <= session'.size
      /\ ~session'.active /\ ~session'.ended
  BY ClosedIsFine DEF IInv
<1>2. TypeOK'
  BY <1>1 DEF IInv, TypeOK
<1> QED
  BY <1>1, <1>2 DEF IInv, SessionApproved, DigestIsOfFlash, EndedIsVerified,
     AskingIsAlone

LEMMA TooMuchKeeps == IInv /\ OtaChunkTooMuch => IInv'
BY ClosingKeeps DEF OtaChunkTooMuch, IInv, TypeOK, StillBoots

LEMMA SelectKeeps == \A ok \in BOOLEAN : IInv /\ SelectSlot(ok) => IInv'
<1> SUFFICES ASSUME NEW ok \in BOOLEAN, IInv, SelectSlot(ok) PROVE IInv'
  OBVIOUS
<1>1. Target \in Slot
  BY TargetIsOther DEF IInv
<1>2. boot' \in Slot /\ rebootDue' \in BOOLEAN
  BY <1>1 DEF SelectSlot, IInv, TypeOK
<1> QED
  BY <1>2, ClosingKeeps DEF SelectSlot, IInv, TypeOK, StillBoots

LEMMA ResetKeeps == IInv /\ Reset => IInv'
BY DEF Reset, IInv, TypeOK, StillBoots, SessionApproved, DigestIsOfFlash, Target,
   EndedIsVerified, Verified, AskingIsAlone

\* The bootloader falls back to the running slot when the other is unusable.
LEMMA RestartKeeps == IInv /\ Restart => IInv'
<1> SUFFICES ASSUME IInv, Restart PROVE IInv'
  OBVIOUS
<1>1. boot \in Slot /\ running \in Slot /\ slots[running] \in Images
  BY DEF IInv, TypeOK, StillBoots
<1>2. Started \in Slot /\ slots[Started] \in Images
  BY <1>1 DEF Started, Slot
<1>3. StillBoots'
  BY <1>2 DEF Restart, StillBoots
<1> QED
  BY <1>1, <1>2, <1>3, ClosingKeeps DEF Restart

LEMMA StepInv == IInv /\ [Next]_vars => IInv'
<1> SUFFICES ASSUME IInv, [Next]_vars PROVE IInv'
  OBVIOUS
<1>1. CASE Next
  BY <1>1, BeginKeeps, RefusedKeeps, ApprovedKeeps, ChunkKeeps, TooMuchKeeps,
     FinishKeeps, SelectKeeps, ResetKeeps, RestartKeeps DEF Next
<1>2. CASE UNCHANGED vars
  BY <1>2 DEF vars, IInv, TypeOK, StillBoots, SessionApproved, DigestIsOfFlash, Target,
     EndedIsVerified, Verified, AskingIsAlone
<1> QED
  BY <1>1, <1>2

THEOREM Inductive == Spec => []IInv
BY InitInv, StepInv, PTL DEF Spec

\* The running firmware's slot always holds an image the bootloader starts:
\* no update, failed write or power loss leaves the device with nothing to run.
THEOREM AlwaysBoots == Spec => []StillBoots
<1>1. IInv => StillBoots
  BY DEF IInv
<1> QED
  BY <1>1, Inductive, PTL

\* No session outlives an ota_begin that was refused (handle_ota_begin).
THEOREM SessionIsSound == Spec => [](TypeOK /\ SessionApproved)
<1>1. IInv => TypeOK /\ SessionApproved
  BY DEF IInv
<1> QED
  BY <1>1, Inductive, PTL

\* Every chunk in the digest is on flash and nothing else is in the slot:
\* a write that fails ends the session (handle_ota_chunk, ota_write).
THEOREM DigestCoversTheSlot == Spec => []DigestIsOfFlash
<1>1. IInv => DigestIsOfFlash
  BY DEF IInv
<1> QED
  BY <1>1, Inductive, PTL

\* ota_finish points the device at a signed image only, in an approved update.
THEOREM OnlyVerifiedIsSelected == Spec => BootIsSwitchedWhenVerified
<1>1. IInv /\ [Next]_vars =>
        [boot' # boot => slots'[boot'] \in Signed /\ answer = "yes"]_vars
  <2> SUFFICES ASSUME IInv, Next, boot' # boot
               PROVE  slots'[boot'] \in Signed /\ answer = "yes"
    BY DEF vars
  <2>1. PICK ok \in BOOLEAN : SelectSlot(ok)
    BY DEF Next, OtaBegin, Refused, Approved, OtaChunk, OtaChunkTooMuch, OtaFinish,
       Reset, Restart
  <2>2. session.ended /\ boot' = Target /\ slots' = slots
    BY <2>1 DEF SelectSlot
  <2>3. session.active /\ session.received \in Signed
    BY <2>2 DEF IInv, EndedIsVerified, Verified
  <2> QED
    BY <2>2, <2>3 DEF IInv, SessionApproved, DigestIsOfFlash
<1> QED
  BY <1>1, Inductive, PTL DEF Spec, BootIsSwitchedWhenVerified

-----------------------------------------------------------------------------
\* Every set of numbers has a least one.
LEMMA Least ==
    ASSUME NEW T \in SUBSET Nat, T # {}
    PROVE  \E m \in T : \A k \in T : m <= k
<1> DEFINE R == {p \in Nat \X Nat : p[1] < p[2]}
<1>1. IsWellFoundedOn(R, Nat)
  BY NatLessThanWellFounded DEF OpToRel
<1>2. PICK m \in T : \A k \in T : ~ (<<k, m>> \in R)
  <2> HIDE DEF R
  <2> QED
    BY <1>1, WFMin
<1>3. ASSUME NEW k \in Nat, NEW n \in Nat PROVE <<k, n>> \in R <=> k < n
  OBVIOUS
<1>4. \A k \in T : m <= k
  <2> HIDE DEF R
  <2> TAKE k \in T
  <2>1. k \in Nat /\ m \in Nat /\ <<k, m>> \notin R
    BY <1>2
  <2>2. ~ (k < m)
    BY <2>1, <1>3
  <2> QED
    BY <2>1, <2>2
<1> QED
  BY <1>4

\* Induction, with a set of numbers for the predicate.
LEMMA UpTo ==
    ASSUME NEW n \in Nat, NEW S, 0 \in S, \A k \in 1..n : k - 1 \in S => k \in S
    PROVE  0..n \subseteq S
<1> DEFINE T == {k \in 0..n : k \notin S}
<1> SUFFICES ASSUME T # {} PROVE FALSE
  OBVIOUS
<1>1. PICK m \in T : \A k \in T : m <= k
  <2>1. T \in SUBSET Nat
    OBVIOUS
  <2> HIDE DEF T
  <2> QED
    BY <2>1, Least
<1>2. m \in 1..n /\ m - 1 \in 0..n
  BY <1>1
<1>3. m - 1 \notin T
  <2> HIDE DEF T
  <2>1. m \in Nat /\ ~ (m <= m - 1)
    BY <1>2
  <2> QED
    BY <1>1, <2>1
<1> QED
  BY <1>1, <1>2, <1>3

-----------------------------------------------------------------------------
\* What the bisection is to do at a place (lo, hi), given where it ends from elsewhere.
Halving(g, fits, lo, hi) ==
    LET mid == lo + (hi - lo + 1) \div 2
    IN  IF lo >= hi THEN lo ELSE IF fits[mid] THEN g[<<mid, hi>>] ELSE g[<<lo, mid - 1>>]

IsBisection(g, fits, want) ==
    g = [r \in (0..want) \X (0..want) |-> Halving(g, fits, r[1], r[2])]

\* The middle is above lo: both halves are shorter.
LEMMA Middle ==
    ASSUME NEW lo \in Nat, NEW hi \in Nat, lo < hi, NEW mid, mid = lo + (hi - lo + 1) \div 2
    PROVE  mid \in Nat /\ lo < mid /\ mid <= hi /\ mid - 1 \in Nat
OBVIOUS

\* Its places are reached from shorter ones, so there is a function that does it at all.
LEMMA BisectExists ==
    ASSUME NEW want \in Nat, NEW fits
    PROVE  \E g : IsBisection(g, fits, want)
<1> DEFINE D == (0..want) \X (0..want)
           Upto(g, d) == \A lo \in 0..want, hi \in 0..want :
                            hi - lo <= d => g[<<lo, hi>>] = Halving(g, fits, lo, hi)
           S == {d \in 0..want : \E g \in [D -> Int] : Upto(g, d)}
<1>1. ASSUME NEW d \in Nat, NEW g \in [D -> Int], d > 0 => Upto(g, d - 1)
      PROVE  \E h \in [D -> Int] : Upto(h, d)
  <2> DEFINE h == [r \in D |-> Halving(g, fits, r[1], r[2])]
  <2>1. h \in [D -> Int]
    <3>1. ASSUME NEW lo \in 0..want, NEW hi \in 0..want PROVE Halving(g, fits, lo, hi) \in Int
      <4>1. CASE lo >= hi
        BY <4>1 DEF Halving
      <4>2. CASE lo < hi
        <5> DEFINE mid == lo + (hi - lo + 1) \div 2
        <5>1. mid \in 0..want /\ mid - 1 \in 0..want
          BY <4>2, Middle
        <5>2. g[<<mid, hi>>] \in Int /\ g[<<lo, mid - 1>>] \in Int
          <6> HIDE DEF mid
          <6> QED
            BY <5>1
        <5> QED
          BY <4>2, <5>2 DEF Halving
      <4> QED
        BY <4>1, <4>2
    <3> QED
      BY <3>1
  <2>2. ASSUME NEW lo \in 0..want, NEW hi \in 0..want, hi - lo <= d
        PROVE  h[<<lo, hi>>] = Halving(h, fits, lo, hi)
    <3>1. h[<<lo, hi>>] = Halving(g, fits, lo, hi)
      OBVIOUS
    <3>2. CASE lo >= hi
      BY <3>1, <3>2 DEF Halving
    <3>3. CASE lo < hi
      <4> DEFINE mid == lo + (hi - lo + 1) \div 2
      <4>1. mid \in lo + 1 .. hi /\ mid \in 0..want /\ mid - 1 \in 0..want /\ d > 0
        BY <3>3, <2>2, Middle
      <4>2. g[<<mid, hi>>] = h[<<mid, hi>>]
        <5>1. hi - mid <= d - 1
          BY <4>1, <2>2
        <5>2. g[<<mid, hi>>] = Halving(g, fits, mid, hi)
          BY <5>1, <4>1, <1>1
        <5> HIDE DEF mid
        <5> QED
          BY <5>2, <4>1
      <4>3. g[<<lo, mid - 1>>] = h[<<lo, mid - 1>>]
        <5>1. mid - 1 - lo <= d - 1
          BY <4>1, <2>2
        <5>2. g[<<lo, mid - 1>>] = Halving(g, fits, lo, mid - 1)
          BY <5>1, <4>1, <1>1
        <5> HIDE DEF mid
        <5> QED
          BY <5>2, <4>1
      <4> HIDE DEF h
      <4> QED
        BY <3>1, <4>2, <4>3 DEF Halving
    <3> QED
      BY <3>2, <3>3
  <2> QED
    BY <2>1, <2>2
<1>2. 0 \in S
  <2>1. PICK zero \in [D -> Int] : TRUE
    <3>1. [r \in D |-> 0] \in [D -> Int]
      OBVIOUS
    <3> QED
      BY <3>1
  <2> HIDE DEF Upto, D
  <2> QED
    BY <1>1
<1>3. ASSUME NEW d \in 1..want, d - 1 \in S PROVE d \in S
  <2> HIDE DEF Upto, D
  <2> QED
    BY <1>1, <1>3
<1>4. want \in S
  <2>1. want \in 0..want
    OBVIOUS
  <2> HIDE DEF S
  <2> QED
    BY <2>1, <1>2, <1>3, UpTo
<1>5. PICK g \in [D -> Int] : Upto(g, want)
  <2> HIDE DEF Upto
  <2> QED
    BY <1>4
<1>6. g = [r \in D |-> Halving(g, fits, r[1], r[2])]
  <2>1. \A lo \in 0..want, hi \in 0..want : hi - lo <= want
    OBVIOUS
  <2> QED
    BY <1>5, <2>1
<1> QED
  BY <1>6 DEF IsBisection

LEMMA BisectIs ==
    ASSUME NEW want \in Nat, NEW fits
    PROVE  \A lo \in 0..want, hi \in 0..want :
              Bisect(fits, want)[<<lo, hi>>] = Halving(Bisect(fits, want), fits, lo, hi)
<1>1. \E g : IsBisection(g, fits, want)
  BY BisectExists
<1>2. Bisect(fits, want) = CHOOSE h : IsBisection(h, fits, want)
  BY DEF Bisect, IsBisection, Halving
<1>3. IsBisection(Bisect(fits, want), fits, want)
  BY <1>1, <1>2
<1> QED
  BY <1>3 DEF IsBisection

\* It ends where a page fits and the next larger one does not.
LEMMA BisectEnds ==
    ASSUME NEW want \in Nat, NEW fits \in [0..want -> BOOLEAN], NEW r,
           r = Bisect(fits, want)[<<0, want>>]
    PROVE  /\ r \in 0..want
           /\ r = 0 \/ fits[r]
           /\ r = want \/ ~ fits[r + 1]
<1> DEFINE g == Bisect(fits, want)
           Good(lo, hi, e) == /\ e \in lo..hi
                              /\ e = lo \/ fits[e]
                              /\ e = hi \/ ~ fits[e + 1]
           S == {d \in 0..want : \A lo \in 0..want, hi \in 0..want :
                    lo <= hi /\ hi - lo <= d => Good(lo, hi, g[<<lo, hi>>])}
<1>1. ASSUME NEW lo \in 0..want, NEW hi \in 0..want
      PROVE  g[<<lo, hi>>] = Halving(g, fits, lo, hi)
  BY BisectIs
<1> HIDE DEF g
<1>2. 0 \in S
  <2> SUFFICES ASSUME NEW lo \in 0..want, NEW hi \in 0..want, lo <= hi, hi - lo <= 0
               PROVE  Good(lo, hi, g[<<lo, hi>>])
    OBVIOUS
  <2>1. lo = hi
    OBVIOUS
  <2>2. g[<<lo, hi>>] = lo
    BY <1>1, <2>1 DEF Halving
  <2> QED
    BY <2>1, <2>2
<1>3. ASSUME NEW d \in 1..want, d - 1 \in S PROVE d \in S
  <2>0. d \in 0..want
    OBVIOUS
  <2> SUFFICES ASSUME NEW lo \in 0..want, NEW hi \in 0..want, lo <= hi, hi - lo <= d
               PROVE  Good(lo, hi, g[<<lo, hi>>])
    BY <2>0
  <2>1. CASE lo = hi
    <3>1. g[<<lo, hi>>] = lo
      BY <1>1, <2>1 DEF Halving
    <3> QED
      BY <2>1, <3>1
  <2>2. CASE lo < hi
    <3> DEFINE mid == lo + (hi - lo + 1) \div 2
    <3>1. mid \in lo + 1 .. hi /\ mid \in 0..want /\ mid - 1 \in 0..want
      <4>1. mid \in Nat /\ lo < mid /\ mid <= hi /\ mid - 1 \in Nat
        <5>1. lo \in Nat /\ hi \in Nat
          OBVIOUS
        <5> QED
          BY ONLY <5>1, <2>2, Middle
      <4> HIDE DEF mid
      <4> QED
        BY <4>1
    <3>2. g[<<lo, hi>>] = IF fits[mid] THEN g[<<mid, hi>>] ELSE g[<<lo, mid - 1>>]
      BY <1>1, <2>2 DEF Halving
    <3> HIDE DEF mid
    <3>3. CASE fits[mid]
      <4>1. Good(mid, hi, g[<<mid, hi>>])
        <5>1. mid <= hi /\ hi - mid <= d - 1
          BY <3>1
        <5> HIDE DEF Good
        <5> QED
          BY <5>1, <3>1, <1>3
      <4> QED
        BY <4>1, <3>1, <3>2, <3>3
    <3>4. CASE ~ fits[mid]
      <4>1. Good(lo, mid - 1, g[<<lo, mid - 1>>])
        <5>1. lo <= mid - 1 /\ mid - 1 - lo <= d - 1
          BY <3>1
        <5> HIDE DEF Good
        <5> QED
          BY <5>1, <3>1, <1>3
      <4> QED
        BY <4>1, <3>1, <3>2, <3>4
    <3> QED
      BY <3>3, <3>4
  <2> QED
    BY <2>1, <2>2
<1>4. want \in S
  <2>1. want \in 0..want
    OBVIOUS
  <2> HIDE DEF S
  <2> QED
    BY <2>1, <1>2, <1>3, UpTo
<1>5. Good(0, want, g[<<0, want>>])
  <2>1. 0 \in 0..want /\ want \in 0..want /\ 0 <= want /\ want - 0 <= want
    OBVIOUS
  <2> HIDE DEF Good
  <2> QED
    BY <1>4, <2>1
<1> QED
  BY <1>5 DEF g
-----------------------------------------------------------------------------
\* g goes from first along 1..n by next, and stays in V.
Recursion(g, n, V, first, next) ==
    g \in [0..n -> V] /\ g[0] = first /\ \A k \in 1..n : g[k] = next[<<g[k - 1], k>>]

\* A recursion that never leaves V has a function that does it.
LEMMA RecursionExists ==
    ASSUME NEW n \in Nat, NEW V, NEW first \in V, NEW next \in [V \X (1..n) -> V]
    PROVE  \E g : Recursion(g, n, V, first, next)
<1> DEFINE Upto(g, m) == g[0] = first /\ \A k \in 1..m : g[k] = next[<<g[k - 1], k>>]
           S == {m \in 0..n : \E g \in [0..n -> V] : Upto(g, m)}
<1>1. n \in 0..n /\ 0 \in 0..n
  OBVIOUS
<1>2. 0 \in S
  <2>1. [k \in 0..n |-> first] \in [0..n -> V] /\ Upto([k \in 0..n |-> first], 0)
    BY <1>1
  <2> HIDE DEF Upto
  <2> QED
    BY <2>1, <1>1
<1>3. ASSUME NEW m \in 1..n, m - 1 \in S PROVE m \in S
  <2>1. PICK g \in [0..n -> V] : Upto(g, m - 1)
    BY <1>3
  <2>2. m - 1 \in 0..n /\ m \in 0..n
    BY <1>1
  <2> DEFINE h == [g EXCEPT ![m] = next[<<g[m - 1], m>>]]
  <2>3. h \in [0..n -> V]
    <3>1. next[<<g[m - 1], m>>] \in V
      BY <2>2
    <3> QED
      BY <3>1
  <2>4. Upto(h, m)
    <3>1. h[0] = first
      BY <2>1, <1>1
    <3>2. ASSUME NEW k \in 1..m PROVE h[k] = next[<<h[k - 1], k>>]
      <4>1. k \in 0..n /\ k - 1 \in 0..n /\ k - 1 # m
        BY <1>1
      <4>2. CASE k = m
        BY <4>1, <4>2, <2>2
      <4>3. CASE k # m
        BY <4>1, <4>3, <2>1
      <4> QED
        BY <4>2, <4>3
    <3> QED
      BY <3>1, <3>2
  <2> HIDE DEF h, Upto
  <2> QED
    BY <2>2, <2>3, <2>4
<1>4. n \in S
  <2> HIDE DEF S
  <2> QED
    BY <1>1, <1>2, <1>3, UpTo
<1> QED
  BY <1>4 DEF Recursion

IsSum(g, page) ==
    g = [k \in 0..Len(page) |-> IF k = 0 THEN 0 ELSE g[k - 1] + Size[page[k]]]

LEMMA SumExists ==
    ASSUME Size \in [Notes -> Nat], NEW page \in Seq(Notes)
    PROVE  \E g : IsSum(g, page)
<1> DEFINE n == Len(page)
           next == [p \in Nat \X (1..n) |-> p[1] + Size[page[p[2]]]]
<1>1. n \in Nat
  OBVIOUS
<1>2. next \in [Nat \X (1..n) -> Nat]
  OBVIOUS
<1>3. PICK g : Recursion(g, n, Nat, 0, next)
  <2>1. 0 \in Nat
    OBVIOUS
  <2> HIDE DEF next, n
  <2> QED
    BY <1>1, <1>2, <2>1, RecursionExists
<1>4. g \in [0..n -> Nat] /\ g[0] = 0 /\ \A k \in 1..n : g[k] = next[<<g[k - 1], k>>]
  <2> HIDE DEF next
  <2> QED
    BY <1>3 DEF Recursion
<1>5. ASSUME NEW k \in 0..n PROVE g[k] = IF k = 0 THEN 0 ELSE g[k - 1] + Size[page[k]]
  <2>1. CASE k = 0
    BY <2>1, <1>4
  <2>2. CASE k # 0
    <3>1. k \in 1..n /\ k - 1 \in 0..n
      BY <2>2, <1>1
    <3>2. g[k - 1] \in Nat
      <4> HIDE DEF n
      <4> QED
        BY <3>1, <1>4
    <3>3. g[k] = next[<<g[k - 1], k>>]
      BY <3>1, <1>4
    <3> QED
      BY <2>2, <3>1, <3>2, <3>3
  <2> QED
    BY <2>1, <2>2
<1>6. g = [k \in 0..n |-> g[k]]
  BY <1>4
<1> QED
  BY <1>5, <1>6 DEF IsSum

\* What the notes of a page take, note by note.
LEMMA SizeOfIs ==
    ASSUME Size \in [Notes -> Nat], NEW page \in Seq(Notes)
    PROVE  /\ SizeOf(page)[0] = 0
           /\ \A k \in 1..Len(page) : SizeOf(page)[k] = SizeOf(page)[k - 1] + Size[page[k]]
           /\ \A k \in 0..Len(page) : SizeOf(page)[k] \in Nat
<1> DEFINE g == SizeOf(page)
           n == Len(page)
           S == {k \in 0..n : g[k] \in Nat}
<1>1. \E f : IsSum(f, page)
  BY SumExists
<1>2. g = CHOOSE f : IsSum(f, page)
  BY DEF SizeOf, IsSum
<1>3. IsSum(g, page)
  BY <1>1, <1>2
<1> HIDE DEF g
<1>4. n \in Nat /\ n \in 0..n /\ 0 \in 0..n
  OBVIOUS
<1>5. g[0] = 0 /\ \A k \in 1..n : g[k] = g[k - 1] + Size[page[k]]
  <2>1. \A k \in 0..n : g[k] = IF k = 0 THEN 0 ELSE g[k - 1] + Size[page[k]]
    BY <1>3 DEF IsSum
  <2>2. \A k \in 1..n : k \in 0..n /\ k # 0
    BY <1>4
  <2> HIDE DEF n
  <2> QED
    BY <2>1, <2>2, <1>4
<1>6. 0..n \subseteq S
  <2>1. 0 \in S
    BY <1>4, <1>5
  <2>2. ASSUME NEW k \in 1..n, k - 1 \in S PROVE k \in S
    <3>1. page[k] \in Notes /\ k \in 0..n
      BY <1>4
    <3> QED
      BY <3>1, <2>2, <1>5
  <2> HIDE DEF S, n
  <2> QED
    BY <2>1, <2>2, <1>4, UpTo
<1> QED
  BY <1>5, <1>6 DEF g

\* A longer page takes no less.
LEMMA SizeGrows ==
    ASSUME Size \in [Notes -> Nat], NEW p \in Seq(Notes), NEW q \in Seq(Notes),
           Len(p) <= Len(q), \A k \in 1..Len(p) : p[k] = q[k]
    PROVE  SizeOf(p)[Len(p)] <= SizeOf(q)[Len(q)]
<1> DEFINE f == SizeOf(p)
           g == SizeOf(q)
           n == Len(p)
           d == Len(q) - Len(p)
           S == {k \in 0..n : f[k] = g[k]}
           U == {k \in 0..d : g[n] <= g[n + k]}
<1>1. /\ f[0] = 0
      /\ \A k \in 1..n : f[k] = f[k - 1] + Size[p[k]]
  BY SizeOfIs
<1>2. /\ g[0] = 0
      /\ \A k \in 1..Len(q) : g[k] = g[k - 1] + Size[q[k]]
      /\ \A k \in 0..Len(q) : g[k] \in Nat
  BY SizeOfIs
<1> HIDE DEF f, g
<1>3. n \in Nat /\ d \in Nat
  OBVIOUS
<1>4. 0..n \subseteq S
  <2>1. 0 \in S
    BY <1>1, <1>2, <1>3
  <2>2. ASSUME NEW k \in 1..n, k - 1 \in S PROVE k \in S
    <3>1. k \in 1..Len(q) /\ k \in 0..n
      BY <1>3
    <3> QED
      BY <3>1, <2>2, <1>1, <1>2
  <2> HIDE DEF S, n
  <2> QED
    BY <2>1, <2>2, <1>3, UpTo
<1>5. 0..d \subseteq U
  <2>1. 0 \in U
    <3>1. n \in 0..Len(q) /\ n + 0 = n /\ 0 \in 0..d
      BY <1>3
    <3>2. g[n] \in Nat
      BY <3>1, <1>2
    <3> QED
      BY <3>1, <3>2
  <2>2. ASSUME NEW k \in 1..d, k - 1 \in U PROVE k \in U
    <3>1. n + k \in 1..Len(q) /\ n + (k - 1) = (n + k) - 1 /\ k \in 0..d
          /\ n \in 0..Len(q) /\ (n + k) - 1 \in 0..Len(q)
      BY <1>3
    <3>2. g[n + k] = g[n + (k - 1)] + Size[q[n + k]] /\ q[n + k] \in Notes
      BY <3>1, <1>2
    <3>3. g[n] \in Nat /\ g[n + (k - 1)] \in Nat /\ Size[q[n + k]] \in Nat
      BY <3>1, <3>2, <1>2
    <3>4. g[n] <= g[n + (k - 1)]
      BY <2>2
    <3>5. g[n] <= g[n + k]
      BY <3>2, <3>3, <3>4
    <3> QED
      BY <3>1, <3>5
  <2> HIDE DEF U, d
  <2> QED
    BY <2>1, <2>2, <1>3, UpTo
<1>6. f[n] = g[n]
  BY <1>4, <1>3
<1>7. g[n] <= g[n + d]
  <2>1. d \in U
    <3> HIDE DEF U, d
    <3> QED
      BY <1>5, <1>3
  <2> HIDE DEF d, n
  <2> QED
    BY <2>1
<1>8. n + d = Len(q)
  OBVIOUS
<1> QED
  BY <1>6, <1>7, <1>8 DEF f, g
-----------------------------------------------------------------------------
\* The fields of json_writer_t.
JsonWriter == [ok: BOOLEAN, root: BOOLEAN, depth: Nat, len: Int, buf: Int]

LEMMA WriterFields ==
    ASSUME NEW w \in JsonWriter
    PROVE  /\ w.ok \in BOOLEAN /\ w.root \in BOOLEAN
           /\ w.depth \in Nat /\ w.len \in Int /\ w.buf \in Int
BY DEF JsonWriter

LEMMA BeginsType ==
    ASSUME NEW w \in JsonWriter, NEW x \in Int
    PROVE  JwBegin(w, x) \in JsonWriter
<1>1. PICK d \in Nat, l \in Int : d = w.depth + 1 /\ l = w.len + x
  BY WriterFields
<1>2. [w EXCEPT !.root = TRUE, !.depth = d, !.len = l] \in JsonWriter
  BY DEF JsonWriter
<1>3. [w EXCEPT !.ok = FALSE] \in JsonWriter /\ [w EXCEPT !.ok = FALSE, !.root = TRUE] \in JsonWriter
  BY DEF JsonWriter
<1> QED
  BY <1>1, <1>2, <1>3, Zenon DEF JwBegin

LEMMA FieldType ==
    ASSUME NEW w \in JsonWriter, NEW x \in Int
    PROVE  JwField(w, x) \in JsonWriter
<1>1. PICK l \in Int : l = w.len + x
  BY WriterFields
<1>2. [w EXCEPT !.len = l] \in JsonWriter
  BY DEF JsonWriter
<1>3. [w EXCEPT !.ok = FALSE] \in JsonWriter
  BY DEF JsonWriter
<1> QED
  BY <1>1, <1>2, <1>3, Zenon DEF JwField

LEMMA EndType ==
    ASSUME NEW w \in JsonWriter
    PROVE  JwEnd(w) \in JsonWriter
<1>1. PICK d \in Nat : d = IF w.depth > 0 THEN w.depth - 1 ELSE 0
  BY WriterFields
<1>2. [w EXCEPT !.depth = d] \in JsonWriter
  BY DEF JsonWriter
<1>3. ASSUME NEW v \in JsonWriter PROVE JwFinalize(v) \in JsonWriter
  <2>1. PICK f \in BOOLEAN : f = (v.ok /\ v.root /\ v.len + 1 <= Cap)
    BY Zenon
  <2>2. PICK b \in Int : b = IF f THEN v.len ELSE v.buf
    BY WriterFields
  <2>3. [v EXCEPT !.root = FALSE, !.ok = f, !.buf = b] \in JsonWriter
    BY DEF JsonWriter
  <2> QED
    BY <2>1, <2>2, <2>3, Zenon DEF JwFinalize
<1> QED
  BY <1>1, <1>2, <1>3, Zenon DEF JwEnd

\* It has written len characters inside of depth containers, all of them well.
Wrote(w, depth, len) ==
    /\ w \in JsonWriter
    /\ w.ok /\ (w.root <=> depth > 0) /\ w.depth = depth /\ w.len = len

LEMMA Begins ==
    ASSUME NEW w, NEW d \in 0..7, NEW l \in Int, NEW x \in Int, Wrote(w, d, l)
    PROVE  Wrote(JwBegin(w, x), d + 1, l + x)
<1>1. w \in JsonWriter /\ w.ok /\ w.depth = d /\ w.len = l
  BY Zenon DEF Wrote
<1>2. ~ (w.root /\ w.depth = 0) /\ ~ (w.depth >= 8)
  <2>1. (w.root <=> d > 0) /\ w.depth = d
    BY Zenon DEF Wrote
  <2>2. (d > 0 => d # 0) /\ ~ (d >= 8)
    OBVIOUS
  <2> QED
    BY <2>1, <2>2, Zenon
<1>3. PICK e \in Nat, m \in Int : e = d + 1 /\ m = l + x
  OBVIOUS
<1> DEFINE v == [w EXCEPT !.root = TRUE, !.depth = e, !.len = m]
<1>4. v \in JsonWriter /\ (v.ok <=> w.ok) /\ v.root /\ v.depth = e /\ v.len = m
  BY <1>1 DEF JsonWriter
<1>5. JwBegin(w, x) = v
  BY <1>1, <1>2, <1>3, Zenon DEF JwBegin, JwMaxDepth
<1> HIDE DEF v
<1>6. e > 0
  BY <1>3
<1> QED
  BY <1>1, <1>3, <1>4, <1>5, <1>6, Zenon DEF Wrote

LEMMA Fields ==
    ASSUME NEW w, NEW d \in 1..8, NEW l \in Int, NEW x \in Int, Wrote(w, d, l)
    PROVE  Wrote(JwField(w, x), d, l + x)
<1>1. w \in JsonWriter /\ w.ok /\ w.depth = d /\ w.len = l /\ (w.root <=> d > 0)
  BY Zenon DEF Wrote
<1>2. w.depth # 0
  BY <1>1
<1>3. PICK m \in Int : m = l + x
  OBVIOUS
<1> DEFINE v == [w EXCEPT !.len = m]
<1>4. v \in JsonWriter /\ (v.ok <=> w.ok) /\ (v.root <=> w.root) /\ v.depth = w.depth /\ v.len = m
  BY <1>1 DEF JsonWriter
<1>5. JwField(w, x) = v
  BY <1>1, <1>2, <1>3, Zenon DEF JwField
<1> HIDE DEF v
<1> QED
  BY <1>1, <1>3, <1>4, <1>5, Zenon DEF Wrote

LEMMA Ends ==
    ASSUME NEW w, NEW d \in 2..8, NEW l \in Int, Wrote(w, d, l)
    PROVE  Wrote(JwEnd(w), d - 1, l)
<1>1. w \in JsonWriter /\ w.ok /\ w.depth = d /\ w.len = l /\ (w.root <=> d > 0)
  BY Zenon DEF Wrote
<1>2. PICK e \in Nat : e = IF w.depth > 0 THEN w.depth - 1 ELSE 0
  BY <1>1
<1>3. e = d - 1 /\ e # 0 /\ e > 0 /\ d > 0
  BY <1>1, <1>2
<1> DEFINE v == [w EXCEPT !.depth = e]
<1>4. v \in JsonWriter /\ (v.ok <=> w.ok) /\ (v.root <=> w.root) /\ v.depth = e /\ v.len = w.len
  BY <1>1 DEF JsonWriter
<1>5. v = [w EXCEPT !.depth = IF @ > 0 THEN @ - 1 ELSE 0]
  BY <1>2, Zenon
<1>6. JwEnd(w) = v
  <2>1. v.depth # 0
    BY <1>3, <1>4, Zenon
  <2> HIDE DEF v
  <2> QED
    BY <2>1, <1>5, Zenon DEF JwEnd
<1> HIDE DEF v
<1> QED
  BY <1>1, <1>3, <1>4, <1>6, Zenon DEF Wrote

LEMMA Closes ==
    ASSUME NEW w, NEW l \in Int, Wrote(w, 1, l), Cap \in Nat
    PROVE  (JwEnd(w).ok <=> l < Cap) /\ (JwEnd(w).ok => JwEnd(w).buf = l)
<1>1. w \in JsonWriter /\ w.ok /\ w.depth = 1 /\ w.len = l /\ (w.root <=> 1 > 0)
  BY Zenon DEF Wrote
<1>2. PICK e \in Nat : e = IF w.depth > 0 THEN w.depth - 1 ELSE 0
  BY <1>1
<1>3. e = 0 /\ 1 > 0 /\ (l + 1 <= Cap <=> l < Cap)
  BY <1>1, <1>2
<1> DEFINE v == [w EXCEPT !.depth = e]
<1>4. v \in JsonWriter /\ (v.ok <=> w.ok) /\ (v.root <=> w.root) /\ v.depth = e /\ v.len = w.len
  BY <1>1 DEF JsonWriter
<1>5. v = [w EXCEPT !.depth = IF @ > 0 THEN @ - 1 ELSE 0]
  BY <1>2, Zenon
<1> HIDE DEF v
<1>6. JwEnd(w) = JwFinalize(v)
  BY <1>3, <1>4, <1>5, Zenon DEF JwEnd
<1>7. PICK f \in BOOLEAN : f = (v.ok /\ v.root /\ v.len + 1 <= Cap)
  BY Zenon
<1>8. f <=> l < Cap
  BY <1>1, <1>3, <1>4, <1>7, Zenon
<1>9. PICK b \in Int : b = IF f THEN v.len ELSE v.buf
  BY <1>4, WriterFields
<1> DEFINE u == [v EXCEPT !.root = FALSE, !.ok = f, !.buf = b]
<1>10. JwFinalize(v) = u
  BY <1>7, <1>9, Zenon DEF JwFinalize
<1>11. (u.ok <=> f) /\ u.buf = b
  BY <1>4 DEF JsonWriter
<1> HIDE DEF u
<1>12. f => u.buf = l
  BY <1>1, <1>4, <1>9, <1>11, Zenon
<1> QED
  BY <1>6, <1>8, <1>10, <1>11, <1>12, Zenon

LEMMA NoteType ==
    ASSUME Size \in [Notes -> Nat], NEW n \in Notes, NEW w \in JsonWriter
    PROVE  WriteNote(w, n) \in JsonWriter
<1>1. Size[n] - 2 \in Int /\ 2 \in Int /\ 0 \in Int
  OBVIOUS
<1> QED
  BY <1>1, BeginsType, FieldType, EndType, Zenon DEF WriteNote

LEMMA NoteIsWritten ==
    ASSUME Size \in [Notes -> Nat], NEW n \in Notes, NEW len \in Int, NEW w, Wrote(w, 2, len)
    PROVE  Wrote(WriteNote(w, n), 2, len + Size[n])
<1> DEFINE size == Size[n]
           w1 == JwBegin(w, 2)
           w2 == JwField(w1, size - 2)
           w3 == JwBegin(w2, 0)
           w4 == JwEnd(w3)
<1>1. size \in Int
  OBVIOUS
<1> HIDE DEF size
<1>2. Wrote(w1, 2 + 1, len + 2)
  <2>1. 2 \in 0..7 /\ 2 \in Int
    OBVIOUS
  <2> QED
    BY <2>1, Begins, Zenon
<1>3. Wrote(w2, 3, len + size)
  <2>1. 2 + 1 = 3 /\ 3 \in 1..8 /\ len + 2 \in Int /\ size - 2 \in Int /\ len + 2 + (size - 2) = len + size
    BY <1>1
  <2>2. Wrote(w2, 3, len + 2 + (size - 2))
    <3> HIDE DEF w1
    <3> QED
      BY <1>2, <2>1, Fields, Zenon
  <2> QED
    BY <2>1, <2>2
<1>4. Wrote(w3, 4, len + size)
  <2>1. 3 + 1 = 4 /\ 3 \in 0..7 /\ 0 \in Int /\ len + size \in Int /\ len + size + 0 = len + size
    BY <1>1
  <2>2. Wrote(w3, 3 + 1, len + size + 0)
    <3> HIDE DEF w2
    <3> QED
      BY <1>3, <2>1, Begins, Zenon
  <2> QED
    BY <2>1, <2>2
<1>5. len + size \in Int
  BY <1>1
<1>6. Wrote(w4, 3, len + size)
  <2>1. 4 - 1 = 3 /\ 4 \in 2..8
    OBVIOUS
  <2>2. Wrote(w4, 4 - 1, len + size)
    <3> HIDE DEF w3
    <3> QED
      BY <1>4, <1>5, <2>1, Ends, Zenon
  <2> QED
    BY <2>1, <2>2
<1>7. Wrote(JwEnd(w4), 2, len + size)
  <2>1. 3 - 1 = 2 /\ 3 \in 2..8
    OBVIOUS
  <2>2. Wrote(JwEnd(w4), 3 - 1, len + size)
    <3> HIDE DEF w4
    <3> QED
      BY <1>6, <1>5, <2>1, Ends, Zenon
  <2> QED
    BY <2>1, <2>2
<1> QED
  BY <1>7 DEF WriteNote, size

IsWritten(g, w, page) ==
    g = [k \in 0..Len(page) |-> IF k = 0 THEN w ELSE WriteNote(g[k - 1], page[k])]

LEMMA WriteNotesIs ==
    ASSUME Size \in [Notes -> Nat], NEW page \in Seq(Notes), NEW w \in JsonWriter
    PROVE  /\ WriteNotes(w, page)[0] = w
           /\ \A k \in 1..Len(page) :
                 WriteNotes(w, page)[k] = WriteNote(WriteNotes(w, page)[k - 1], page[k])
<1> DEFINE n == Len(page)
           next == [p \in JsonWriter \X (1..n) |-> WriteNote(p[1], page[p[2]])]
           f == WriteNotes(w, page)
<1>1. n \in Nat
  OBVIOUS
<1>2. next \in [JsonWriter \X (1..n) -> JsonWriter]
  <2>1. ASSUME NEW p \in JsonWriter \X (1..n) PROVE WriteNote(p[1], page[p[2]]) \in JsonWriter
    <3>1. p[1] \in JsonWriter /\ page[p[2]] \in Notes
      OBVIOUS
    <3> QED
      BY <3>1, NoteType
  <2> QED
    BY <2>1
<1>3. PICK g : Recursion(g, n, JsonWriter, w, next)
  <2> HIDE DEF next, n
  <2> QED
    BY <1>1, <1>2, RecursionExists
<1>4. g \in [0..n -> JsonWriter] /\ g[0] = w /\ \A k \in 1..n : g[k] = next[<<g[k - 1], k>>]
  <2> HIDE DEF next
  <2> QED
    BY <1>3 DEF Recursion
<1>5. ASSUME NEW k \in 0..n PROVE g[k] = IF k = 0 THEN w ELSE WriteNote(g[k - 1], page[k])
  <2>1. CASE k = 0
    BY <2>1, <1>4
  <2>2. CASE k # 0
    <3>1. k \in 1..n /\ k - 1 \in 0..n
      BY <2>2, <1>1
    <3>2. g[k] = next[<<g[k - 1], k>>] /\ g[k - 1] \in JsonWriter
      BY <3>1, <1>4
    <3> QED
      BY <2>2, <3>1, <3>2
  <2> QED
    BY <2>1, <2>2
<1>6. IsWritten(g, w, page)
  <2>1. g = [k \in 0..n |-> g[k]]
    BY <1>4
  <2> QED
    BY <1>5, <2>1 DEF IsWritten
<1>7. f = CHOOSE h : IsWritten(h, w, page)
  BY DEF WriteNotes, IsWritten
<1> HIDE DEF f
<1>8. IsWritten(f, w, page)
  BY <1>6, <1>7
<1>9. \A k \in 0..n : f[k] = IF k = 0 THEN w ELSE WriteNote(f[k - 1], page[k])
  BY <1>8 DEF IsWritten
<1>10. 0 \in 0..n /\ \A k \in 1..n : k \in 0..n /\ k # 0
  BY <1>1
<1> HIDE DEF n
<1> QED
  BY <1>9, <1>10 DEF f, n

\* After k notes the writer is as much longer as they take, and nothing else.
LEMMA NotesAreWritten ==
    ASSUME Size \in [Notes -> Nat], NEW page \in Seq(Notes), NEW len \in Int,
           NEW w, Wrote(w, 2, len)
    PROVE  \A k \in 0..Len(page) :
              Wrote(WriteNotes(w, page)[k], 2, len + SizeOf(page)[k])
<1> DEFINE n == Len(page)
           sum == SizeOf(page)
           f == WriteNotes(w, page)
           S == {k \in 0..n : Wrote(f[k], 2, len + sum[k])}
<1>1. /\ sum[0] = 0
      /\ \A k \in 1..n : sum[k] = sum[k - 1] + Size[page[k]]
      /\ \A k \in 0..n : sum[k] \in Nat
  BY SizeOfIs
<1>2. f[0] = w /\ \A k \in 1..n : f[k] = WriteNote(f[k - 1], page[k])
  <2>1. w \in JsonWriter
    BY Zenon DEF Wrote
  <2> QED
    BY <2>1, WriteNotesIs
<1> HIDE DEF sum, f
<1>3. n \in Nat /\ 0 \in 0..n
  OBVIOUS
<1>4. 0 \in S
  <2>1. len + sum[0] = len
    BY <1>1
  <2> QED
    BY <2>1, <1>2, <1>3
<1>5. ASSUME NEW k \in 1..n, k - 1 \in S PROVE k \in S
  <2>1. k \in 0..n /\ k - 1 \in 0..n /\ page[k] \in Notes
    BY <1>3
  <2>2. sum[k - 1] \in Nat /\ Size[page[k]] \in Nat /\ sum[k] = sum[k - 1] + Size[page[k]]
    BY <2>1, <1>1
  <2>3. len + sum[k - 1] \in Int /\ len + sum[k - 1] + Size[page[k]] = len + sum[k]
    BY <2>2
  <2>4. Wrote(f[k - 1], 2, len + sum[k - 1])
    BY <1>5
  <2>5. Wrote(f[k], 2, len + sum[k - 1] + Size[page[k]])
    BY <2>1, <2>3, <2>4, <1>2, NoteIsWritten
  <2> QED
    BY <2>1, <2>3, <2>5
<1>6. 0..n \subseteq S
  <2> HIDE DEF S, n
  <2> QED
    BY <1>3, <1>4, <1>5, UpTo
<1> QED
  BY <1>6 DEF f, sum

-----------------------------------------------------------------------------
Tagged(tag) == IF tag THEN TagLen ELSE 0

\* A reply is whole, its tag included, or it is none.
LEMMA Ended ==
    ASSUME Cap \in Nat, TagLen \in Nat, NEW tag \in BOOLEAN, NEW len \in Nat,
           NEW w, Wrote(w, 1, len)
    PROVE  LET reply == EndResponse(w, tag)
           IN  /\ reply \in JsonWriter
               /\ reply.ok <=> len + Tagged(tag) < Cap
               /\ reply.ok => reply.buf = len + Tagged(tag)
<1> DEFINE z == Tagged(tag)
           done == IF tag THEN JwField(w, TagLen) ELSE w
<1>1. Wrote(done, 1, len + z)
  <2>1. CASE tag
    <3>1. 1 \in 1..8 /\ len \in Int /\ TagLen \in Int /\ z = TagLen
          /\ done = JwField(w, TagLen)
      BY <2>1 DEF Tagged
    <3> QED
      BY <3>1, Fields, Zenon
  <2>2. CASE ~ tag
    <3>1. len + z = len /\ done = w
      BY <2>2 DEF Tagged
    <3> QED
      BY <3>1
  <2> QED
    BY <2>1, <2>2
<1>2. EndResponse(w, tag) = JwEnd(done)
  BY DEF EndResponse
<1>3. len + z \in Int
  BY DEF Tagged
<1> HIDE DEF done
<1>4. done \in JsonWriter
  BY <1>1, Zenon DEF Wrote
<1>5. JwEnd(done) \in JsonWriter
  BY <1>4, EndType
<1> HIDE DEF z
<1>6. /\ JwEnd(done).ok <=> len + z < Cap
      /\ JwEnd(done).ok => JwEnd(done).buf = len + z
  BY <1>1, <1>3, Closes
<1> QED
  BY <1>2, <1>5, <1>6 DEF z

LEMMA StartsEmpty == Wrote(JwInit, 0, 0)
BY DEF JwInit, Wrote, JsonWriter

\* There is always room for an error.
LEMMA ErrorsFit ==
    ASSUME NEW tag \in BOOLEAN
    PROVE  WriteError(tag).buf \in 1..Cap - 1
<1> DEFINE w1 == JwBegin(JwInit, 0)
           w2 == JwField(w1, ErrorLen)
<1>1. /\ ErrorLen \in Nat \ {0} /\ TagLen \in Nat /\ Cap \in Nat /\ ErrorLen + TagLen < Cap
  BY ListingAssumption
<1>2. Wrote(w1, 0 + 1, 0 + 0)
  <2>1. 0 \in 0..7 /\ 0 \in Int
    OBVIOUS
  <2> QED
    BY <2>1, StartsEmpty, Begins, Zenon
<1>3. Wrote(w2, 1, ErrorLen)
  <2>1. 0 + 1 = 1 /\ 0 + 0 = 0 /\ 1 \in 1..8 /\ 0 \in Int /\ ErrorLen \in Int /\ 0 + ErrorLen = ErrorLen
    BY <1>1
  <2>2. Wrote(w2, 1, 0 + ErrorLen)
    <3> HIDE DEF w1
    <3> QED
      BY <1>2, <2>1, Fields, Zenon
  <2> QED
    BY <2>1, <2>2
<1>4. ErrorLen + Tagged(tag) \in 1..Cap - 1
  BY <1>1 DEF Tagged
<1> HIDE DEF w2
<1>5. EndResponse(w2, tag).buf = ErrorLen + Tagged(tag)
  BY <1>1, <1>3, <1>4, Ended
<1> QED
  BY <1>4, <1>5 DEF WriteError, w2

-----------------------------------------------------------------------------
\* The characters of a whole listing.
Whole(held, from, count, tag) ==
    HeadLen + SizeOf(SubSeq(held, from + 1, from + count))[count]
        + (IF from + count < Len(held) THEN NextLen ELSE 0) + Tagged(tag)

Fits(held, from, count, tag) == BuildListing(held, from, count, tag).ok

\* A page of count notes, from a place there is.
LEMMA PageOf ==
    ASSUME NEW held \in Seq(Notes), NEW from \in Nat, NEW count \in Nat,
           from + count <= Len(held)
    PROVE  LET page == SubSeq(held, from + 1, from + count)
           IN  /\ page \in Seq(Notes) /\ Len(page) = count
               /\ \A k \in 1..count : page[k] = held[from + k]
OBVIOUS

\* build_listing() fits exactly when all of it does.
LEMMA BuildListingIs ==
    ASSUME NEW held \in Seq(Notes), NEW from \in Nat, NEW count \in Nat,
           from + count <= Len(held), NEW tag \in BOOLEAN
    PROVE  /\ Whole(held, from, count, tag) \in Nat \ {0}
           /\ Fits(held, from, count, tag) \in BOOLEAN
           /\ Fits(held, from, count, tag) <=> Whole(held, from, count, tag) < Cap
           /\ Fits(held, from, count, tag) =>
                 BuildListing(held, from, count, tag).buf = Whole(held, from, count, tag)
<1> DEFINE page == SubSeq(held, from + 1, from + count)
           more == from + count < Len(held)
           w1 == JwBegin(JwInit, 2)
           w2 == JwField(w1, HeadLen - 4)
           head == JwBegin(w2, 2)
           x == HeadLen + SizeOf(page)[count]
           y == IF more THEN NextLen ELSE 0
           listed == JwEnd(WriteNotes(head, page)[count])
           told == IF more THEN JwField(listed, NextLen) ELSE listed
<1>1. page \in Seq(Notes) /\ Len(page) = count
  BY PageOf
<1>2. /\ Size \in [Notes -> Nat] /\ HeadLen \in Nat \ {0} /\ NextLen \in Nat
      /\ TagLen \in Nat /\ Cap \in Nat
  BY ListingAssumption
<1> HIDE DEF page, more
<1>3. Wrote(head, 2, HeadLen)
  <2>1. Wrote(w1, 0 + 1, 0 + 2)
    <3>1. 0 \in 0..7 /\ 0 \in Int /\ 2 \in Int
      OBVIOUS
    <3> QED
      BY <3>1, StartsEmpty, Begins, Zenon
  <2>2. 1 \in 0..7 /\ 1 \in 1..8 /\ 2 \in Int /\ 0 + 1 = 1 /\ 0 + 2 = 2
        /\ HeadLen - 4 \in Int /\ 2 + (HeadLen - 4) \in Int
        /\ 1 + 1 = 2 /\ 2 + (HeadLen - 4) + 2 = HeadLen
    BY <1>2
  <2>3. Wrote(w2, 1, 2 + (HeadLen - 4))
    <3> HIDE DEF w1
    <3> QED
      BY <2>1, <2>2, Fields, Zenon
  <2>4. Wrote(head, 1 + 1, 2 + (HeadLen - 4) + 2)
    <3> HIDE DEF w2
    <3> QED
      BY <2>2, <2>3, Begins, Zenon
  <2> QED
    BY <2>2, <2>4
<1>4. /\ SizeOf(page)[count] \in Nat
      /\ Wrote(WriteNotes(head, page)[count], 2, x)
  <2>1. count \in 0..Len(page) /\ HeadLen \in Int
    BY <1>1, <1>2
  <2> HIDE DEF head
  <2> QED
    BY <2>1, <1>1, <1>2, <1>3, SizeOfIs, NotesAreWritten
<1>5. x \in Nat \ {0} /\ y \in Nat
  BY <1>2, <1>4
<1>6. Wrote(listed, 1, x)
  <2>1. 2 - 1 = 1 /\ 2 \in 2..8 /\ x \in Int
    BY <1>5
  <2>2. Wrote(listed, 2 - 1, x)
    <3> HIDE DEF head, x
    <3> QED
      BY <1>4, <2>1, Ends, Zenon
  <2> QED
    BY <2>1, <2>2
<1> HIDE DEF x, listed
<1>7. Wrote(told, 1, x + y)
  <2>1. CASE more
    <3>1. 1 \in 1..8 /\ x \in Int /\ NextLen \in Int /\ y = NextLen
          /\ told = JwField(listed, NextLen)
      BY <2>1, <1>2, <1>5
    <3> QED
      BY <3>1, <1>6, Fields, Zenon
  <2>2. CASE ~ more
    <3>1. x + y = x /\ told = listed
      BY <2>2, <1>5
    <3> QED
      BY <3>1, <1>6
  <2> QED
    BY <2>1, <2>2
<1>8. BuildListing(held, from, count, tag) = EndResponse(told, tag)
  BY DEF BuildListing, told, listed, page, more
<1>9. x + y \in Nat /\ x + y + Tagged(tag) \in Nat \ {0}
  BY <1>2, <1>5 DEF Tagged
<1>10. x + y + Tagged(tag) = Whole(held, from, count, tag)
  BY DEF x, y, page, more, Whole
<1> HIDE DEF told, y
<1>11. LET reply == EndResponse(told, tag)
       IN  /\ reply.ok \in BOOLEAN
           /\ reply.ok <=> x + y + Tagged(tag) < Cap
           /\ reply.ok => reply.buf = x + y + Tagged(tag)
  BY <1>2, <1>7, <1>9, Ended, WriterFields
<1> QED
  BY <1>8, <1>9, <1>10, <1>11 DEF Fits

\* What fits still fits with fewer notes, while there is a next page in either case.
LEMMA FewerFit ==
    ASSUME NEW held \in Seq(Notes), NEW from \in Nat, NEW tag \in BOOLEAN,
           NEW few \in Nat, NEW many \in Nat, few <= many, from + many < Len(held),
           Fits(held, from, many, tag)
    PROVE  Fits(held, from, few, tag)
<1> DEFINE p == SubSeq(held, from + 1, from + few)
           q == SubSeq(held, from + 1, from + many)
<1>1. p \in Seq(Notes) /\ q \in Seq(Notes) /\ Len(p) = few /\ Len(q) = many
      /\ \A k \in 1..few : p[k] = q[k]
  BY PageOf
<1>2. Size \in [Notes -> Nat] /\ HeadLen \in Nat /\ NextLen \in Nat /\ TagLen \in Nat /\ Cap \in Nat
  BY ListingAssumption
<1> HIDE DEF p, q
<1>3. SizeOf(p)[few] <= SizeOf(q)[many] /\ SizeOf(p)[few] \in Nat /\ SizeOf(q)[many] \in Nat
  <2>1. few \in 0..Len(p) /\ many \in 0..Len(q)
    BY <1>1
  <2>2. SizeOf(p)[Len(p)] <= SizeOf(q)[Len(q)]
    BY <1>1, <1>2, SizeGrows
  <2> QED
    BY <1>1, <1>2, <2>1, <2>2, SizeOfIs
<1>4. Whole(held, from, few, tag) = HeadLen + SizeOf(p)[few] + NextLen + Tagged(tag)
      /\ Whole(held, from, many, tag) = HeadLen + SizeOf(q)[many] + NextLen + Tagged(tag)
  BY DEF Whole, p, q
<1>5. Whole(held, from, many, tag) < Cap
  BY BuildListingIs
<1>6. Whole(held, from, few, tag) < Cap
  <2>1. Tagged(tag) \in Nat
    BY <1>2 DEF Tagged
  <2> DEFINE a == SizeOf(p)[few]
             b == SizeOf(q)[many]
             t == Tagged(tag)
  <2>2. a \in Nat /\ b \in Nat /\ a <= b /\ t \in Nat /\ HeadLen + b + NextLen + t < Cap
    BY <1>3, <1>4, <1>5, <2>1
  <2> HIDE DEF a, b, t
  <2>3. HeadLen + a + NextLen + t < Cap
    BY <1>2, <2>2
  <2> QED
    BY <1>4, <2>3 DEF a, t
<1> QED
  BY <1>6, BuildListingIs

-----------------------------------------------------------------------------
\* What a size_t holds of a limit is a number.
LEMMA AsSizeIs ==
    ASSUME NEW limit \in {None} \cup 0..MaxLimit, limit # None
    PROVE  AsSize(limit) \in Nat
<1>1. limit \in Nat /\ WordSize \in Nat \ {0}
  BY ListingAssumption
<1>2. limit % WordSize \in 0..WordSize - 1
  BY <1>1
<1> QED
  BY <1>1, <1>2 DEF AsSize

LEMMA WantedIs ==
    ASSUME NEW left \in Nat, NEW limit \in {None} \cup 0..MaxLimit
    PROVE  /\ Wanted(left, limit) \in 0..left
           /\ limit = None => Wanted(left, limit) = left
           /\ limit # None =>
                 Wanted(left, limit) = IF AsSize(limit) > left THEN left ELSE AsSize(limit)
<1>1. CASE limit = None
  BY <1>1 DEF Wanted
<1>2. CASE limit # None
  <2>1. AsSize(limit) \in Nat
    BY <1>2, AsSizeIs
  <2> QED
    BY <1>2, <2>1 DEF Wanted
<1> QED
  BY <1>1, <1>2

\* What handle_list_notes() answers: the page asked for if it fits, else, without a
\* limit, the largest that does, if there is one that is not empty.
Answered(held, start, left, limit, tag, reply) ==
    LET want == Wanted(left, limit)
        fits(count) == Fits(held, start, count, tag)
        page(count) == Page(held, start, count, tag)
        none == Refusal("response_too_large", tag)
    IN  \/ fits(want) /\ reply = page(want)
        \/ ~ fits(want) /\ limit # None /\ reply = none
        \/ limit = None /\ reply = none /\ \A count \in 1..left : ~ fits(count)
        \/ limit = None /\ \E count \in 1..left :
              /\ count < left /\ fits(count) /\ reply = page(count)
              /\ \A more \in count + 1..left : ~ fits(more)

LEMMA Answers ==
    ASSUME NEW held \in Seq(Notes), NEW from \in Nat \cup {None},
           NEW limit \in {None} \cup 0..MaxLimit, NEW tag \in BOOLEAN,
           NEW start, start = IF from = None THEN 0 ELSE from,
           NEW left, left = Len(held) - start
    PROVE  LET reply == ListNotes(held, from, limit, tag)
           IN  /\ start \in Nat
               /\ left < 0 => reply = Refusal("bad_request", tag)
               /\ left >= 0 => Answered(held, start, left, limit, tag, reply)
<1> DEFINE reply == ListNotes(held, from, limit, tag)
           want == Wanted(left, limit)
           fits(count) == Fits(held, start, count, tag)
           table == [count \in 0..want |-> BuildListing(held, start, count, tag).ok]
           fewer == Bisect(table, want)[<<0, want>>]
<1>1. None \notin Nat /\ start \in Nat /\ Len(held) \in Nat /\ left \in Int
  BY ListingAssumption
<1>2. reply = IF start > Len(held) THEN Refusal("bad_request", tag)
              ELSE IF table[want] THEN Page(held, start, want, tag)
              ELSE IF limit # None \/ fewer = 0 THEN Refusal("response_too_large", tag)
              ELSE Page(held, start, fewer, tag)
  BY DEF ListNotes
<1> HIDE DEF reply
<1>3. left < 0 => reply = Refusal("bad_request", tag)
  <2>1. left < 0 => start > Len(held)
    BY <1>1
  <2> QED
    BY <1>2, <2>1, Zenon
<1>4. ASSUME left >= 0 PROVE Answered(held, start, left, limit, tag, reply)
  <2>1. left \in Nat /\ ~ (start > Len(held))
    BY <1>1, <1>4
  <2>2. want \in 0..left /\ (limit = None => want = left)
    BY <2>1, WantedIs
  <2> HIDE DEF want
  <2>3. want \in Nat /\ want \in 0..want
    BY <2>1, <2>2
  <2>4. ASSUME NEW count \in 0..left PROVE fits(count) \in BOOLEAN
    <3>1. count \in Nat /\ start + count <= Len(held)
      BY <1>1, <2>1
    <3> QED
      BY <1>1, <3>1, BuildListingIs
  <2>5. table \in [0..want -> BOOLEAN] /\ \A count \in 0..want : table[count] = fits(count)
    <3>1. \A count \in 0..want : count \in 0..left
      BY <2>1, <2>2
    <3>2. \A count \in 0..want : BuildListing(held, start, count, tag).ok \in BOOLEAN
      BY <3>1, <2>4 DEF Fits
    <3> QED
      BY <3>2 DEF Fits
  <2> HIDE DEF table
  <2>6. fewer \in 0..want /\ (fewer = 0 \/ table[fewer]) /\ (fewer = want \/ ~ table[fewer + 1])
    BY <2>3, <2>5, BisectEnds
  <2> HIDE DEF fewer
  <2>7. CASE table[want]
    <3>1. fits(want) /\ reply = Page(held, start, want, tag)
      BY <1>2, <2>1, <2>3, <2>5, <2>7
    <3> QED
      BY <3>1, Zenon DEF Answered, want
  <2>8. CASE ~ table[want] /\ limit # None
    <3>1. ~ fits(want) /\ reply = Refusal("response_too_large", tag)
      BY <1>2, <2>1, <2>3, <2>5, <2>8
    <3> QED
      BY <3>1, <2>8, Zenon DEF Answered, want
  <2>9. CASE ~ table[want] /\ limit = None
    <3>1. want = left /\ ~ fits(left)
      BY <2>2, <2>3, <2>5, <2>9
    <3>2. ASSUME NEW count \in fewer + 1..left, fits(count) PROVE FALSE
      <4>1. count \in Nat /\ fewer + 1 \in Nat /\ fewer + 1 <= count /\ count < left
            /\ start + count < Len(held) /\ fewer + 1 \in 0..want /\ fewer # want
        BY <1>1, <2>1, <2>6, <3>1, <3>2
      <4>2. fits(fewer + 1)
        BY <1>1, <3>2, <4>1, FewerFit
      <4> QED
        BY <2>5, <2>6, <4>1, <4>2
    <3>3. CASE fewer = 0
      <4>1. reply = Refusal("response_too_large", tag)
        BY <1>2, <2>1, <2>9, <3>3, Zenon
      <4>2. \A count \in 1..left : ~ fits(count)
        BY <3>2, <3>3
      <4> QED
        BY <2>9, <4>1, <4>2, Zenon DEF Answered
    <3>4. CASE fewer # 0
      <4>1. reply = Page(held, start, fewer, tag)
        BY <1>2, <2>1, <2>9, <3>4, Zenon
      <4>2. fits(fewer) /\ fewer \in 1..left /\ fewer < left
        <5>1. table[fewer] /\ fewer # want
          BY <2>6, <2>9, <3>4
        <5>2. fits(fewer)
          BY <2>5, <2>6, <5>1
        <5>3. fewer \in 1..left /\ fewer < left
          BY <2>1, <2>6, <3>1, <3>4, <5>1
        <5> QED
          BY <5>2, <5>3
      <4>3. \A more \in fewer + 1..left : ~ fits(more)
        BY <3>2
      <4> QED
        BY <2>9, <4>1, <4>2, <4>3, Zenon DEF Answered
    <3> QED
      BY <3>3, <3>4
  <2> QED
    BY <2>7, <2>8, <2>9
<1> QED
  BY <1>1, <1>3, <1>4 DEF reply

LEMMA MinOfTwo ==
    ASSUME NEW a \in Int, NEW b \in Int
    PROVE  Min({a, b}) = IF a > b THEN b ELSE a
<1>1. Min({a, b}) = CHOOSE x \in {a, b} : \A y \in {a, b} : x <= y
  BY DEF Min
<1> QED
  BY <1>1

\* A page that fits tells all that is asked of it.
LEMMA PageTells ==
    ASSUME NEW held \in Seq(Notes), NEW start \in Nat, NEW count \in Nat,
           NEW left, left = Len(held) - start, count <= left, NEW tag \in BOOLEAN,
           Fits(held, start, count, tag),
           NEW reply, reply = Page(held, start, count, tag)
    PROVE  /\ reply.error = None /\ Len(reply.page) = count
           /\ reply.len \in 1..Cap - 1
           /\ reply.len = HeadLen + SizeOf(reply.page)[Len(reply.page)]
                             + (IF reply.next # None THEN NextLen ELSE 0)
                             + (IF tag THEN TagLen ELSE 0)
           /\ (reply.next # None) <=> count < left
           /\ reply.next # None => reply.next = start + count
<1> DEFINE page == SubSeq(held, start + 1, start + count)
           next == IF start + count < Len(held) THEN start + count ELSE None
<1>1. /\ reply.error = None /\ reply.page = page /\ reply.next = next
      /\ reply.len = BuildListing(held, start, count, tag).buf
  BY DEF Page
<1>2. start + count <= Len(held) /\ Len(held) \in Nat /\ (start + count < Len(held) <=> count < left)
  OBVIOUS
<1>3. Len(page) = count
  BY <1>2, PageOf
<1>4. next # None <=> count < left
  BY <1>2, ListingAssumption
<1>5. next # None => next = start + count
  OBVIOUS
<1>6. /\ Whole(held, start, count, tag) \in Nat \ {0} /\ Whole(held, start, count, tag) < Cap
      /\ reply.len = Whole(held, start, count, tag)
  BY <1>1, <1>2, BuildListingIs
<1>7. Whole(held, start, count, tag) =
         HeadLen + SizeOf(page)[count] + (IF next # None THEN NextLen ELSE 0)
            + (IF tag THEN TagLen ELSE 0)
  BY <1>2, <1>4 DEF Whole, Tagged
<1>8. Cap \in Nat
  BY ListingAssumption
<1>9. reply.len \in 1..Cap - 1
  BY <1>6, <1>8
<1> HIDE DEF page, next
<1> QED
  BY <1>1, <1>3, <1>4, <1>5, <1>6, <1>7, <1>9

\* What a listing is to tell, of any notes and any arguments.
Told(held, from, limit, tag) ==
    LET reply == ListNotes(held, from, limit, tag)
        start == IF from = None THEN 0 ELSE from
        left == Len(held) - start
        fits(count) == BuildListing(held, start, count, tag).ok
        whole == HeadLen + SizeOf(reply.page)[Len(reply.page)]
                 + (IF reply.next # None THEN NextLen ELSE 0) + (IF tag THEN TagLen ELSE 0)
    IN  /\ reply.len \in 1..Cap - 1
        /\ (reply.error = "bad_request") <=> left < 0
        /\ reply.error = None =>
               /\ reply.len = whole
               /\ (reply.next # None) <=> Len(reply.page) < left
               /\ reply.next # None =>
                      /\ reply.next = start + Len(reply.page)
                      /\ (reply.next = start) <=> (limit # None /\ AsSize(limit) = 0)
               /\ limit # None => Len(reply.page) = Min({AsSize(limit), left})
               /\ limit = None =>
                      \A count \in Len(reply.page) + 1..left : ~ fits(count)
        /\ reply.error = "response_too_large" =>
               IF limit = None THEN \A count \in 1..left : ~ fits(count)
                               ELSE ~ fits(Min({AsSize(limit), left}))

\* Every reply, page or refusal, tells it.
LEMMA RepliesTell ==
    ASSUME NEW held \in Seq(Notes), NEW from \in Nat \cup {None},
           NEW limit \in {None} \cup 0..MaxLimit, NEW tag \in BOOLEAN
    PROVE  Told(held, from, limit, tag)
<1> DEFINE reply == ListNotes(held, from, limit, tag)
           start == IF from = None THEN 0 ELSE from
           left == Len(held) - start
           want == Wanted(left, limit)
           fits(count) == Fits(held, start, count, tag)
           none == Refusal("response_too_large", tag)
           whole == HeadLen + SizeOf(reply.page)[Len(reply.page)]
                    + (IF reply.next # None THEN NextLen ELSE 0) + (IF tag THEN TagLen ELSE 0)
<1>1. /\ None \notin Nat /\ None # "bad_request" /\ None # "response_too_large"
      /\ "bad_request" # "response_too_large" /\ MaxLimit \in Nat
      /\ limit \in {None} \cup 0..MaxLimit
  BY ListingAssumption
<1>2. /\ start \in Nat /\ left \in Int
      /\ left < 0 => reply = Refusal("bad_request", tag)
      /\ left >= 0 => Answered(held, start, left, limit, tag, reply)
  BY <1>1, Answers
<1> HIDE DEF reply, start, left
<1>3. ASSUME NEW error, reply = Refusal(error, tag)
      PROVE  reply.error = error /\ reply.len \in 1..Cap - 1
  <2>1. reply.error = error /\ reply.len = WriteError(tag).buf
    BY <1>3 DEF Refusal
  <2> QED
    BY <2>1, ErrorsFit
<1> DEFINE Goal ==
               /\ reply.len \in 1..Cap - 1
               /\ (reply.error = "bad_request") <=> left < 0
               /\ reply.error = None =>
                      /\ reply.len = whole
                      /\ (reply.next # None) <=> Len(reply.page) < left
                      /\ reply.next # None =>
                             /\ reply.next = start + Len(reply.page)
                             /\ (reply.next = start) <=> (limit # None /\ AsSize(limit) = 0)
                      /\ limit # None => Len(reply.page) = Min({AsSize(limit), left})
                      /\ limit = None => \A count \in Len(reply.page) + 1..left : ~ fits(count)
               /\ reply.error = "response_too_large" =>
                      IF limit = None THEN \A count \in 1..left : ~ fits(count)
                                      ELSE ~ fits(Min({AsSize(limit), left}))
<1>4. ASSUME left < 0 PROVE Goal
  <2>1. reply.error = "bad_request" /\ reply.len \in 1..Cap - 1
    BY <1>2, <1>3, <1>4
  <2> HIDE DEF whole, fits
  <2> QED
    BY <1>1, <1>4, <2>1
<1>5. ASSUME left >= 0 PROVE Goal
  <2>1. /\ left \in Nat /\ want \in 0..left
        /\ limit = None => want = left
        /\ limit # None => AsSize(limit) \in Nat /\ want = Min({AsSize(limit), left})
    <3>1. left \in Nat
      BY <1>2, <1>5
    <3>2. limit # None => AsSize(limit) \in Nat
      BY <1>1, AsSizeIs
    <3>3. limit # None =>
             Min({AsSize(limit), left}) = IF AsSize(limit) > left THEN left ELSE AsSize(limit)
      BY <3>1, <3>2, MinOfTwo
    <3> QED
      BY <1>1, <3>1, <3>2, <3>3, WantedIs
  <2> HIDE DEF want
  \* A page of count notes.
  <2>2. ASSUME NEW count \in 0..left, fits(count), reply = Page(held, start, count, tag),
               count < left => ((count = 0) <=> (limit # None /\ AsSize(limit) = 0)),
               limit # None => count = Min({AsSize(limit), left}),
               limit = None => \A more \in count + 1..left : ~ fits(more)
        PROVE  Goal
    <3>1. count \in Nat /\ count <= left /\ left = Len(held) - start
      BY <2>1 DEF left
    <3>2. /\ reply.error = None /\ Len(reply.page) = count
          /\ reply.len \in 1..Cap - 1
          /\ reply.len = whole
          /\ (reply.next # None) <=> count < left
          /\ reply.next # None => reply.next = start + count
      BY <1>2, <2>2, <3>1, PageTells
    <3> HIDE DEF whole, fits
    <3>3. reply.next # None => ((reply.next = start) <=> (limit # None /\ AsSize(limit) = 0))
      BY <1>2, <2>2, <3>1, <3>2
    <3>4. ~ (left < 0)
      BY <1>5, <1>2
    <3> QED
      BY <1>1, <2>2, <3>2, <3>3, <3>4
  \* A refusal.
  <2>3. ASSUME reply = none,
               limit = None => \A count \in 1..left : ~ fits(count),
               limit # None => ~ fits(Min({AsSize(limit), left}))
        PROVE  Goal
    <3>1. reply.error = "response_too_large" /\ reply.len \in 1..Cap - 1
      BY <1>3, <2>3
    <3>2. ~ (left < 0)
      BY <1>5, <1>2
    <3> HIDE DEF whole, fits
    <3> QED
      BY <1>1, <2>3, <3>1, <3>2
  <2>4. ASSUME fits(want), reply = Page(held, start, want, tag)
      PROVE  Goal
    <3>1. want < left => ((want = 0) <=> (limit # None /\ AsSize(limit) = 0))
      <4>1. limit # None => want = IF AsSize(limit) > left THEN left ELSE AsSize(limit)
        BY <2>1, MinOfTwo
      <4> QED
        BY <2>1, <4>1
    <3>2. limit = None => \A more \in want + 1..left : ~ fits(more)
      BY <2>1
    <3>3. limit # None => want = Min({AsSize(limit), left})
      BY <2>1
    <3>4. want \in 0..left
      BY <2>1
    <3> HIDE DEF Goal, fits
    <3> QED
      BY <2>2, <2>4, <3>1, <3>2, <3>3, <3>4, Zenon
  <2>5. ASSUME ~ fits(want), limit # None, reply = none
      PROVE  Goal
    <3> HIDE DEF Goal, fits, none
    <3> QED
      BY <2>1, <2>3, <2>5, Zenon
  <2>6. ASSUME limit = None, reply = none, \A count \in 1..left : ~ fits(count)
      PROVE  Goal
    <3> HIDE DEF Goal, fits, none
    <3> QED
      BY <2>3, <2>6, Zenon
  <2>7. ASSUME limit = None, NEW count \in 1..left, count < left, fits(count),
               reply = Page(held, start, count, tag),
               \A more \in count + 1..left : ~ fits(more)
        PROVE  Goal
    <3>1. count \in 0..left /\ ((count = 0) <=> (limit # None /\ AsSize(limit) = 0))
      BY <2>1, <2>7
    <3> HIDE DEF Goal, fits
    <3> QED
      BY <2>2, <2>7, <3>1, Zenon
  <2>8. Answered(held, start, left, limit, tag, reply)
    BY <1>2, <1>5
  <2> HIDE DEF Goal
  <2> QED
    BY <2>4, <2>5, <2>6, <2>7, <2>8 DEF Answered, want
<1>6. Goal
  <2>1. left < 0 \/ left >= 0
    BY <1>2
  <2> HIDE DEF Goal
  <2> QED
    BY <2>1, <1>4, <1>5
<1> QED
  BY <1>6 DEF Told, reply, start, left, Fits

\* A page that was not refused is the next so many notes, and names what is behind it.
Slice(held, from, count, reply) ==
    /\ from + count <= Len(held)
    /\ reply.page = SubSeq(held, from + 1, from + count)
    /\ reply.next = IF from + count < Len(held) THEN from + count ELSE None

LEMMA PagesAreSlices ==
    ASSUME NEW held \in Seq(Notes), NEW from \in Nat,
           NEW limit \in {None} \cup 0..MaxLimit, NEW tag \in BOOLEAN,
           NEW reply, reply = ListNotes(held, from, limit, tag), reply.error = None
    PROVE  \E count \in Nat : Slice(held, from, count, reply)
<1> DEFINE left == Len(held) - from
           none(error) == Refusal(error, tag)
<1>1. /\ None \notin Nat /\ None # "bad_request" /\ None # "response_too_large"
      /\ limit \in {None} \cup 0..MaxLimit /\ left \in Int
      /\ from = IF from = None THEN 0 ELSE from
  BY ListingAssumption
<1>2. /\ left < 0 => reply = none("bad_request")
      /\ left >= 0 => Answered(held, from, left, limit, tag, reply)
  <2>1. from \in Nat \cup {None}
    OBVIOUS
  <2> QED
    BY <1>1, <2>1, Answers
<1>3. ASSUME NEW error, error # None PROVE reply # none(error)
  BY <1>3 DEF Refusal
<1>4. ASSUME NEW count \in 0..left, reply = Page(held, from, count, tag)
      PROVE  \E k \in Nat : Slice(held, from, k, reply)
  <2>1. count \in Nat /\ from + count <= Len(held)
    BY <1>1
  <2>2. Slice(held, from, count, reply)
    BY <1>4, <2>1 DEF Slice, Page
  <2> QED
    BY <2>1, <2>2
<1>5. left >= 0 /\ left \in Nat /\ Wanted(left, limit) \in 0..left
  <2>1. left >= 0
    <3> HIDE DEF left, none
    <3> QED
      BY <1>1, <1>2, <1>3
  <2>2. left \in Nat
    BY <1>1, <2>1
  <2> HIDE DEF left, none
  <2> QED
    BY <1>1, <2>1, <2>2, WantedIs
<1> HIDE DEF left, none
<1>6. ASSUME NEW count \in 1..left PROVE count \in 0..left
  BY <1>5
<1>7. Answered(held, from, left, limit, tag, reply)
  BY <1>2, <1>5
<1>8. reply # none("response_too_large")
  BY <1>1, <1>3
<1>9. \/ reply = Page(held, from, Wanted(left, limit), tag)
      \/ \E count \in 1..left : reply = Page(held, from, count, tag)
  BY <1>7, <1>8, Zenon DEF Answered, none
<1> QED
  BY <1>4, <1>5, <1>6, <1>9

\* What is stored before the place where the next page begins, and what behind it.
Behind(held, from) == {held[i] : i \in {j \in DOMAIN held : j <= from}}
Ahead(held, from) == {held[i] : i \in {j \in DOMAIN held : j > from}}

(***************************************************************************)
(* What a walk keeps.  Nothing of what is still ahead was on a page yet,   *)
(* and of the notes that have been there since the walk began no more are  *)
(* behind the client unseen than were removed: every removal behind it     *)
(* moves one note past it, and nothing else does.                          *)
(***************************************************************************)
WalkInv ==
    /\ notes \in Seq(Notes) /\ IsInjective(notes)
    /\ seen \in Seq(Notes) /\ IsInjective(seen)
    /\ request \in [limit : {None} \cup 0..MaxLimit, tag : BOOLEAN]
    /\ offset \in Nat \cup {None} /\ removals \in Nat
    /\ stayed \subseteq ToSet(notes)
    /\ offset # None =>
          /\ Ahead(notes, offset) \cap ToSet(seen) = {}
          /\ Cardinality(Behind(notes, offset) \cap (stayed \ ToSet(seen))) <= removals
    /\ (offset = None /\ seen # <<>>) => Cardinality(stayed \ ToSet(seen)) <= removals

LEMMA WalkStarts == WalkInit => WalkInv
<1> SUFFICES ASSUME WalkInit PROVE WalkInv
  OBVIOUS
<1>1. PICK n \in 0..Cardinality(Notes) : notes \in [1..n -> Notes]
  BY DEF WalkInit
<1>2. notes \in Seq(Notes) /\ IsInjective(notes)
  BY <1>1 DEF WalkInit
<1>3. seen \in Seq(Notes) /\ IsInjective(seen) /\ seen = <<>>
  BY DEF WalkInit, IsInjective
<1>4. request \in [limit : {None} \cup 0..MaxLimit, tag : BOOLEAN]
  BY DEF WalkInit
<1>5. offset = None /\ removals = 0 /\ stayed = {}
  BY DEF WalkInit
<1> QED
  BY <1>2, <1>3, <1>4, <1>5 DEF WalkInv

\* A set that gains at most one element.
LEMMA OneMore ==
    ASSUME NEW A \in SUBSET Notes, IsFiniteSet(Notes), NEW x, NEW B \in SUBSET (A \cup {x})
    PROVE  /\ Cardinality(B) \in Nat /\ Cardinality(A) \in Nat
           /\ Cardinality(B) <= Cardinality(A) + 1
<1>1. IsFiniteSet(A) /\ Cardinality(A) \in Nat
  BY FS_Subset, FS_CardinalityType
<1>2. /\ IsFiniteSet(A \cup {x}) /\ Cardinality(A \cup {x}) \in Nat
      /\ Cardinality(A \cup {x}) <= Cardinality(A) + 1
  <2>1. /\ IsFiniteSet(A \cup {x})
        /\ Cardinality(A \cup {x}) = IF x \in A THEN Cardinality(A) ELSE Cardinality(A) + 1
    BY <1>1, FS_AddElement
  <2> QED
    BY <1>1, <2>1
<1>3. IsFiniteSet(B) /\ Cardinality(B) \in Nat /\ Cardinality(B) <= Cardinality(A \cup {x})
  BY <1>2, FS_Subset, FS_CardinalityType
<1> QED
  BY <1>1, <1>2, <1>3

\* A set that gains none.
LEMMA NoMore ==
    ASSUME NEW A \in SUBSET Notes, IsFiniteSet(Notes), NEW B \in SUBSET A
    PROVE  /\ Cardinality(B) \in Nat /\ Cardinality(A) \in Nat
           /\ Cardinality(B) <= Cardinality(A)
<1>1. IsFiniteSet(A) /\ Cardinality(A) \in Nat
  BY FS_Subset, FS_CardinalityType
<1> QED
  BY <1>1, FS_Subset, FS_CardinalityType

\* What is read at each place of two sequences put together.
LEMMA Joined ==
    ASSUME NEW a \in Seq(Notes), NEW b \in Seq(Notes), NEW s, s = a \o b
    PROVE  /\ s \in Seq(Notes) /\ Len(s) = Len(a) + Len(b)
           /\ \A j \in 1..Len(a) + Len(b) : s[j] = IF j <= Len(a) THEN a[j] ELSE b[j - Len(a)]
  OBVIOUS

\* remove_at() closes the gap: what was behind it comes one place forward.
LEMMA Removed ==
    ASSUME NEW held \in Seq(Notes), IsInjective(held), NEW i \in DOMAIN held,
           NEW cut, cut = RemoveAt(held, i)
    PROVE  /\ cut \in Seq(Notes) /\ IsInjective(cut)
           /\ ToSet(held) \ {held[i]} \subseteq ToSet(cut)
           /\ \A from \in Nat :
                 /\ Ahead(cut, from) \subseteq Ahead(held, from)
                 /\ Behind(cut, from) \subseteq Behind(held, from) \cup {held[from + 1]}
<1> DEFINE from1(j) == IF j < i THEN j ELSE j + 1
<1>1. /\ cut \in Seq(Notes) /\ Len(held) \in Nat /\ i \in 1..Len(held)
      /\ DOMAIN held = 1..Len(held) /\ DOMAIN cut = 1..Len(held) - 1
      /\ \A j \in DOMAIN cut : cut[j] = held[from1(j)] /\ from1(j) \in DOMAIN held
  <2> DEFINE front == SubSeq(held, 1, i - 1)
             back == SubSeq(held, i + 1, Len(held))
  <2>1. Len(held) \in Nat /\ i \in 1..Len(held) /\ DOMAIN held = 1..Len(held)
    OBVIOUS
  <2>2. front \in Seq(Notes) /\ Len(front) = i - 1 /\ \A j \in 1..i - 1 : front[j] = held[j]
    BY <2>1
  <2>3. /\ back \in Seq(Notes) /\ Len(back) = Len(held) - i
        /\ \A j \in 1..Len(held) - i : back[j] = held[i + j]
    BY <2>1
  <2>4. cut = front \o back
    BY DEF RemoveAt
  <2> HIDE DEF front, back
  <2>5. /\ cut \in Seq(Notes) /\ Len(cut) = Len(front) + Len(back)
        /\ \A j \in 1..Len(front) + Len(back) :
              cut[j] = IF j <= Len(front) THEN front[j] ELSE back[j - Len(front)]
    BY <2>2, <2>3, <2>4, Joined
  <2>6. /\ cut \in Seq(Notes) /\ DOMAIN cut = 1..Len(held) - 1
        /\ \A j \in 1..Len(held) - 1 : cut[j] = IF j < i THEN front[j] ELSE back[j - (i - 1)]
    <3>1. /\ Len(front) + Len(back) = Len(held) - 1 /\ Len(cut) = Len(held) - 1
          /\ \A j \in 1..Len(held) - 1 : j <= Len(front) <=> j < i
      BY <2>1, <2>2, <2>3, <2>5
    <3>2. ASSUME NEW j \in 1..Len(held) - 1
          PROVE  cut[j] = IF j < i THEN front[j] ELSE back[j - (i - 1)]
      <4>1. /\ cut[j] = IF j <= Len(front) THEN front[j] ELSE back[j - Len(front)]
            /\ Len(front) = i - 1 /\ (j <= Len(front) <=> j < i)
        BY <2>2, <2>5, <3>1
      <4> QED
        BY <4>1
    <3>3. DOMAIN cut = 1..Len(cut)
      BY <2>5
    <3> QED
      BY <2>5, <3>1, <3>2, <3>3
  <2>7. ASSUME NEW j \in 1..Len(held) - 1
        PROVE  cut[j] = held[from1(j)] /\ from1(j) \in DOMAIN held
    <3>1. CASE j < i
      <4>1. j \in 1..i - 1
        BY <2>1, <3>1
      <4> QED
        BY <2>1, <2>2, <2>6, <3>1, <4>1
    <3>2. CASE ~ (j < i)
      <4>1. /\ j - (i - 1) \in 1..Len(held) - i /\ i + (j - (i - 1)) = j + 1
            /\ j + 1 \in 1..Len(held)
        BY <2>1, <3>2
      <4> QED
        BY <2>1, <2>3, <2>6, <3>2, <4>1
    <3> QED
      BY <3>1, <3>2
  <2> QED
    BY <2>1, <2>6, <2>7
<1>2. IsInjective(cut)
  BY <1>1 DEF IsInjective
<1>3. ToSet(held) \ {held[i]} \subseteq ToSet(cut)
  <2> SUFFICES ASSUME NEW j \in DOMAIN held, j # i PROVE held[j] \in ToSet(cut)
    BY DEF ToSet
  <2>1. CASE j < i
    <3>1. j \in DOMAIN cut /\ cut[j] = held[j]
      BY <1>1, <2>1
    <3> QED
      BY <3>1 DEF ToSet
  <2>2. CASE j > i
    <3>1. j - 1 \in DOMAIN cut /\ cut[j - 1] = held[j]
      BY <1>1, <2>2
    <3> QED
      BY <3>1 DEF ToSet
  <2> QED
    BY <1>1, <2>1, <2>2
<1>4. ASSUME NEW from \in Nat, NEW j \in DOMAIN cut
      PROVE  /\ j > from => cut[j] \in Ahead(held, from)
             /\ j <= from => cut[j] \in Behind(held, from) \cup {held[from + 1]}
  <2>1. from1(j) \in DOMAIN held /\ cut[j] = held[from1(j)] /\ j \in Nat /\ from1(j) \in Nat
    BY <1>1
  <2>2. j > from => from1(j) > from
    BY <2>1
  <2>3. j <= from => from1(j) <= from \/ from1(j) = from + 1
    BY <2>1
  <2> HIDE DEF from1
  <2> QED
    BY <2>1, <2>2, <2>3 DEF Ahead, Behind
<1>5. ASSUME NEW from \in Nat
      PROVE  /\ Ahead(cut, from) \subseteq Ahead(held, from)
             /\ Behind(cut, from) \subseteq Behind(held, from) \cup {held[from + 1]}
  <2>1. \A x \in Ahead(cut, from) : \E j \in DOMAIN cut : j > from /\ x = cut[j]
    BY DEF Ahead
  <2>2. \A x \in Behind(cut, from) : \E j \in DOMAIN cut : j <= from /\ x = cut[j]
    BY DEF Behind
  <2> QED
    BY <1>4, <2>1, <2>2
<1> QED
  BY <1>1, <1>2, <1>3, <1>5

\* A page is put behind what was seen, and the place after it is where the rest begins.
LEMMA PageIsSeen ==
    ASSUME NEW held \in Seq(Notes), IsInjective(held), NEW shown \in Seq(Notes),
           IsInjective(shown), NEW from \in Nat, NEW count \in Nat,
           from + count <= Len(held),
           Ahead(held, from) \cap ToSet(shown) = {},
           NEW page, page = SubSeq(held, from + 1, from + count)
    PROVE  /\ shown \o page \in Seq(Notes) /\ IsInjective(shown \o page)
           /\ Ahead(held, from + count) \cap ToSet(shown \o page) = {}
           /\ ToSet(shown) \subseteq ToSet(shown \o page)
           /\ Behind(held, from + count) \subseteq Behind(held, from) \cup ToSet(shown \o page)
<1> DEFINE all == shown \o page
<1>1. /\ page \in Seq(Notes) /\ Len(page) = count /\ DOMAIN page = 1..count
      /\ Len(held) \in Nat /\ DOMAIN held = 1..Len(held)
      /\ \A k \in 1..count : page[k] = held[from + k] /\ from + k \in DOMAIN held /\ from + k > from
  OBVIOUS
<1>2. /\ all \in Seq(Notes) /\ DOMAIN all = 1..Len(shown) + count /\ Len(shown) \in Nat
      /\ DOMAIN shown = 1..Len(shown)
      /\ \A k \in 1..Len(shown) : all[k] = shown[k]
      /\ \A k \in Len(shown) + 1..Len(shown) + count :
            all[k] = page[k - Len(shown)] /\ k - Len(shown) \in 1..count
      /\ \A k \in 1..count : all[Len(shown) + k] = page[k] /\ Len(shown) + k \in DOMAIN all
  <2>1. /\ all \in Seq(Notes) /\ Len(all) = Len(shown) + Len(page)
        /\ \A k \in 1..Len(shown) + Len(page) :
              all[k] = IF k <= Len(shown) THEN shown[k] ELSE page[k - Len(shown)]
    <3> HIDE DEF all
    <3>1. all = shown \o page
      BY DEF all
    <3>2. page \in Seq(Notes) /\ shown \in Seq(Notes)
      BY <1>1
    <3> QED
      BY ONLY <3>1, <3>2, Joined
  <2> HIDE DEF all
  <2>2. Len(shown) \in Nat /\ DOMAIN shown = 1..Len(shown)
    OBVIOUS
  <2>3. DOMAIN all = 1..Len(shown) + count
    BY <1>1, <2>1
  <2>4. \A k \in 1..Len(shown) : all[k] = shown[k]
    BY <1>1, <2>1, <2>2
  <2>5. ASSUME NEW k \in Len(shown) + 1..Len(shown) + count
        PROVE  all[k] = page[k - Len(shown)] /\ k - Len(shown) \in 1..count
    BY <1>1, <2>1, <2>2
  <2>6. ASSUME NEW k \in 1..count
        PROVE  all[Len(shown) + k] = page[k] /\ Len(shown) + k \in DOMAIN all
    <3>1. Len(shown) + k \in Len(shown) + 1..Len(shown) + count /\ (Len(shown) + k) - Len(shown) = k
      BY <2>2
    <3>2. all[Len(shown) + k] = page[(Len(shown) + k) - Len(shown)]
      BY <2>5, <3>1, Zenon
    <3>3. Len(shown) + k \in 1..Len(shown) + count
      BY <2>2
    <3> QED
      BY <2>3, <3>1, <3>2, <3>3, Zenon
  <2> QED
    BY <2>1, <2>2, <2>3, <2>4, <2>5, <2>6
<1> HIDE DEF all
<1>3. ASSUME NEW a \in DOMAIN all, a > Len(shown)
      PROVE  /\ a - Len(shown) \in 1..count /\ all[a] = page[a - Len(shown)]
             /\ page[a - Len(shown)] = held[from + (a - Len(shown))]
             /\ from + (a - Len(shown)) \in DOMAIN held
  <2>1. a \in Len(shown) + 1..Len(shown) + count
    BY <1>2, <1>3
  <2>2. a - Len(shown) \in 1..count /\ all[a] = page[a - Len(shown)]
    BY <1>2, <2>1
  <2> QED
    BY <1>1, <2>2
<1>4. ASSUME NEW a \in DOMAIN all, a <= Len(shown)
      PROVE  a \in DOMAIN shown /\ all[a] = shown[a] /\ all[a] \in ToSet(shown)
  <2>1. a \in DOMAIN shown /\ all[a] = shown[a]
    BY <1>2, <1>4
  <2> QED
    BY <2>1 DEF ToSet
<1>5. ASSUME NEW k \in 1..count PROVE page[k] \in Ahead(held, from) /\ page[k] \notin ToSet(shown)
  <2>1. page[k] \in Ahead(held, from)
    BY <1>1 DEF Ahead
  <2> QED
    BY <2>1
<1>6. IsInjective(all)
  <2> SUFFICES ASSUME NEW a \in DOMAIN all, NEW b \in DOMAIN all, all[a] = all[b] PROVE a = b
    BY DEF IsInjective
  <2>1. CASE a <= Len(shown) /\ b <= Len(shown)
    BY <1>2, <2>1 DEF IsInjective
  <2>2. CASE a > Len(shown) /\ b > Len(shown)
    <3>1. /\ all[a] = held[from + (a - Len(shown))] /\ from + (a - Len(shown)) \in DOMAIN held
          /\ all[b] = held[from + (b - Len(shown))] /\ from + (b - Len(shown)) \in DOMAIN held
      BY <1>3, <2>2
    <3>2. from + (a - Len(shown)) = from + (b - Len(shown))
      BY <3>1 DEF IsInjective
    <3> QED
      BY <1>2, <3>2
  <2>3. ASSUME NEW x \in DOMAIN all, NEW y \in DOMAIN all, x <= Len(shown), y > Len(shown)
        PROVE  all[x] # all[y]
    <3>1. all[x] \in ToSet(shown)
      BY <1>4, <2>3
    <3>2. all[y] \notin ToSet(shown)
      BY <1>5, <1>3, <2>3
    <3> QED
      BY <3>1, <3>2
  <2> QED
    BY <1>2, <2>1, <2>2, <2>3
<1>7. ToSet(all) = ToSet(shown) \cup ToSet(page)
  <2>1. ASSUME NEW k \in DOMAIN all PROVE all[k] \in ToSet(shown) \cup ToSet(page)
    <3>1. CASE k <= Len(shown)
      BY <1>4, <3>1
    <3>2. CASE k > Len(shown)
      BY <1>1, <1>3, <3>2 DEF ToSet
    <3> QED
      BY <1>2, <3>1, <3>2
  <2>2. ASSUME NEW k \in DOMAIN shown PROVE shown[k] \in ToSet(all)
    BY <1>2 DEF ToSet
  <2>3. ASSUME NEW k \in DOMAIN page PROVE page[k] \in ToSet(all)
    BY <1>1, <1>2 DEF ToSet
  <2> QED
    BY <2>1, <2>2, <2>3 DEF ToSet
<1>8. Ahead(held, from + count) \cap ToSet(all) = {}
  <2> SUFFICES ASSUME NEW j \in DOMAIN held, j > from + count PROVE held[j] \notin ToSet(all)
    BY DEF Ahead
  <2>1. held[j] \in Ahead(held, from)
    BY <1>1 DEF Ahead
  <2>2. ASSUME NEW k \in 1..count PROVE held[j] # page[k]
    <3>1. page[k] = held[from + k] /\ from + k \in DOMAIN held /\ from + k # j
      BY <1>1
    <3> QED
      BY <3>1 DEF IsInjective
  <2> QED
    BY <1>1, <1>7, <2>1, <2>2 DEF ToSet
<1>9. Behind(held, from + count) \subseteq Behind(held, from) \cup ToSet(page)
  <2> SUFFICES ASSUME NEW j \in DOMAIN held, j <= from + count
               PROVE  held[j] \in Behind(held, from) \cup ToSet(page)
    BY DEF Behind
  <2>1. CASE j <= from
    BY <2>1 DEF Behind
  <2>2. CASE j > from
    <3>1. j - from \in 1..count /\ page[j - from] = held[j]
      BY <1>1, <2>2
    <3> QED
      BY <1>1, <3>1 DEF ToSet
  <2> QED
    BY <1>1, <2>1, <2>2
<1> QED
  BY <1>2, <1>6, <1>7, <1>8, <1>9 DEF all

\* Every page, every refusal, and every note that comes or goes meanwhile keep it.
LEMMA WalkGoesOn == WalkInv /\ [WalkNext]_walk => WalkInv'
<1> SUFFICES ASSUME WalkInv, [WalkNext]_walk PROVE WalkInv'
  OBVIOUS
<1> DEFINE unseen == stayed \ ToSet(seen)
           missed == Behind(notes, offset) \cap unseen
<1>1. /\ notes \in Seq(Notes) /\ IsInjective(notes)
      /\ seen \in Seq(Notes) /\ IsInjective(seen)
      /\ request \in [limit : {None} \cup 0..MaxLimit, tag : BOOLEAN]
      /\ offset \in Nat \cup {None} /\ removals \in Nat
      /\ stayed \subseteq ToSet(notes)
  BY DEF WalkInv
<1>2. offset # None => /\ Ahead(notes, offset) \cap ToSet(seen) = {}
                       /\ Cardinality(missed) <= removals
  BY DEF WalkInv
<1>3. (offset = None /\ seen # <<>>) => Cardinality(unseen) <= removals
  BY DEF WalkInv
<1>4. IsFiniteSet(Notes) /\ None \notin Nat
  BY ListingAssumption
<1>5. ToSet(notes) \subseteq Notes /\ unseen \in SUBSET Notes /\ missed \in SUBSET Notes
  <2>1. ToSet(notes) \subseteq Notes
    BY <1>1 DEF ToSet
  <2> QED
    BY <1>1, <2>1
<1> HIDE DEF unseen, missed
<1>6. CASE BeginWalk
  <2>1. /\ offset' = 0 /\ stayed' = ToSet(notes) /\ removals' = 0
        /\ seen = <<>> /\ seen' = seen /\ notes' = notes
        /\ request' \in [limit : {None} \cup 0..MaxLimit, tag : BOOLEAN]
    BY <1>6 DEF BeginWalk
  <2>2. Behind(notes, 0) = {} /\ ToSet(seen) = {}
    BY <1>1, <2>1 DEF Behind, ToSet
  <2>3. Behind(notes, 0) \cap (stayed' \ ToSet(seen)) = {} /\ Cardinality({}) = 0
    BY <2>2, FS_EmptySet
  <2>4. /\ Ahead(notes', offset') \cap ToSet(seen') = {}
        /\ Behind(notes', offset') \cap (stayed' \ ToSet(seen')) = {}
    BY <2>1, <2>2, <2>3
  <2>5. /\ offset' \in Nat \cup {None} /\ offset' # None /\ removals' \in Nat
        /\ Cardinality({}) <= removals'
    BY <1>4, <2>1, <2>3
  <2> QED
    BY <1>1, <2>1, <2>3, <2>4, <2>5 DEF WalkInv
<1>7. CASE NextPage
  <2> DEFINE reply == ListNotes(notes, offset, request.limit, request.tag)
  <2>1. /\ offset # None /\ reply.error = None /\ seen' = seen \o reply.page /\ offset' = reply.next
        /\ UNCHANGED <<notes, request, stayed, removals>>
    BY <1>7 DEF NextPage
  <2>2. offset \in Nat /\ request.limit \in {None} \cup 0..MaxLimit /\ request.tag \in BOOLEAN
    BY <1>1, <2>1
  <2>3. PICK count \in Nat : Slice(notes, offset, count, reply)
    BY <1>1, <2>1, <2>2, PagesAreSlices
  <2> HIDE DEF reply
  <2>4. /\ offset + count <= Len(notes)
        /\ reply.page = SubSeq(notes, offset + 1, offset + count)
        /\ offset' = IF offset + count < Len(notes) THEN offset + count ELSE None
    BY <2>1, <2>3 DEF Slice
  <2>5. /\ seen' \in Seq(Notes) /\ IsInjective(seen')
        /\ Ahead(notes, offset + count) \cap ToSet(seen') = {}
        /\ ToSet(seen) \subseteq ToSet(seen')
        /\ Behind(notes, offset + count) \subseteq Behind(notes, offset) \cup ToSet(seen')
    <3> DEFINE page == reply.page
    <3>1. page = SubSeq(notes, offset + 1, offset + count) /\ seen' = seen \o page
      BY <2>1, <2>4
    <3>2. Ahead(notes, offset) \cap ToSet(seen) = {}
      BY <1>2, <2>1
    <3> HIDE DEF page
    <3>3. /\ seen \o page \in Seq(Notes) /\ IsInjective(seen \o page)
          /\ Ahead(notes, offset + count) \cap ToSet(seen \o page) = {}
          /\ ToSet(seen) \subseteq ToSet(seen \o page)
          /\ Behind(notes, offset + count) \subseteq Behind(notes, offset) \cup ToSet(seen \o page)
      BY <1>1, <2>2, <2>4, <3>1, <3>2, PageIsSeen
    <3> QED
      BY <3>1, <3>3
  <2>6. Behind(notes, offset + count) \cap (stayed \ ToSet(seen')) \in SUBSET missed
    BY <2>5 DEF missed, unseen
  <2>7. Cardinality(Behind(notes, offset + count) \cap (stayed \ ToSet(seen'))) <= removals
    <3>1. /\ Cardinality(Behind(notes, offset + count) \cap (stayed \ ToSet(seen'))) \in Nat
          /\ Cardinality(missed) \in Nat
          /\ Cardinality(Behind(notes, offset + count) \cap (stayed \ ToSet(seen')))
                <= Cardinality(missed)
      BY <1>4, <1>5, <2>6, NoMore
    <3> QED
      BY <1>1, <1>2, <2>1, <3>1
  <2>8. offset + count \in Nat /\ (offset' # None => offset' = offset + count)
    BY <2>2, <2>4
  <2>9. offset' = None =>
           Behind(notes, offset + count) \cap (stayed \ ToSet(seen')) = stayed \ ToSet(seen')
    <3>1. SUFFICES ASSUME offset' = None, NEW j \in DOMAIN notes PROVE j <= offset + count
      BY <1>1 DEF Behind, ToSet
    <3>2. ~ (offset + count < Len(notes))
      BY <1>4, <2>4, <2>8, <3>1
    <3> QED
      BY <1>1, <2>8, <3>2
  <2> QED
    BY <1>1, <2>1, <2>5, <2>7, <2>8, <2>9 DEF WalkInv
<1>8. CASE PageRefused
  <2>1. /\ offset' = None /\ seen' = <<>> /\ stayed' = {}
        /\ UNCHANGED <<notes, request, removals>>
    BY <1>8 DEF PageRefused
  <2>2. <<>> \in Seq(Notes) /\ IsInjective(<<>>)
    BY DEF IsInjective
  <2> QED
    BY <1>1, <2>1, <2>2 DEF WalkInv
<1>9. ASSUME NEW n \in Notes, Add(n) PROVE WalkInv'
  <2>1. /\ n \notin ToSet(notes) /\ n \notin ToSet(seen) /\ notes' = Append(notes, n)
        /\ UNCHANGED <<request, offset, seen, stayed, removals>>
    BY <1>9 DEF Add
  <2>2. /\ notes' \in Seq(Notes) /\ DOMAIN notes' = 1..Len(notes) + 1 /\ Len(notes) \in Nat
        /\ DOMAIN notes = 1..Len(notes)
        /\ \A j \in 1..Len(notes) : notes'[j] = notes[j]
        /\ notes'[Len(notes) + 1] = n
    BY <1>1, <2>1
  <2>3. \A j \in DOMAIN notes' : \/ j = Len(notes) + 1 /\ notes'[j] = n
                                 \/ j \in DOMAIN notes /\ notes'[j] = notes[j]
    BY <2>2
  <2>4. IsInjective(notes')
    BY <1>1, <2>1, <2>3 DEF IsInjective, ToSet
  <2>5. ToSet(notes) \subseteq ToSet(notes')
    BY <2>2 DEF ToSet
  <2>6. ASSUME offset \in Nat
        PROVE  /\ Ahead(notes', offset) \subseteq Ahead(notes, offset) \cup {n}
               /\ Behind(notes', offset) \subseteq Behind(notes, offset) \cup {n}
    BY <2>3 DEF Ahead, Behind
  <2>7. n \notin unseen
    BY <1>1, <2>1 DEF unseen
  <2>8. ASSUME offset # None
        PROVE  /\ Ahead(notes', offset) \cap ToSet(seen) = {}
               /\ Cardinality(Behind(notes', offset) \cap unseen) <= removals
    <3>1. offset \in Nat
      BY <1>1, <2>8
    <3>2. Behind(notes', offset) \cap unseen \in SUBSET missed
      BY <2>6, <2>7, <3>1 DEF missed
    <3>3. /\ Cardinality(Behind(notes', offset) \cap unseen) \in Nat
          /\ Cardinality(missed) \in Nat
          /\ Cardinality(Behind(notes', offset) \cap unseen) <= Cardinality(missed)
      BY <1>4, <1>5, <3>2, NoMore
    <3>4. Cardinality(Behind(notes', offset) \cap unseen) <= removals
      BY <1>1, <1>2, <2>8, <3>3
    <3> QED
      BY <1>2, <2>1, <2>6, <2>8, <3>1, <3>4
  <2> QED
    BY <1>1, <1>3, <2>1, <2>2, <2>4, <2>5, <2>8 DEF WalkInv, unseen
<1>10. ASSUME NEW i \in DOMAIN notes, RemoveNote(i) PROVE WalkInv'
  <2>1. /\ notes' = RemoveAt(notes, i) /\ stayed' = stayed \ {notes[i]}
        /\ removals' = removals + 1
        /\ UNCHANGED <<request, offset, seen>>
    BY <1>10 DEF RemoveNote
  <2>2. /\ notes' \in Seq(Notes) /\ IsInjective(notes')
        /\ ToSet(notes) \ {notes[i]} \subseteq ToSet(notes')
        /\ \A from \in Nat :
              /\ Ahead(notes', from) \subseteq Ahead(notes, from)
              /\ Behind(notes', from) \subseteq Behind(notes, from) \cup {notes[from + 1]}
    BY <1>1, <2>1, Removed
  <2>3. ASSUME offset # None
        PROVE  /\ Ahead(notes', offset) \cap ToSet(seen) = {}
               /\ Cardinality(Behind(notes', offset) \cap (stayed' \ ToSet(seen))) <= removals + 1
    <3>1. offset \in Nat
      BY <1>1, <2>3
    <3>2. Behind(notes', offset) \cap (stayed' \ ToSet(seen))
             \in SUBSET (missed \cup {notes[offset + 1]})
      BY <2>1, <2>2, <3>1 DEF missed, unseen
    <3>3. /\ Cardinality(Behind(notes', offset) \cap (stayed' \ ToSet(seen))) \in Nat
          /\ Cardinality(missed) \in Nat
          /\ Cardinality(Behind(notes', offset) \cap (stayed' \ ToSet(seen))) <= Cardinality(missed) + 1
      BY <1>4, <1>5, <3>2, OneMore
    <3> QED
      BY <1>1, <1>2, <2>2, <2>3, <3>1, <3>3
  <2>4. ASSUME offset = None, seen # <<>>
        PROVE  Cardinality(stayed' \ ToSet(seen)) <= removals + 1
    <3>1. stayed' \ ToSet(seen) \in SUBSET unseen
      BY <2>1 DEF unseen
    <3>2. /\ Cardinality(stayed' \ ToSet(seen)) \in Nat /\ Cardinality(unseen) \in Nat
          /\ Cardinality(stayed' \ ToSet(seen)) <= Cardinality(unseen)
      BY <1>4, <1>5, <3>1, NoMore
    <3> QED
      BY <1>1, <1>3, <2>4, <3>2
  <2>5. stayed' \subseteq ToSet(notes') /\ removals + 1 \in Nat
    BY <1>1, <2>1, <2>2
  <2> QED
    BY <1>1, <2>1, <2>2, <2>3, <2>4, <2>5 DEF WalkInv
<1>11. CASE UNCHANGED walk
  BY <1>11 DEF walk, WalkInv, Ahead, Behind
<1> QED
  BY <1>6, <1>7, <1>8, <1>9, <1>10, <1>11 DEF WalkNext

(***************************************************************************)
(* A client that walked to the end of a changing ledger missed at most as  *)
(* many notes as were removed meanwhile and saw none twice, whatever the   *)
(* notes, their sizes, the buffer and the page it asks for.                *)
(***************************************************************************)
THEOREM WalksMissOnlyWhatMoved == WalkSpec => []WalkMissesOnlyWhatMoved
<1>1. WalkInit => WalkInv
  BY WalkStarts
<1>2. WalkInv /\ [WalkNext]_walk => WalkInv'
  BY WalkGoesOn
<1>3. WalkInv => WalkMissesOnlyWhatMoved
  BY DEF WalkInv, WalkMissesOnlyWhatMoved
<1> QED
  BY <1>1, <1>2, <1>3, PTL DEF WalkSpec

(***************************************************************************)
(* Every listing is told whole and says truthfully what it leaves out,     *)
(* whatever is stored and whatever is asked: any offset, any limit or none *)
(* (handle_list_notes).  The limit is read as the size_t it is put into.   *)
(***************************************************************************)
THEOREM ListingsTell == WalkSpec => []PagesTellAll
<1>1. WalkInit => WalkInv
  BY WalkStarts
<1>2. WalkInv /\ [WalkNext]_walk => WalkInv'
  BY WalkGoesOn
<1>3. WalkInv => PagesTellAll
  <2> SUFFICES ASSUME notes \in Seq(Notes),
                      NEW from \in {None} \cup 0..Len(notes) + 1, NEW tag \in BOOLEAN,
                      NEW limit \in {None} \cup 0..MaxLimit
               PROVE  Told(notes, from, limit, tag)
    BY DEF WalkInv, PagesTellAll, Told
  <2>1. from \in Nat \cup {None}
    OBVIOUS
  <2> QED
    BY <2>1, RepliesTell
<1> QED
  BY <1>1, <1>2, <1>3, PTL DEF WalkSpec
=============================================================================
