------------------------------ MODULE Approval ------------------------------
(***************************************************************************)
(* The gesture in front of every disclosure: src/src/proto/approval.c, as  *)
(* service_remote_confirm() of src/src/ui/ui_task.c drives it.             *)
(*                                                                         *)
(* One prompt is a run of polls, each reading both buttons at a later time *)
(* than the one before.  The code keeps a few flags and timestamps; log    *)
(* keeps every poll, so that the properties can say what the owner did     *)
(* without saying how the code finds out.  Times count from the prompt.    *)
(***************************************************************************)
EXTENDS Integers, Sequences

CONSTANTS
    Hold,       \* APPROVAL_HOLD_US
    Bounce,     \* APPROVAL_RELEASE_BOUNCE_US
    Debounce,   \* APPROVAL_CANCEL_DEBOUNCE_US
    Timeout,    \* the deadline of the prompt
    MaxPoll     \* the longest time between two polls: 20 ms, or a redraw

ASSUME ApprovalAssumption ==
    {Hold, Bounce, Debounce, Timeout, MaxPoll} \subseteq Nat \ {0}

VARIABLES
    state,           \* a->state
    approveStale,    \* a->approve_stale: down since before the prompt
    cancelStale,     \* a->cancel_stale
    holdSince,       \* a->hold_since_us while a->holding, else None
    releaseSince,    \* a->release_since_us while a->release_seen, else None
    cancelSince,     \* a->cancel_since_us while a->cancel_down, else None
    log              \* the polls of this prompt: when, and what was down

flags == <<approveStale, cancelStale, holdSince, releaseSince, cancelSince>>
vars == <<state, flags, log>>

None == -1
Time == Nat
State == {"pending", "granted", "denied", "expired"}
Poll == [at: Time, approve: BOOLEAN, cancel: BOOLEAN]

TypeOK ==
    /\ state \in State
    /\ approveStale \in BOOLEAN /\ cancelStale \in BOOLEAN
    /\ holdSince \in Time \cup {None}
    /\ releaseSince \in Time \cup {None}
    /\ cancelSince \in Time \cup {None}
    /\ log \in Seq(Poll)

Now == IF log = <<>> THEN 0 ELSE log[Len(log)].at

\* since is set, at least d before t.
Lasted(since, t, d) == since # None /\ t >= since + d

-----------------------------------------------------------------------------
\* approval_begin(): both buttons are taken to be down until seen otherwise.
Init ==
    /\ state = "pending" /\ log = <<>>
    /\ approveStale = TRUE /\ cancelStale = TRUE
    /\ holdSince = None /\ releaseSince = None /\ cancelSince = None

Begin ==
    /\ state # "pending"
    /\ state' = "pending" /\ log' = <<>>
    /\ approveStale' = TRUE /\ cancelStale' = TRUE
    /\ holdSince' = None /\ releaseSince' = None /\ cancelSince' = None

\* Mutant: glitches add up.
CancelFromFirst(down, t) ==
    IF cancelSince # None THEN cancelSince ELSE IF down THEN t ELSE None

\* When the cancel button went down, once it counts.
CancelFrom(down, t) ==
    IF ~down THEN None ELSE IF cancelSince = None THEN t ELSE cancelSince

\* When contact was lost in the middle of a hold.
ReleaseFrom(down, t) ==
    IF down \/ holdSince = None THEN None
    ELSE IF releaseSince = None THEN t ELSE releaseSince

\* Lost for long enough to be the owner letting go.
LetGo(down, t) == ~down /\ holdSince # None /\ Lasted(releaseSince, t, Bounce)

\* Mutant: the start of a hold is taken from the wrong end.
HoldFromEnd(down, t) ==
    IF LetGo(down, t) THEN None
    ELSE IF down /\ holdSince = None THEN t - Hold ELSE holdSince

HoldFrom(down, t) ==
    IF LetGo(down, t) THEN None
    ELSE IF down /\ holdSince = None THEN t ELSE holdSince

\* Mutant: as long as the hold takes, whenever it began.
FinishingWhenever(since, t) == since # None /\ t < since + Hold

\* Past the deadline, a hold begun gets to finish: bounded by Hold again.
Finishing(since, t) == since # None /\ t < since + Hold /\ t < Timeout + Hold

\* Mutant: a cancel still in doubt does not withhold the grant.
VerdictUndoubted(down, held, cancelled, t) ==
    CASE Lasted(cancelled, t, Debounce) -> "denied"
      [] ~Lasted(cancelled, t, Debounce) /\ down /\ Lasted(held, t, Hold) -> "granted"
      [] OTHER -> IF t >= Timeout /\ ~Finishing(held, t) THEN "expired" ELSE "pending"

\* The verdict of a poll at t, given the flags as it leaves them.
Verdict(down, held, cancelled, t) ==
    CASE Lasted(cancelled, t, Debounce) -> "denied"
      [] ~Lasted(cancelled, t, Debounce) /\ down /\ cancelled = None
            /\ Lasted(held, t, Hold) -> "granted"
      [] OTHER -> IF t >= Timeout /\ ~Finishing(held, t) THEN "expired" ELSE "pending"

\* approval_poll() at time t, with the raw levels of both buttons.
PollButtons(t, approve, cancel) ==
    LET down == approve /\ ~approveStale
        cancelled == CancelFrom(cancel /\ ~cancelStale, t)
        held == HoldFrom(down, t)
    IN  /\ state = "pending"
        /\ approveStale' = (approveStale /\ approve)
        /\ cancelStale' = (cancelStale /\ cancel)
        /\ cancelSince' = cancelled
        /\ state' = Verdict(down, held, cancelled, t)
        /\ IF state' = "denied" THEN UNCHANGED <<holdSince, releaseSince>>
           ELSE /\ holdSince' = held
                /\ releaseSince' = IF LetGo(down, t) THEN None ELSE ReleaseFrom(down, t)
        /\ log' = Append(log, [at |-> t, approve |-> approve, cancel |-> cancel])

Next ==
    \/ Begin
    \/ \E t \in Now .. Now + MaxPoll, approve, cancel \in BOOLEAN :
          /\ log # <<>> => t > Now
          /\ PollButtons(t, approve, cancel)

Spec == Init /\ [][Next]_vars

-----------------------------------------------------------------------------
(***************************************************************************)
(* Properties, about what the polls saw.                                   *)
(***************************************************************************)
Polls == DOMAIN log
Last == Len(log)

\* The button had been seen released in this prompt before poll i.
SeenUp(button, i) == \E j \in 1 .. i - 1 : ~log[j][button]

\* Polls i to the last all saw the button down, and span at least d.
DownFor(button, i, d) ==
    /\ \A j \in i .. Last : log[j][button]
    /\ log[Last].at >= log[i].at + d

\* Between i and j the approve button was up for Bounce or longer.
Released(i, j) ==
    \E k, l \in i .. j : /\ k < l /\ log[l].at >= log[k].at + Bounce
                         /\ \A n \in k .. l : ~log[n].approve

\* The owner refused: a fresh press of cancel, trusted after Debounce.
Refused == \E i \in Polls : SeenUp("cancel", i) /\ DownFor("cancel", i, Debounce)

\* A fresh press of cancel that is not settled yet.
CancelInDoubt == Last > 0 /\ log[Last].cancel /\ SeenUp("cancel", Last) /\ ~Refused

\* The owner approved: a fresh press of button 1 at least Hold ago, still
\* down, with nothing but bounce in between.
HeldThrough ==
    \E i \in Polls :
        /\ SeenUp("approve", i) /\ log[i].approve /\ log[Last].approve
        /\ log[Last].at >= log[i].at + Hold
        /\ ~Released(i, Last)

\* A disclosure is granted exactly when the owner has held button 1, and then
\* at that very poll; a cancel that might be real withholds it.
GrantedIsHeld == state = "granted" <=> HeldThrough /\ ~Refused /\ ~CancelInDoubt

\* Denied exactly when a fresh press of cancel lasted, whatever else was down:
\* neither a line stuck low nor a finger still down from the last prompt.
DeniedIsRefused == state = "denied" <=> Refused

\* A prompt nobody answers ends, a hold on the way or not.
NeverLingers ==
    /\ state = "pending" => Now < Timeout + Hold
    /\ state = "expired" => Now >= Timeout
=============================================================================
