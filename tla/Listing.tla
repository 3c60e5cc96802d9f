------------------------------ MODULE Listing ------------------------------
(***************************************************************************)
(* list_notes, the one reply whose size depends on what is stored, in the  *)
(* one buffer that every reply is written to (dispatcher.c, json.c): which *)
(* notes a page holds, what it says of the rest, and what a client knows   *)
(* that walks the pages while another transport adds and removes notes.    *)
(***************************************************************************)
EXTENDS Integers, SequencesExt

CONSTANTS
    Notes,      \* what may be stored
    Size,       \* the characters of each note in a listing
    Cap,        \* the size of the reply buffer, the NUL included
    HeadLen,    \* ok, total, offset and the brackets of a listing
    NextLen,    \* next_offset
    TagLen,     \* a tag that is echoed
    ErrorLen,   \* an error with its message
    WordSize,   \* what a size_t counts modulo: 2^32, of the 2^64 on the wire
    MaxLimit,   \* bound on the limit a client asks for
    MaxChanges, \* bound on additions and removals
    None        \* an argument, an error or a next page that is absent

\* Above all, an error with its tag fits.
ASSUME ListingAssumption ==
    /\ IsFiniteSet(Notes) /\ Size \in [Notes -> Nat]
    /\ HeadLen \in Nat \ {0} /\ ErrorLen \in Nat \ {0}
    /\ NextLen \in Nat /\ TagLen \in Nat
    /\ Cap \in Nat /\ ErrorLen + TagLen < Cap
    /\ MaxLimit \in Nat /\ WordSize \in Nat \ {0}
    /\ None \notin Nat \cup {"bad_request", "response_too_large"}

JwMaxDepth == 8

VARIABLES
    notes,      \* g_notes
    request,    \* the arguments the client walks with: [limit, tag]
    offset,     \* where its next page begins, None when it is not walking
    seen,       \* the notes on the pages it was given
    stayed,     \* the notes that have been there since it began
    removals,   \* how many were removed since
    changes     \* additions and removals so far

walk == <<notes, request, offset, seen, stayed, removals, changes>>

-----------------------------------------------------------------------------
(***************************************************************************)
(* json.c's writer.  "len" is what the tree will print as, "buf" what was  *)
(* printed to the caller's buffer when the outermost container closed.     *)
(***************************************************************************)
JwInit == [ok |-> TRUE, root |-> FALSE, depth |-> 0, len |-> 0, buf |-> 0]

JwBegin(w, len) ==
    IF ~ w.ok \/ (w.root /\ w.depth = 0) THEN [w EXCEPT !.ok = FALSE]
    ELSE IF w.depth >= JwMaxDepth THEN [w EXCEPT !.ok = FALSE, !.root = TRUE]
    ELSE [w EXCEPT !.root = TRUE, !.depth = @ + 1, !.len = @ + len]

JwField(w, len) ==
    IF ~ w.ok \/ w.depth = 0 THEN [w EXCEPT !.ok = FALSE] ELSE [w EXCEPT !.len = @ + len]

\* A slip: what does not fit is printed as far as it goes.
JwFinalizeCut(w) ==
    [w EXCEPT !.root = FALSE, !.ok = w.ok /\ w.root,
              !.buf = IF w.len + 1 > Cap THEN Cap - 1 ELSE w.len]

JwFinalize(w) ==
    LET fits == w.ok /\ w.root /\ w.len + 1 <= Cap
    IN  [w EXCEPT !.root = FALSE, !.ok = fits, !.buf = IF fits THEN w.len ELSE @]

JwEnd(w) ==
    LET closed == [w EXCEPT !.depth = IF @ > 0 THEN @ - 1 ELSE 0]
    IN  IF closed.depth = 0 THEN JwFinalize(closed) ELSE closed

\* end_response(): every reply takes the tag with it.
EndResponse(w, tag) == JwEnd(IF tag THEN JwField(w, TagLen) ELSE w)

WriteError(tag) == EndResponse(JwField(JwBegin(JwInit, 0), ErrorLen), tag)

-----------------------------------------------------------------------------
WriteNote(w, n) == JwEnd(JwEnd(JwBegin(JwField(JwBegin(w, 2), Size[n] - 2), 0)))

\* The loop over a page: the writer after each of its notes.
WriteNotes(w, page) ==
    LET written[k \in 0..Len(page)] ==
            IF k = 0 THEN w ELSE WriteNote(written[k - 1], page[k])
    IN  written

\* build_listing(): the writer after a page of count notes was put into it.
BuildListing(held, from, count, tag) ==
    LET head == JwBegin(JwField(JwBegin(JwInit, 2), HeadLen - 4), 2)
        page == JwEnd(WriteNotes(head, SubSeq(held, from + 1, from + count))[count])
        more == from + count < Len(held)
    IN  EndResponse(IF more THEN JwField(page, NextLen) ELSE page, tag)

\* A slip: the middle is rounded down, and the upper half never tried.
BisectDown(fits, want) ==
    LET largest[r \in (0..want) \X (0..want)] ==
            LET lo == r[1]  hi == r[2]  mid == lo + (hi - lo) \div 2
            IN  IF lo >= hi THEN lo
                ELSE IF mid > lo /\ fits[mid] THEN largest[<<mid, hi>>]
                     ELSE largest[<<lo, IF mid > lo THEN mid - 1 ELSE lo>>]
    IN  largest

\* The loop that looks for the largest page that fits: where it ends from lo and hi.
Bisect(fits, want) ==
    LET largest[r \in (0..want) \X (0..want)] ==
            LET lo == r[1]  hi == r[2]  mid == lo + (hi - lo + 1) \div 2
            IN  IF lo >= hi THEN lo
                ELSE IF fits[mid] THEN largest[<<mid, hi>>]
                ELSE largest[<<lo, mid - 1>>]
    IN  largest

Refusal(error, tag) == [error |-> error, page |-> <<>>, next |-> None, len |-> WriteError(tag).buf]

\* A slip: the next page begins with the last note of this one.
PageOverlapping(held, from, count, tag) ==
    [error |-> None, page |-> SubSeq(held, from + 1, from + count),
     next |-> IF from + count < Len(held) THEN from + (IF count > 1 THEN count - 1 ELSE count)
              ELSE None,
     len |-> BuildListing(held, from, count, tag).buf]

Page(held, from, count, tag) ==
    [error |-> None, page |-> SubSeq(held, from + 1, from + count),
     next |-> IF from + count < Len(held) THEN from + count ELSE None,
     len |-> BuildListing(held, from, count, tag).buf]

\* (size_t)limit_u64
AsSize(limit) == limit % WordSize

Wanted(available, limit) ==
    IF limit = None \/ AsSize(limit) > available THEN available ELSE AsSize(limit)

\* handle_list_notes()
ListNotes(held, from, limit, tag) ==
    LET start == IF from = None THEN 0 ELSE from
        want == Wanted(Len(held) - start, limit)
        fits == [count \in 0..want |-> BuildListing(held, start, count, tag).ok]
        fewer == Bisect(fits, want)[<<0, want>>]
    IN  IF start > Len(held) THEN Refusal("bad_request", tag)
        ELSE IF fits[want] THEN Page(held, start, want, tag)
        ELSE IF limit # None \/ fewer = 0 THEN Refusal("response_too_large", tag)
        ELSE Page(held, start, fewer, tag)

-----------------------------------------------------------------------------
WalkInit ==
    /\ notes \in {s \in UNION {[1..n -> Notes] : n \in 0..Cardinality(Notes)} : IsInjective(s)}
    /\ request = [limit |-> None, tag |-> FALSE]
    /\ offset = None /\ seen = <<>> /\ stayed = {} /\ removals = 0 /\ changes = 0

\* docs/PROTOCOL.md's client: from the beginning, with one limit or none.  (With
\* one that counts as 0 it stays where it is: the next page begins where this one
\* does.)
BeginWalk ==
    /\ offset = None /\ seen = <<>>
    /\ \E limit \in {None} \cup 0..MaxLimit, tag \in BOOLEAN :
          request' = [limit |-> limit, tag |-> tag]
    /\ offset' = 0
    /\ stayed' = ToSet(notes)
    /\ removals' = 0
    /\ UNCHANGED <<notes, seen, changes>>

\* One page, and next_offset fed back as offset until it stops appearing.
NextPage ==
    /\ offset # None
    /\ LET reply == ListNotes(notes, offset, request.limit, request.tag)
       IN  /\ reply.error = None
           /\ seen' = seen \o reply.page
           /\ offset' = reply.next
    /\ UNCHANGED <<notes, request, stayed, removals, changes>>

\* A page was refused: the client starts over.
PageRefused ==
    /\ offset # None
    /\ ListNotes(notes, offset, request.limit, request.tag).error # None
    /\ offset' = None
    /\ seen' = <<>>
    /\ stayed' = {}
    /\ UNCHANGED <<notes, request, removals, changes>>

\* create and import put a note at the end, under an id that was not used before.
Add(n) ==
    /\ changes < MaxChanges
    /\ n \notin ToSet(notes) \cup ToSet(seen)
    /\ notes' = Append(notes, n)
    /\ changes' = changes + 1
    /\ UNCHANGED <<request, offset, seen, stayed, removals>>

\* remove_at() moves the notes behind it forward.
RemoveNote(i) ==
    /\ changes < MaxChanges
    /\ notes' = RemoveAt(notes, i)
    /\ stayed' = stayed \ {notes[i]}
    /\ removals' = removals + 1
    /\ changes' = changes + 1
    /\ UNCHANGED <<request, offset, seen>>

WalkNext ==
    \/ BeginWalk \/ NextPage \/ PageRefused
    \/ \E n \in Notes : Add(n)
    \/ \E i \in DOMAIN notes : RemoveNote(i)

WalkSpec == WalkInit /\ [][WalkNext]_walk

-----------------------------------------------------------------------------
\* What the notes of a page take, up to each of them.
SizeOf(page) ==
    LET sum[k \in 0..Len(page)] == IF k = 0 THEN 0 ELSE sum[k - 1] + Size[page[k]]
    IN  sum

(***************************************************************************)
(* Every request is answered by a whole document in the buffer.  Without a *)
(* limit the page is the largest that fits and is not empty while notes    *)
(* are left; with one it is as many as the limit is in a size_t, or what   *)
(* is left, or refused.  The page names a next one exactly when there is   *)
(* more, where it ends: further on, unless that many is none (limit 0).    *)
(* (handle_list_notes, end_response, jw_finalize.)                         *)
(***************************************************************************)
PagesTellAll ==
    \A from \in {None} \cup 0..Len(notes) + 1, tag \in BOOLEAN,
       limit \in {None} \cup 0..MaxLimit :
        LET reply == ListNotes(notes, from, limit, tag)
            start == IF from = None THEN 0 ELSE from
            left == Len(notes) - start
            fits(count) == BuildListing(notes, start, count, tag).ok
            whole == HeadLen + SizeOf(reply.page)[Len(reply.page)]
                     + (IF reply.next # None THEN NextLen ELSE 0) + (IF tag THEN TagLen ELSE 0)
        IN  /\ reply.len \in 1..Cap - 1
            /\ (reply.error = "bad_request") <=> left < 0
            /\ reply.error = None =>
                   /\ reply.len = whole
                   /\ (reply.next # None) <=> Len(reply.page) < left
                   /\ reply.next # None =>
                          /\ reply.next = start + Len(reply.page)
                          /\ (reply.next = start) <=> (limit # None /\ AsSize(limit) = 0)
                   /\ limit # None => Len(reply.page) = Min({AsSize(limit), left})
                   /\ limit = None =>
                          \A count \in Len(reply.page) + 1..left : ~ fits(count)
            /\ reply.error = "response_too_large" =>
                   IF limit = None THEN \A count \in 1..left : ~ fits(count)
                                   ELSE ~ fits(Min({AsSize(limit), left}))

(***************************************************************************)
(* A client that walked to the end was shown no note twice, and missed no  *)
(* more of those that were there all along than were removed meanwhile     *)
(* (remove_at() moves a note from the next page to the one already read).  *)
(***************************************************************************)
WalkMissesOnlyWhatMoved ==
    /\ IsInjective(seen)
    /\ (offset = None /\ seen # <<>>) => Cardinality(stayed \ ToSet(seen)) <= removals

(***************************************************************************)
(* dispatcher.c:407: an explicit limit "is honoured or refused, never      *)
(* silently shrunk": a client that asks for more than there is gets all.   *)
(***************************************************************************)
LimitIsHonoured ==
    \A limit \in 0..MaxLimit :
        LET reply == ListNotes(notes, 0, limit, FALSE)
        IN  reply.error = None => Len(reply.page) = Min({limit, Len(notes)})
=============================================================================
