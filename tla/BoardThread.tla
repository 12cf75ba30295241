------------------------------ MODULE BoardThread ------------------------------
(* The open conversation under one post of the board: ui/Board.jsx, its cache of   *)
(* replies, and the folding of a fresh thread into the one that is shown           *)
(* (reconciliation.js, ui/boardEdits.js).                                          *)
(*                                                                                *)
(* A read is shared by whoever is at most as urgent, and may be overtaken by one    *)
(* that postdates a change; its answer then counts neither for the cache nor for     *)
(* the thread. The owner's reply and deletion show before the host has them.        *)
(* What the host does with them is in CommunityBoard.                               *)
EXTENDS Naturals, FiniteSets

CONSTANTS
  Own, Others,  \* replies of the owner and of others
  None,
  MaxReads,     \* bound on the reads under way
  Budget        \* bound on what people do and on what fails

Replies == Own \cup Others

BoardThreadAssumption == IsFiniteSet(Replies) /\ {MaxReads, Budget} \subseteq Nat

VARIABLES
  host, buried,  \* the replies at the host, and the ids it has deleted
  count,         \* reply_count, as the feed last reported it
  cache,         \* replyCache's entry of this post
  reads,         \* getReplies: the requests under way; one that is answered bears its snapshot
  open, rows, pending, state,  \* the thread: its confirmed rows, and the optimistic ones
  awaited,       \* replyRequest: the read whose answer the thread still wants
  posting, deleting,
  left,
  (* history of the run *)
  done,  \* own replies whose draft is finished: the thread has shown them, or they are gone
  gone   \* replies whose deletion was confirmed to the owner, with no receipt still to come

service == <<host, buried>>
thread == <<open, rows, pending, state>>
vars == <<service, count, cache, reads, thread, awaited, posting, deleting, left, done, gone>>

---------------------------------------------------------------------------
NoRead == [read |-> 0, quiet |-> FALSE]
Free == [is |-> "free", rows |-> {}]
Asked == [Free EXCEPT !.is = "asked"]
NotPosting == [id |-> None, is |-> "none", read |-> 0]

(* An entry has a result, a read that is to replace it, or both. *)
NoEntry == [has |-> FALSE, rows |-> {}, fresh |-> FALSE, read |-> 0, quiet |-> FALSE]
Remembered(r) == [NoEntry EXCEPT !.has = TRUE, !.rows = r, !.fresh = TRUE]

Init ==
  /\ host \in SUBSET Replies /\ buried = {}
  /\ count \in {0, Cardinality(host)} /\ cache = NoEntry
  /\ reads = [n \in 1..MaxReads |-> Free]
  /\ open = FALSE /\ rows = {} /\ pending = {} /\ state = "idle" /\ awaited = NoRead
  /\ posting = NotPosting /\ deleting = [o \in Own |-> "no"]
  /\ left = Budget /\ done = Own \cap host /\ gone = {}

Spend == left > 0 /\ left' = left - 1
Shown == done' = done \cup (Own \cap rows')

---------------------------------------------------------------------------
(* Reading.                                                                  *)

(* A read that is at least as urgent, and no older than the change to be read. *)
Shares(c, afterChange, quiet) == ~afterChange /\ c.read # 0 /\ (quiet \/ ~c.quiet)

(* cachedReplies, of entry c: the read to wait for, which replaces the one of the entry. *)
Read(c, afterChange, quiet) ==
  IF Shares(c, afterChange, quiet) THEN cache' = c /\ UNCHANGED reads
  ELSE LET free == {k \in DOMAIN reads : reads[k].is = "free"}
           n == CHOOSE k \in free : \A j \in free : k <= j IN
       /\ free # {}
       /\ reads' = [reads EXCEPT ![n] = Asked]
       /\ cache' = [c EXCEPT !.read = n, !.quiet = quiet]

(* loadReplies: whatever was awaited before is not awaited any more. *)
Load(c, quiet, force) ==
  Read(c, force, quiet) /\ awaited' = [read |-> cache'.read, quiet |-> quiet]

(* The feed's count is believed when nothing else is known of the thread. *)
NothingToRead == count = 0 /\ ~cache.has /\ cache.read = 0

LoadAtOnce(r) == rows' = r /\ state' = "ready" /\ awaited' = NoRead /\ UNCHANGED reads

(* openReplies *)
Open ==
  /\ ~open /\ Spend /\ open' = TRUE /\ pending' = {}
  /\ IF NothingToRead THEN LoadAtOnce({}) /\ cache' = Remembered({})
     ELSE /\ rows' = cache.rows
          /\ state' = IF cache.has THEN "ready" ELSE "loading"
          /\ Load(cache, cache.has, FALSE)
  /\ Shown
  /\ UNCHANGED <<service, count, posting, deleting, gone>>

(* A notification opens the thread, which may be open already, and shows nothing old. *)
OpenTarget ==
  /\ Spend /\ open' = TRUE /\ rows' = {} /\ pending' = {} /\ state' = "loading"
  /\ Load(cache, FALSE, TRUE)
  /\ UNCHANGED <<service, count, posting, deleting, done, gone>>

(* closeReplies, and another thread that takes this one's place. *)
Close ==
  /\ open /\ open' = FALSE /\ state' = "idle" /\ awaited' = NoRead
  /\ UNCHANGED <<service, count, cache, reads, rows, pending, posting, deleting, left, done, gone>>

(* Try again, beside the error. *)
RetryLoad ==
  /\ open /\ state = "error" /\ Spend
  /\ CASE NothingToRead -> LoadAtOnce({}) /\ cache' = Remembered({}) /\ pending' = {}
       [] ~NothingToRead /\ cache.has /\ cache.fresh ->
            LoadAtOnce(cache.rows) /\ pending' = pending \ cache.rows /\ UNCHANGED cache
       [] OTHER -> Load(cache, FALSE, FALSE) /\ state' = "loading" /\ UNCHANGED <<rows, pending>>
  /\ Shown
  /\ UNCHANGED <<service, count, open, posting, deleting, gone>>

Deleting == {o \in Own : deleting[o] # "no"}

(* pollWhileVisible, while the thread is open. *)
Poll ==
  /\ open /\ posting.is = "none" /\ Deleting = {}
  /\ Load(cache, TRUE, FALSE)
  /\ UNCHANGED <<service, count, thread, posting, deleting, left, done, gone>>

(* refreshReactionTarget *)
AfterReaction ==
  /\ open /\ Spend /\ Load(cache, TRUE, TRUE)
  /\ UNCHANGED <<service, count, thread, posting, deleting, done, gone>>

(* warm *)
Prefetch ==
  /\ count > 0 /\ ~(cache.has /\ (cache.fresh \/ Cardinality(cache.rows) = count))
  /\ Read(cache, FALSE, TRUE)
  /\ UNCHANGED <<service, count, thread, awaited, posting, deleting, left, done, gone>>

ReadFeed ==
  /\ count' = Cardinality(host)
  /\ UNCHANGED <<service, cache, reads, thread, awaited, posting, deleting, left, done, gone>>

(* REPLY_CACHE_TTL_MS *)
Expire ==
  /\ cache.fresh /\ cache' = [cache EXCEPT !.fresh = FALSE] /\ Spend
  /\ UNCHANGED <<service, count, reads, thread, awaited, posting, deleting, done, gone>>

(* REPLY_CACHE_LIMIT other threads come after this one, which is not in use meanwhile. *)
Evict ==
  /\ ~open /\ posting.is = "none" /\ Deleting = {} /\ cache # NoEntry
  /\ cache' = NoEntry /\ Spend
  /\ UNCHANGED <<service, count, reads, thread, awaited, posting, deleting, done, gone>>

AnswerRead(n) ==
  /\ reads[n] = Asked
  /\ reads' = [reads EXCEPT ![n] = [is |-> "rows", rows |-> host]]
  /\ UNCHANGED <<service, count, cache, thread, awaited, posting, deleting, left, done, gone>>

FailRead(n) ==
  /\ reads[n] = Asked /\ Spend
  /\ reads' = [reads EXCEPT ![n].is = "failed"]
  /\ UNCHANGED <<service, count, cache, thread, awaited, posting, deleting, done, gone>>

(* owns(): only the read that the entry names replaces it. *)
Received(n) ==
  IF cache.read # n THEN cache
  ELSE IF reads[n].is = "rows" THEN Remembered(reads[n].rows)
  ELSE IF cache.has THEN [cache EXCEPT !.read = 0] ELSE NoEntry

\* Mutant: any read, while the thread is open.
Wanted_Any(n) == open

(* request === replyRequest.current *)
Wanted(n) == awaited.read = n

(* reconcileReplies: rows that are on their way stay beside what the host has. *)
ReceiveRead(n) ==
  /\ reads[n].is \in {"rows", "failed"}
  /\ reads' = [reads EXCEPT ![n] = Free] /\ cache' = Received(n)
  /\ CASE ~Wanted(n) -> UNCHANGED <<rows, pending, state, awaited>>
       [] Wanted(n) /\ reads[n].is = "rows" ->
            /\ rows' = reads[n].rows /\ pending' = pending \ reads[n].rows
            /\ state' = "ready" /\ awaited' = NoRead
       [] OTHER -> /\ state' = IF awaited.quiet THEN state ELSE "error"
                   /\ awaited' = NoRead /\ UNCHANGED <<rows, pending>>
  /\ posting' = IF posting.read = n THEN NotPosting ELSE posting
  /\ Shown
  /\ UNCHANGED <<service, count, open, deleting, left, gone>>

---------------------------------------------------------------------------
(* Writing.                                                                  *)

(* sendReply: a new reply, or the attempt that failed under its id. *)
Send(o) ==
  /\ open /\ posting.is = "none" /\ o \notin done /\ Spend
  /\ posting' = [NotPosting EXCEPT !.id = o, !.is = "asked"]
  /\ pending' = pending \cup {o}
  /\ UNCHANGED <<service, count, cache, reads, open, rows, state, awaited, deleting, done, gone>>

Bury(r) == host' = host \ {r} /\ buried' = buried \cup {r}

(* The host's answer; or none, whether the host has the reply or not. *)
AnswerPost ==
  LET with == host \cup ({posting.id} \ buried) IN
  /\ posting.is = "asked"
  /\ \/ /\ posting' = [posting EXCEPT !.is = IF posting.id \in buried THEN "gone" ELSE "ok"]
        /\ host' = with /\ UNCHANGED left
     \/ /\ posting' = [posting EXCEPT !.is = "failed"] /\ Spend
        /\ host' \in {host, with}
  /\ UNCHANGED <<buried, count, cache, reads, thread, awaited, deleting, done, gone>>

(* upsertReplyAttempt: the confirmed reply joins the thread and the entry, and what *)
(* was asked before it is overtaken.                                                *)
Confirm ==
  LET o == posting.id  c == Remembered(cache.rows \cup {o}) IN
  /\ posting.is = "ok"
  /\ done' = done \cup {o}
  /\ IF open
     THEN /\ rows' = rows \cup {o} /\ pending' = pending \ {o}
          /\ Load(c, TRUE, TRUE)
          /\ posting' = [posting EXCEPT !.is = "reading", !.read = awaited'.read]
     ELSE cache' = c /\ posting' = NotPosting /\ UNCHANGED <<reads, rows, pending, awaited>>
  /\ UNCHANGED <<service, count, open, state, deleting, left, gone>>

PostFails ==
  LET o == posting.id IN
  /\ posting.is \in {"failed", "gone"} /\ posting' = NotPosting
  /\ pending' = IF open THEN pending \ {o} ELSE pending
  /\ IF posting.is = "gone"
     THEN /\ done' = done \cup {o}
          /\ IF open THEN Load(cache, TRUE, TRUE) ELSE UNCHANGED <<cache, reads, awaited>>
     ELSE UNCHANGED <<done, cache, reads, awaited>>
  /\ UNCHANGED <<service, count, open, rows, state, deleting, left, gone>>

(* updateReplies: a load that is under way predates the change. *)
Overtakes == awaited' = IF open THEN NoRead ELSE awaited
Updated(r) == IF cache.has THEN Remembered(r) ELSE cache

(* doDeleteReply, which takes the row away at once. *)
Delete(r) ==
  /\ open /\ r \in rows /\ deleting[r] = "no" /\ Spend
  /\ deleting' = [deleting EXCEPT ![r] = "asked"]
  /\ rows' = rows \ {r} /\ cache' = Updated(cache.rows \ {r}) /\ Overtakes
  /\ UNCHANGED <<service, count, reads, open, pending, state, posting, done, gone>>

AnswerDelete(r) ==
  /\ deleting[r] = "asked"
  /\ \/ deleting' = [deleting EXCEPT ![r] = "ok"] /\ UNCHANGED left /\ Bury(r)
     \/ deleting' = [deleting EXCEPT ![r] = "failed"] /\ Spend /\ (Bury(r) \/ UNCHANGED service)
  /\ UNCHANGED <<count, cache, reads, thread, awaited, posting, done, gone>>

\* Mutant: a deletion that failed still counts as under way.
Settled_Ok(r) == [deleting EXCEPT ![r] = IF @ = "ok" THEN "no" ELSE "over"]

(* replyDeletingRef: over, either way. *)
Settled(r) == [deleting EXCEPT ![r] = "no"]

\* Mutant: the row was taken away already.
After_Once(r, S) == IF deleting[r] = "ok" THEN S ELSE S \cup {r}

(* withoutReply, since a read that began before may have brought it back; or    *)
(* withRestoredReply.                                                           *)
After(r, S) == IF deleting[r] = "ok" THEN S \ {r} ELSE S \cup {r}

(* doDeleteReply, from the answer on, and refreshOpenThread. *)
DeleteSettles(r) ==
  LET c == Updated(After(r, cache.rows)) IN
  /\ deleting[r] \in {"ok", "failed"}
  /\ deleting' = Settled(r)
  /\ gone' = IF deleting[r] = "ok" /\ posting.id # r THEN gone \cup {r} ELSE gone
  /\ IF open THEN rows' = After(r, rows) /\ Load(c, TRUE, FALSE)
     ELSE cache' = c /\ UNCHANGED <<reads, rows, awaited>>
  /\ UNCHANGED <<service, count, open, pending, state, posting, left, done>>

(* Somebody else replies; the post's author deletes a reply. *)
HostChanges ==
  /\ Spend
  /\ \/ \E r \in Others \ (host \cup buried) : host' = host \cup {r} /\ UNCHANGED buried
     \/ \E r \in host : Bury(r)
  /\ UNCHANGED <<count, cache, reads, thread, awaited, posting, deleting, done, gone>>

---------------------------------------------------------------------------
Next ==
  \/ Open \/ OpenTarget \/ Close \/ RetryLoad \/ Poll \/ AfterReaction \/ Prefetch \/ ReadFeed
  \/ Expire \/ Evict \/ AnswerPost \/ Confirm \/ PostFails \/ HostChanges
  \/ \E n \in 1..MaxReads : AnswerRead(n) \/ FailRead(n) \/ ReceiveRead(n)
  \/ \E o \in Own : Send(o) \/ Delete(o) \/ AnswerDelete(o) \/ DeleteSettles(o)

(* Requests end, at the latest by their deadlines, and the open thread keeps polling. *)
Fairness ==
  /\ WF_vars(Poll) /\ WF_vars(AnswerPost \/ Confirm \/ PostFails)
  /\ \A n \in 1..MaxReads : WF_vars(AnswerRead(n) \/ ReceiveRead(n))
  /\ \A o \in Own : WF_vars(AnswerDelete(o) \/ DeleteSettles(o))

Spec == Init /\ [][Next]_vars /\ Fairness

---------------------------------------------------------------------------
TypeOK ==
  /\ {host, buried, rows, pending, cache.rows} \subseteq SUBSET Replies
  /\ host \cap buried = {} /\ count \in 0..Cardinality(Replies)
  /\ {cache.has, cache.fresh, cache.quiet, open, awaited.quiet} \subseteq BOOLEAN
  /\ {cache.read, awaited.read, posting.read} \subseteq 0..MaxReads
  /\ \A n \in 1..MaxReads : reads[n] \in [is : {"free", "asked", "failed", "rows"}, rows : SUBSET Replies]
  /\ state \in {"idle", "loading", "ready", "error"}
  /\ posting.id \in Own \cup {None}
  /\ posting.is \in {"none", "asked", "ok", "failed", "gone", "reading"}
  /\ deleting \in [Own -> {"no", "asked", "ok", "failed"}] /\ left \in 0..Budget
  /\ done \subseteq Own /\ gone \subseteq Own

(* updateReplies, cachedReplies: a deletion the host has confirmed is not undone on   *)
(* screen, nor in the entry the thread is opened from, by a read that began earlier.    *)
GoneStaysGone == gone \cap (cache.rows \cup IF open THEN rows ELSE {}) = {}

(* loadReplies: while the thread stays open, a reply that is still at the host leaves   *)
(* it only when its owner deletes it; no older read takes a newer row away.             *)
Stays == open /\ open' /\ state' # "loading"
RepliesStay == [][Stays => \A r \in rows \cap host : r \in rows' \/ (r \in Own /\ deleting'[r] # "no")]_vars

(* pollWhileVisible, replySendingRef, replyDeletingRef: a thread that stays open comes   *)
(* to show exactly what the host has.                                                    *)
CaughtUp == rows = host /\ pending = {} /\ state = "ready"
ThreadCatchesUp == <>[]open => <>[]CaughtUp
=============================================================================
