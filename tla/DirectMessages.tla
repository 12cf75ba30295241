-------------------------- MODULE DirectMessages --------------------------
(* One direct conversation between two Möbius hosts (social_routes.py): the    *)
(* author's host saves a message, claims a delivery attempt, finds the peer's  *)
(* key, posts a signed envelope and settles the attempt; the peer's host       *)
(* stores the message under its owner's request policy.                        *)
(*                                                                             *)
(* A request is one forked process. Each of its storage transactions holds     *)
(* app_storage_lock and is one action here; between two of them other requests *)
(* run, the network loses or delays what was sent, and the process may die.    *)
(* Writing the incoming message and then the conversation's metadata are two   *)
(* file writes of one transaction: StoreTorn is the process that dies between  *)
(* them.                                                                       *)
EXTENDS Integers, FiniteSets

CONSTANTS
  Hosts,      \* the two instances
  Messages,   \* message ids, minted by the author's app
  Author,     \* the host each id belongs to
  Texts,      \* contents
  NoText,     \* no content
  Requests,   \* concurrent private requests (send, retry)
  MaxFaults   \* bound on crashes, losses, refusals and timeouts

ASSUME DirectAssumption ==
  /\ Cardinality(Hosts) = 2
  /\ Author \in [Messages -> Hosts]
  /\ Messages # {} /\ NoText \notin Texts
  /\ MaxFaults \in Nat

VARIABLES
  file,     \* msgs/<id>.json of each host
  conv,     \* meta.json of each host's conversation with the other
  request,  \* what each running request remembers
  wire,     \* envelopes posted and not yet handled
  replies,  \* answers not yet read
  faults,   \* faults so far
  (* history of the run, read by no action *)
  sealed,   \* messages that left their host encrypted
  fresh,    \* incoming messages stored since the owner last cleared the counters
  torn      \* those whose metadata was never written

vars == <<file, conv, request, wire, replies, faults, sealed, fresh, torn>>
history == <<sealed, fresh, torn>>

---------------------------------------------------------------------------
Peer(h) == CHOOSE g \in Hosts : g # h
NoAttempt == 0

RequestStates == {"accepted", "pending", "declined", "blocked"}
AttemptSteps == {"discover", "policy", "post", "await", "finish"}

NoRecord == [dir |-> "none", text |-> NoText, status |-> "none", encrypted |-> FALSE,
             attempt |-> NoAttempt, attempts |-> 0, leased |-> FALSE]
NoMeta == [state |-> "none", unread |-> 0, requests |-> 0]
Quiet(m) == [step |-> "idle", msg |-> m, text |-> NoText, attempt |-> NoAttempt,
             encrypts |-> FALSE, status |-> "failed"]
Idle == Quiet(CHOOSE m \in Messages : TRUE)

Own(m) == file[Author[m]][m]
SetOwn(m, record) == file' = [file EXCEPT ![Author[m]][m] = record]
Set(r, update) == request' = [request EXCEPT ![r] = update]
Fault == faults < MaxFaults /\ faults' = faults + 1

Init ==
  /\ file = [h \in Hosts |-> [m \in Messages |-> NoRecord]]
  /\ conv = [h \in Hosts |-> NoMeta]
  /\ request = [r \in Requests |-> Idle]
  /\ wire = {} /\ replies = {}
  /\ faults = 0
  /\ sealed = {}
  /\ fresh = [h \in Hosts |-> {}]
  /\ torn = [h \in Hosts |-> {}]

---------------------------------------------------------------------------
(* Sending: send_message, then _attempt_direct_delivery, which a retry starts  *)
(* directly.                                                                    *)

\* _prepare_outgoing_conversation: a first message is consent; an undecided or
\* refused request must not be answered.
Send(r, m, t) ==
  LET h == Author[m] IN
  /\ request[r].step = "idle"
  /\ conv[h].state \in {"none", "accepted"}
  /\ conv' = [conv EXCEPT ![h].state = "accepted"]
  /\ Set(r, [Quiet(m) EXCEPT !.step = "persist", !.text = t])
  /\ UNCHANGED <<file, wire, replies, faults, history>>

\* _persist_outgoing_message: author intent is saved once; the same id again is the
\* same message or a conflict (409).
Persist(r) ==
  LET m == request[r].msg  t == request[r].text IN
  /\ request[r].step = "persist"
  /\ \/ /\ Own(m).dir = "none"
        /\ SetOwn(m, [NoRecord EXCEPT !.dir = "out", !.text = t, !.status = "sending"])
        /\ Set(r, [request[r] EXCEPT !.step = "begin"])
     \/ /\ Own(m).dir # "none"
        /\ IF Own(m).text = t /\ Own(m).status # "delivered"
           THEN Set(r, [request[r] EXCEPT !.step = "begin"])
           ELSE Set(r, Idle)
        /\ UNCHANGED file
  /\ UNCHANGED <<conv, wire, replies, faults, history>>

Retry(r, m) ==
  /\ request[r].step = "idle"
  /\ Own(m).dir = "out" /\ Own(m).status # "delivered"
  /\ Set(r, [Quiet(m) EXCEPT !.step = "begin"])
  /\ UNCHANGED <<file, conv, wire, replies, faults, history>>

\* Mutant: the lease of a running attempt is not looked at.
CanClaim_Unleased(m) == Own(m).status # "delivered"

\* Mutant: a delivered message may be claimed again.
CanClaim_Delivered(m) == ~Own(m).leased

\* Mutant: a lease never expires.
CanClaim_NeverExpires(m) == Own(m).status # "delivered" /\ Own(m).attempt = NoAttempt

CanClaim(m) == Own(m).status # "delivered" /\ ~Own(m).leased

\* _begin_delivery_attempt: claim the message for one bounded attempt.
ClaimAttempt(r) ==
  LET m == request[r].msg  next == Own(m).attempts + 1 IN
  /\ request[r].step = "begin"
  /\ CanClaim(m)
  /\ SetOwn(m, [Own(m) EXCEPT !.status = "sending", !.attempt = next, !.attempts = next,
                              !.leased = TRUE])
  /\ Set(r, [request[r] EXCEPT !.step = "discover", !.attempt = next,
                               !.encrypts = Own(m).encrypted])
  /\ UNCHANGED <<conv, wire, replies, faults, history>>

ClaimRefused(r) ==
  /\ request[r].step = "begin"
  /\ ~CanClaim(request[r].msg)
  /\ Set(r, Idle)
  /\ UNCHANGED <<file, conv, wire, replies, faults, history>>

\* _fetch_actor: the card has an encryption key, or it is an older peer's without
\* one, which an encrypted message refuses.
Discover(r) ==
  /\ request[r].step = "discover"
  /\ \/ Set(r, [request[r] EXCEPT !.step = "policy"]) /\ UNCHANGED faults
     \/ /\ ~request[r].encrypts
        /\ Set(r, [request[r] EXCEPT !.step = "post"])
        /\ UNCHANGED faults
  /\ UNCHANGED <<file, conv, wire, replies, history>>

\* The card cannot be fetched, has a bad key, or lost the key this message needs.
DiscoveryFails(r) ==
  /\ request[r].step = "discover"
  /\ Fault
  /\ Set(r, [request[r] EXCEPT !.step = "finish"])
  /\ UNCHANGED <<file, conv, wire, replies, history>>

\* Mutant: the choice to encrypt is kept in memory only.
RequireEncrypted_Unsaved(r) ==
  /\ request[r].step = "policy"
  /\ Set(r, [request[r] EXCEPT !.step = "post", !.encrypts = TRUE])
  /\ UNCHANGED <<file, conv, wire, replies, faults, history>>

\* _require_encrypted_delivery: the choice to encrypt is saved before the bytes
\* leave; an attempt that lost its lease stops.
RequireEncrypted(r) ==
  LET m == request[r].msg IN
  /\ request[r].step = "policy"
  /\ IF Own(m).attempt = request[r].attempt
     THEN /\ SetOwn(m, [Own(m) EXCEPT !.encrypted = TRUE])
          /\ Set(r, [request[r] EXCEPT !.step = "post", !.encrypts = TRUE])
     ELSE /\ Set(r, [request[r] EXCEPT !.step = "finish"])
          /\ UNCHANGED file
  /\ UNCHANGED <<conv, wire, replies, faults, history>>

\* _post_signed_envelope: the same id and text, a new signature each time.
Post(r) ==
  LET m == request[r].msg IN
  /\ request[r].step = "post"
  /\ wire' = wire \cup {[msg |-> m, text |-> Own(m).text, sealed |-> request[r].encrypts,
                         attempt |-> request[r].attempt]}
  /\ sealed' = IF request[r].encrypts THEN sealed \cup {m} ELSE sealed
  /\ Set(r, [request[r] EXCEPT !.step = "await"])
  /\ UNCHANGED <<file, conv, replies, faults, fresh, torn>>

Answered(r, reply) == reply.msg = request[r].msg /\ reply.attempt = request[r].attempt

\* Mutant: any answer counts as delivery.
ReadReply_AnyAnswer(r) ==
  /\ request[r].step = "await"
  /\ \E reply \in replies :
       /\ Answered(r, reply)
       /\ replies' = replies \ {reply}
       /\ Set(r, [request[r] EXCEPT !.step = "finish", !.status = "delivered"])
  /\ UNCHANGED <<file, conv, wire, faults, history>>

ReadReply(r) ==
  /\ request[r].step = "await"
  /\ \E reply \in replies :
       /\ Answered(r, reply)
       /\ replies' = replies \ {reply}
       /\ Set(r, [request[r] EXCEPT !.step = "finish",
                                    !.status = IF reply.ok THEN "delivered" ELSE "failed"])
  /\ UNCHANGED <<file, conv, wire, faults, history>>

\* The shared budget ends (DIRECT_DELIVERY_TIMEOUT_S) or the connection breaks:
\* the peer may still store the message. It costs a fault when an answer could come.
TimeOut(r) ==
  /\ request[r].step = "await"
  /\ \/ Fault
     \/ /\ \A e \in wire \cup replies :
             e.msg # request[r].msg \/ e.attempt # request[r].attempt
        /\ UNCHANGED faults
  /\ Set(r, [request[r] EXCEPT !.step = "finish"])
  /\ UNCHANGED <<file, conv, wire, replies, history>>

OwnsAttempt(r) == Own(request[r].msg).attempt = request[r].attempt

Settled(record, r) ==
  [record EXCEPT !.status = request[r].status, !.encrypted = @ \/ request[r].encrypts,
                 !.attempt = NoAttempt, !.leased = FALSE]

\* _finish_delivery_attempt: only the attempt that still owns the lease settles it.
Finish(r) ==
  LET m == request[r].msg IN
  /\ request[r].step = "finish"
  /\ IF OwnsAttempt(r) THEN SetOwn(m, Settled(Own(m), r)) ELSE UNCHANGED file
  /\ Set(r, Idle)
  /\ UNCHANGED <<conv, wire, replies, faults, history>>

\* DELIVERY_LEASE_S outlasts the 15 s a service process lives, so when the lease of
\* an attempt is over its process is gone.
LeaseExpires(m) ==
  /\ Own(m).leased
  /\ \A r \in Requests :
       ~(request[r].msg = m /\ request[r].attempt = Own(m).attempt
         /\ request[r].step \in AttemptSteps)
  /\ SetOwn(m, [Own(m) EXCEPT !.leased = FALSE])
  /\ UNCHANGED <<conv, request, wire, replies, faults, history>>

---------------------------------------------------------------------------
(* Receiving: receive_message in the public lane of the peer.                   *)

Receiver(e) == Peer(Author[e.msg])
Known(e) == file[Receiver(e)][e.msg].dir # "none"

\* Mutant: a first message gives its conversation a state of its own.
StateOnReceive_New(h) == IF conv[h].state = "none" THEN "new" ELSE conv[h].state

\* Mutant: a message from someone who was declined is a new request.
StateOnReceive_Again(h) == IF conv[h].state \in {"none", "declined"} THEN "pending" ELSE conv[h].state

\* A conversation without metadata that receives a message becomes a request.
StateOnReceive(h) == IF conv[h].state = "none" THEN "pending" ELSE conv[h].state

Answer(e, ok) == replies' = replies \cup {[msg |-> e.msg, attempt |-> e.attempt, ok |-> ok]}

SaveIncoming(e) ==
  file' = [file EXCEPT ![Receiver(e)][e.msg] =
             [NoRecord EXCEPT !.dir = "in", !.text = e.text, !.status = "delivered",
                              !.encrypted = e.sealed]]

\* Mutant: a repeated message is counted again.
ReceiveKnown_Counted(e) ==
  LET h == Receiver(e) IN
  /\ conv[h].state = "blocked" \/ Known(e)
  /\ conv' = IF conv[h].state = "accepted" THEN [conv EXCEPT ![h].unread = @ + 1] ELSE conv
  /\ Answer(e, TRUE)
  /\ UNCHANGED <<file, fresh, torn, faults>>

\* A blocked sender and a repeated message get an ordinary receipt and change nothing.
ReceiveKnown(e) ==
  /\ conv[Receiver(e)].state = "blocked" \/ Known(e)
  /\ Answer(e, TRUE)
  /\ UNCHANGED <<file, conv, fresh, torn, faults>>

\* _store_message: the message, then the counters of its conversation. A process
\* that dies after both gives no answer.
ReceiveNew(e) ==
  LET h == Receiver(e)  state == StateOnReceive(h) IN
  /\ conv[h].state # "blocked" /\ ~Known(e)
  /\ SaveIncoming(e)
  /\ conv' = [conv EXCEPT ![h] =
       [state |-> state,
        unread |-> IF state = "accepted" THEN @.unread + 1 ELSE 0,
        requests |-> IF state = "pending" THEN @.requests + 1 ELSE @.requests]]
  /\ fresh' = [fresh EXCEPT ![h] = @ \cup {e.msg}]
  /\ \/ Answer(e, TRUE) /\ UNCHANGED faults
     \/ UNCHANGED replies /\ Fault
  /\ UNCHANGED torn

\* The process dies between the two files.
StoreTorn(e) ==
  LET h == Receiver(e) IN
  /\ conv[h].state # "blocked" /\ ~Known(e)
  /\ Fault
  /\ SaveIncoming(e)
  /\ fresh' = [fresh EXCEPT ![h] = @ \cup {e.msg}]
  /\ torn' = [torn EXCEPT ![h] = @ \cup {e.msg}]
  /\ UNCHANGED <<conv, replies>>

\* The peer has not joined, cannot verify or open the envelope, or is over capacity.
Refuse(e) ==
  /\ Fault
  /\ Answer(e, FALSE)
  /\ UNCHANGED <<file, conv, fresh, torn>>

Lose(e) == Fault /\ UNCHANGED <<file, conv, replies, fresh, torn>>

Receive(e) ==
  /\ wire' = wire \ {e}
  /\ ReceiveKnown(e) \/ ReceiveNew(e) \/ StoreTorn(e) \/ Refuse(e) \/ Lose(e)
  /\ UNCHANGED <<request, sealed>>

---------------------------------------------------------------------------
(* The owner of a host: _set_dm_request_state and _mark_dm_read.                *)

\* Mutant: a decision is applied to a conversation that is no longer a request.
Decide_Any(h, state) ==
  /\ conv[h].state # "none"
  /\ conv' = [conv EXCEPT ![h] = [state |-> state, unread |-> 0, requests |-> 0]]
  /\ fresh' = [fresh EXCEPT ![h] = {}]
  /\ UNCHANGED <<file, request, wire, replies, faults, sealed, torn>>

Decide(h, state) ==
  /\ conv[h].state = "pending"
  /\ conv' = [conv EXCEPT ![h] = [state |-> state, unread |-> 0, requests |-> 0]]
  /\ fresh' = [fresh EXCEPT ![h] = {}]
  /\ UNCHANGED <<file, request, wire, replies, faults, sealed, torn>>

MarkRead(h) ==
  /\ conv[h].unread > 0
  /\ conv' = [conv EXCEPT ![h].unread = 0]
  /\ fresh' = [fresh EXCEPT ![h] = {}]
  /\ UNCHANGED <<file, request, wire, replies, faults, sealed, torn>>

\* A service process dies or is ended by the platform between two transactions.
Crash(r) ==
  /\ request[r].step # "idle"
  /\ Fault
  /\ Set(r, Idle)
  /\ UNCHANGED <<file, conv, wire, replies, history>>

---------------------------------------------------------------------------
Progress(r) ==
  \/ Persist(r) \/ ClaimAttempt(r) \/ ClaimRefused(r) \/ Discover(r)
  \/ RequireEncrypted(r) \/ Post(r) \/ ReadReply(r) \/ TimeOut(r) \/ Finish(r)

Next ==
  \/ \E r \in Requests, m \in Messages : Retry(r, m) \/ \E t \in Texts : Send(r, m, t)
  \/ \E r \in Requests : Progress(r) \/ DiscoveryFails(r) \/ Crash(r)
  \/ \E m \in Messages : LeaseExpires(m)
  \/ \E e \in wire : Receive(e)
  \/ \E h \in Hosts : MarkRead(h) \/ \E s \in RequestStates \ {"pending"} : Decide(h, s)

Spec == Init /\ [][Next]_vars

\* What is fair: a running request takes its next step or dies, the clock moves, an
\* envelope in flight is handled or lost, and the author retries what is not delivered.
Fairness ==
  /\ \A r \in Requests : WF_vars(Progress(r))
  /\ \A m \in Messages :
       /\ WF_vars(LeaseExpires(m))
       /\ SF_vars(\E r \in Requests : Retry(r, m))
       /\ WF_vars(\E e \in wire : e.msg = m /\ Receive(e))

FairSpec == Spec /\ Fairness

---------------------------------------------------------------------------
Record == [dir : {"none", "in", "out"}, text : Texts \cup {NoText},
           status : {"none", "sending", "failed", "delivered"}, encrypted : BOOLEAN,
           attempt : Nat, attempts : Nat, leased : BOOLEAN]

\* Types of the state.
TypeOK ==
  /\ file \in [Hosts -> [Messages -> Record]]
  /\ conv \in [Hosts -> [state : RequestStates \cup {"none"}, unread : Nat, requests : Nat]]
  /\ request \in [Requests ->
       [step : {"idle", "persist", "begin"} \cup AttemptSteps, msg : Messages,
        text : Texts \cup {NoText}, attempt : Nat, encrypts : BOOLEAN,
        status : {"failed", "delivered"}]]
  /\ wire \subseteq [msg : Messages, text : Texts, sealed : BOOLEAN, attempt : Nat]
  /\ replies \subseteq [msg : Messages, attempt : Nat, ok : BOOLEAN]
  /\ faults \in 0..MaxFaults
  /\ sealed \subseteq Messages
  /\ fresh \in [Hosts -> SUBSET Messages] /\ torn \in [Hosts -> SUBSET Messages]

\* A message shown as delivered is on the peer's disk with the text its author saved,
\* or the peer's owner has blocked the author (_finish_delivery_attempt, receive_message).
DeliveredIsStored ==
  \A m \in Messages :
    LET peer == Peer(Author[m]) IN
    Own(m).status = "delivered" =>
      \/ file[peer][m].dir = "in" /\ file[peer][m].text = Own(m).text
      \/ conv[peer].state = "blocked"

\* Two requests are never both between claiming and settling the same message: the
\* lease outlasts a process (DELIVERY_LEASE_S, service ceiling).
OneAttemptAtATime ==
  \A q, r \in Requests :
    /\ q # r /\ request[q].msg = request[r].msg
    /\ request[q].step \in AttemptSteps
    => request[r].step \notin AttemptSteps

\* After a message has left its host encrypted it never leaves it in plaintext, also
\* when the process that chose encryption died before it could record the outcome
\* (social_routes.py:1008-1010).
NoPlaintextAfterSealed ==
  [][\A e \in wire' \ wire : e.msg \in sealed => e.sealed]_vars

\* What is settled stays: a delivered message is never sent again, a saved text and an
\* encryption decision never change.
DeliveryIsFinal ==
  [][\A m \in Messages :
       /\ Own(m).status = "delivered" => Own(m)'.status = "delivered"
       /\ Own(m).dir # "none" => Own(m)'.text = Own(m).text
       /\ Own(m).encrypted => Own(m)'.encrypted]_vars

\* Counters count every stored message exactly once, whatever was retried, except the
\* ones a dying process stored without metadata (_store_message: "concurrent federation
\* retries unable to double-count").
CountersAreExact ==
  \A h \in Hosts :
    LET counted == Cardinality(fresh[h] \ torn[h]) IN
    /\ conv[h].state = "accepted" => conv[h].unread = counted
    /\ conv[h].state = "pending" => conv[h].requests = counted /\ conv[h].unread = 0

\* A host sends only into a conversation its owner accepted or started, and no later
\* request or decision takes that consent away (_prepare_outgoing_conversation,
\* _set_dm_request_state).
SendingNeedsConsent ==
  \A m \in Messages : Own(m).dir = "out" => conv[Author[m]].state = "accepted"

\* Between two owners who write, accept, decline and block: nobody sends without consent,
\* and the counters count every stored message once (_prepare_outgoing_conversation,
\* _store_message).
ConsentIsKept == SendingNeedsConsent /\ CountersAreExact

\* What an owner decided about a peer stands, whatever the peer sends, repeats or learns
\* late, and no envelope decides for the owner: a stranger's first message makes a request
\* and nothing else (_store_message, _set_dm_request_state).
DecisionsStand ==
  [][\A h \in Hosts :
       LET before == conv[h].state  after == conv'[h].state IN
       /\ before \in {"accepted", "declined", "blocked"} => after = before
       /\ wire' # wire => after = before \/ (before = "none" /\ after = "pending")]_vars

\* What was settled is not undone: sealed a message never travels in the clear, delivered it
\* is never sent again, and a request that was decided stays decided
\* (_begin_delivery_attempt, _set_dm_request_state).
NothingIsUndone == NoPlaintextAfterSealed /\ DeliveryIsFinal /\ DecisionsStand

\* Once faults stop, a saved message the author keeps retrying is delivered: no lease,
\* lost answer or superseded attempt blocks it forever.
SavedIsDelivered ==
  \A m \in Messages : Own(m).dir = "out" ~> Own(m).status = "delivered"

\* social_routes.py:726, "Store one message atomically": a delivered message is in a
\* conversation its reader can see. The code writes the two files one after the other,
\* and answers the retry of a torn store as a duplicate.
DeliveredIsListed ==
  \A m \in Messages : Own(m).status = "delivered" => conv[Peer(Author[m])].state # "none"
============================================================================
