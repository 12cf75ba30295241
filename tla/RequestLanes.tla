---------------------------- MODULE RequestLanes ----------------------------
(* The app's requests to its service (api.js, call) and the loops that poll it    *)
(* while the app is on screen (visibility.js, pollWhileVisible).                   *)
(*                                                                                *)
(* What the owner waits for goes straight out. Upkeep waits until none of that is   *)
(* outstanding and then goes out one at a time. A poller is upkeep that asks again   *)
(* some time after its last tick has ended; errands are the other upkeep, which a   *)
(* view may abandon.                                                               *)
EXTENDS Naturals, Sequences, FiniteSets, Lists

CONSTANTS
  Owner,     \* requests the owner waits for
  Pollers, Errands,
  None,
  MaxOwner,  \* bound on the owner's requests
  MaxHides   \* bound on how often the app goes off screen

Upkeep == Pollers \cup Errands

LanesAssumption ==
  /\ Owner \cap Upkeep = {} /\ Pollers \cap Errands = {} /\ None \notin Owner \cup Upkeep
  /\ IsFiniteSet(Pollers) /\ MaxOwner \in Nat /\ MaxHides \in Nat

VARIABLES
  out,      \* foregroundInFlight: the owner's requests under way
  queue,    \* backgroundQueue
  active,   \* backgroundActive, and which it is
  dead,     \* queued jobs whose signal was aborted before they were queued
  visible, started, hides,
  timer,    \* pollers that wait for their next turn
  running,  \* pollers that are in a tick
  asked     \* of the bound

lanes == <<out, queue, active, dead>>
loops == <<visible, started, hides, timer, running>>
vars == <<lanes, loops, asked>>

Queued == {queue[k] : k \in DOMAIN queue}

Init ==
  /\ out = {} /\ queue = <<>> /\ active = None /\ dead = {}
  /\ visible \in BOOLEAN /\ started = FALSE /\ hides = 0
  /\ timer = {} /\ running = {} /\ asked = 0

---------------------------------------------------------------------------
\* Mutant: a finished upkeep request starts the next one at once.
MayStart_Eager(a, o) == a = None

(* pumpBackground *)
MayStart(a, o) == a = None /\ o = {}

(* With these requests under way and these queued: the first that is not dead goes out. *)
Pump(o, q, a, d) ==
  LET live == {k \in DOMAIN q : q[k] \notin d}
      n == IF live = {} THEN Len(q) + 1 ELSE CHOOSE k \in live : \A j \in live : k <= j IN
  IF ~MayStart(a, o)
  THEN queue' = q /\ active' = a /\ dead' = d
  ELSE /\ queue' = SubSeq(q, n + 1, Len(q))
       /\ active' = IF live = {} THEN None ELSE q[n]
       /\ dead' = d \ {q[k] : k \in 1..(n - 1)}

(* call, in the foreground. *)
AskOwner(r) ==
  /\ r \notin out /\ asked < MaxOwner /\ asked' = asked + 1
  /\ out' = out \cup {r}
  /\ UNCHANGED <<queue, active, dead, loops>>

\* Mutant: only an answer lets the upkeep go on, a failure does not.
Goes_Answered(ok, r) == ok

(* call, finally: however the request ended. *)
Goes(ok, r) == TRUE

EndOwner(r, ok) ==
  /\ r \in out /\ out' = out \ {r}
  /\ IF Goes(ok, r) THEN Pump(out', queue, active, dead) ELSE UNCHANGED <<queue, active, dead>>
  /\ UNCHANGED <<loops, asked>>

(* call, in the background: of the job j, by then aborted or not. *)
Enqueue(j, aborted) == Pump(out, Append(queue, j), active, IF aborted THEN dead \cup {j} ELSE dead)

AskErrand(e) ==
  /\ e \notin Queued /\ active # e
  /\ \E aborted \in BOOLEAN : Enqueue(e, aborted)
  /\ UNCHANGED <<out, loops, asked>>

(* The view that asked is gone: a queued job leaves the queue. *)
Abort(e) ==
  /\ e \in Queued /\ e \notin dead
  /\ \E k \in DOMAIN queue : queue[k] = e /\ queue' = RemoveAt(queue, k)
  /\ UNCHANGED <<out, active, dead, loops, asked>>

EndErrand(e) ==
  /\ active = e /\ e \in Errands
  /\ Pump(out, queue, None, dead)
  /\ UNCHANGED <<out, loops, asked>>

---------------------------------------------------------------------------
(* run: not while hidden, nor beside a tick that has not ended.               *)
MayTick(p) == visible /\ p \notin running

Turn(p) ==
  /\ p \in timer /\ timer' = timer \ {p}
  /\ IF MayTick(p) THEN running' = running \cup {p} /\ Enqueue(p, FALSE)
     ELSE UNCHANGED <<running, queue, active, dead>>
  /\ UNCHANGED <<out, visible, started, hides, asked>>

\* Mutant: a tick that failed is the last.
Schedules_Answered(ok, p) == visible /\ ok

(* schedule, in the finally of run. *)
Schedules(ok, p) == visible

(* The tick's request has ended, one way or the other. *)
EndTick(p, ok) ==
  /\ active = p /\ p \in Pollers
  /\ running' = running \ {p}
  /\ timer' = IF Schedules(ok, p) THEN timer \cup {p} ELSE timer
  /\ Pump(out, queue, None, dead)
  /\ UNCHANGED <<out, visible, started, hides, asked>>

(* The listener of pollWhileVisible. The first report only starts the cadence; when  *)
(* the app comes back, a poller whose tick has ended asks at once.                    *)
Resume(p) == started /\ p \notin running

Report(v) ==
  /\ v # visible \/ ~started
  /\ started' = TRUE /\ visible' = v
  /\ IF v THEN hides' = hides ELSE hides < MaxHides /\ hides' = hides + 1
  /\ IF ~v THEN timer' = {} /\ UNCHANGED <<running, queue, active, dead>>
     ELSE LET now == {p \in Pollers : Resume(p)} IN
          /\ running' = running \cup now
          /\ timer' = IF started THEN {} ELSE Pollers
          /\ \E order \in SetToSeqs(now) : Pump(out, queue \o order, active, dead)
  /\ UNCHANGED <<out, asked>>

---------------------------------------------------------------------------
End(j) == EndErrand(j) \/ \E ok \in BOOLEAN : EndTick(j, ok)
EndAny(r) == \E ok \in BOOLEAN : EndOwner(r, ok)
Next ==
  \/ \E r \in Owner : AskOwner(r) \/ EndAny(r)
  \/ \E e \in Errands : AskErrand(e) \/ Abort(e)
  \/ \E j \in Upkeep : End(j)
  \/ \E p \in Pollers : Turn(p)
  \/ \E v \in BOOLEAN : Report(v)

(* A request ends, by its answer or by the platform's limit; a timer goes off.    *)
Fairness ==
  /\ \A r \in Owner : WF_vars(EndAny(r))
  /\ WF_vars(\E j \in Upkeep : End(j))
  /\ \A p \in Pollers : WF_vars(Turn(p))

Spec == Init /\ [][Next]_vars /\ Fairness

---------------------------------------------------------------------------
TypeOK ==
  /\ out \subseteq Owner /\ Queued \subseteq Upkeep /\ Cardinality(Queued) = Len(queue)
  /\ active \in Upkeep \cup {None} /\ active \notin Queued /\ dead \subseteq Queued
  /\ {visible, started} \subseteq BOOLEAN /\ hides \in 0..MaxHides /\ asked \in 0..MaxOwner
  /\ timer \subseteq Pollers /\ running \subseteq Pollers

(* call, pumpBackground: upkeep waits only for an owner's request or for other upkeep *)
(* under way; and a poller in a tick has exactly one job.                              *)
NothingWaitsIdle ==
  /\ queue # <<>> => out # {} \/ active # None
  /\ \A p \in Pollers : p \in running <=> p = active \/ p \in Queued

(* call: "at most one upkeep request can ever sit ahead of one the owner asked for":  *)
(* once the owner waits, no more upkeep goes out until the owner's requests are over.  *)
OwnerGoesFirst == [][out # {} /\ active' # active => active' = None \/ out' = {}]_vars

(* pollWhileVisible: on screen every poller polls again and again, whatever failed,    *)
(* and however often the app was hidden before.                                        *)
Waits(p) == started /\ visible /\ p \notin running
PollsWhileVisible == \A p \in Pollers : []<>~Waits(p)
=============================================================================
