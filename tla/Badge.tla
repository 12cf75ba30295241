------------------------------- MODULE Badge -------------------------------
(* The unread badge of the sidebar (service_runtime.py): every storage transaction  *)
(* records what the badge should show, every request reports it afterwards, and      *)
(* Möbius, which is outside src/, orders what it is told by revision. A report may   *)
(* be lost, a request may die at any step, Möbius may be too old to have badges, and  *)
(* the storage may be put back from a backup.                                      *)
EXTENDS Integers

CONSTANTS
  Requests,    \* the requests under way at one time, each a process of its own
  MaxUnread,   \* bound on the unread messages
  MaxVersion,  \* bound on the storage's version
  Budget       \* bound on the requests that die and the backups put back

BadgeAssumption == {MaxUnread, MaxVersion, Budget} \subseteq Nat

VARIABLES
  unread, version,  \* the metas' unread total and state/version.json
  noted, ack,       \* state/badge.json and state/badge-ack.json
  mobius, supports, \* what Möbius shows; whether it knows badges yet
  job, left,
  (* history of the run *)
  torn,    \* a request died between the messages it wrote and the badge it owed
  astray   \* whether the storage is behind Möbius, or went so beyond repair

storage == <<unread, version, noted, ack>>
vars == <<storage, mobius, supports, job, left, torn, astray>>

---------------------------------------------------------------------------
Count == 0..MaxUnread
Revision == -1..MaxVersion  \* -1 is none
NotNoted == [rev |-> -1, count |-> 0]
NoAck == [rev |-> -1, unsupported |-> "no"]
Idle == [at |-> "idle", rev |-> -1, count |-> 0, stored |-> -1]

Init ==
  /\ unread \in Count /\ version = 0 /\ ack = NoAck
  /\ noted \in {NotNoted, [rev |-> 0, count |-> unread]}
  /\ mobius = NotNoted /\ supports \in BOOLEAN
  /\ job = [r \in Requests |-> Idle] /\ left = Budget
  /\ torn = FALSE /\ astray = "no"

At(r, step) == job[r].at = step
Go(r, step) == job' = [job EXCEPT ![r].at = step]
End(r) == job' = [job EXCEPT ![r] = Idle]
(* app_storage_lock, across processes. *)
Locked == \E r \in Requests : job[r].at \in {"changed", "bumped"}

---------------------------------------------------------------------------
(* A request that changes the storage, inside its transaction.               *)
Change(r) ==
  /\ At(r, "idle") /\ ~Locked /\ version < MaxVersion
  /\ unread' \in Count /\ Go(r, "changed")
  /\ UNCHANGED <<version, noted, ack, mobius, supports, left, torn, astray>>

(* _bump_version. A storage that was put back may catch up with Möbius's revision. *)
Bump(r) ==
  /\ At(r, "changed") /\ version' = version + 1
  /\ job' = [job EXCEPT ![r].at = "bumped", ![r].rev = version + 1]
  /\ astray' = IF astray = "restored" /\ mobius.rev <= version + 1 THEN "beyond" ELSE astray
  /\ UNCHANGED <<unread, noted, ack, mobius, supports, left, torn>>

\* Mutant: only a growing count is news.
Noted_Growing(v) == IF noted.rev # -1 /\ noted.count >= unread THEN noted
                    ELSE [rev |-> v, count |-> unread]

(* record_badge: only a changed count advances the revision. *)
Noted(v) == IF noted.rev # -1 /\ noted.count = unread THEN noted
            ELSE [rev |-> v, count |-> unread]

Record(r) ==
  /\ At(r, "bumped") /\ noted' = Noted(job[r].rev) /\ Go(r, "due") /\ torn' = FALSE
  /\ UNCHANGED <<unread, version, ack, mobius, supports, left, astray>>

---------------------------------------------------------------------------
(* reconcile_badge, after a request of any kind.                            *)
Serve(r) ==
  /\ At(r, "idle") /\ Go(r, "due")
  /\ UNCHANGED <<storage, mobius, supports, left, torn, astray>>

(* _badge_snapshot: the badge, noted now if it never was, and then the acknowledgement. *)
ReadBadge(r) ==
  /\ At(r, "due") /\ (noted.rev = -1 => ~Locked)
  /\ noted' = IF noted.rev = -1 THEN Noted(version) ELSE noted
  /\ torn' = (torn /\ noted.rev # -1)
  /\ job' = [job EXCEPT ![r] = [Idle EXCEPT !.at = "read", !.rev = noted'.rev, !.count = noted'.count]]
  /\ UNCHANGED <<unread, version, ack, mobius, supports, left, astray>>

\* Mutant: a Möbius that once lacked badges is not asked again.
Reports_Once(r) == ack.rev < job[r].rev /\ ack.unsupported = "no"

(* Behind what was acknowledged there is nothing to report; a Möbius without badges is *)
(* asked once an hour.                                                              *)
Reports(r) == ack.rev < job[r].rev /\ ack.unsupported # "recent"

ReadAck(r) ==
  /\ At(r, "read") /\ IF Reports(r) THEN Go(r, "put") ELSE End(r)
  /\ UNCHANGED <<storage, mobius, supports, left, torn, astray>>

(* Möbius answers a report: it applies one that is newer than what it has. *)
Put(r) ==
  /\ At(r, "put")
  /\ IF ~supports THEN Go(r, "unsupported") /\ UNCHANGED mobius
     ELSE /\ mobius' = IF mobius.rev < job[r].rev
                         THEN [rev |-> job[r].rev, count |-> job[r].count] ELSE mobius
          /\ job' = [job EXCEPT ![r].at = "answered", ![r].stored = mobius'.rev]
  /\ UNCHANGED <<storage, supports, left, torn, astray>>

(* _mark_unsupported *)
MarkUnsupported(r) ==
  /\ At(r, "unsupported") /\ ~Locked
  /\ ack' = [ack EXCEPT !.unsupported = "recent"] /\ End(r)
  /\ UNCHANGED <<unread, version, noted, mobius, supports, left, torn, astray>>

\* Mutant: a report that Möbius refused is taken as overtaken by a newer one.
FromTheFuture_Never(r) == FALSE

(* Möbius holds a revision the storage has never reached. *)
FromTheFuture(r) == job[r].stored > job[r].rev /\ job[r].stored > version

Judge(r) ==
  /\ At(r, "answered")
  /\ IF FromTheFuture(r) THEN job' = [job EXCEPT ![r].at = "reset", ![r].count = noted.count]
     ELSE Go(r, "accepted")
  /\ UNCHANGED <<storage, mobius, supports, left, torn, astray>>

(* Möbius applies a report without revision, whatever it has. After it, a report that   *)
(* was read before the badge last changed may land as the last.                       *)
Outdated == \E r \in Requests :
  job[r].at \in {"read", "put", "reset"} /\ job[r].count # noted.count
Reset(r) ==
  /\ At(r, "reset")
  /\ mobius' = [rev |-> -1, count |-> job[r].count] /\ Go(r, "accepted")
  /\ astray' = IF astray = "beyond" \/ Outdated THEN "beyond" ELSE "no"
  /\ UNCHANGED <<storage, supports, left, torn>>

(* _acknowledge *)
Acknowledge(r) ==
  /\ At(r, "accepted") /\ ~Locked
  /\ ack' = IF ack.rev < job[r].rev \/ ack.unsupported # "no"
              THEN [rev |-> IF ack.rev < job[r].rev THEN job[r].rev ELSE ack.rev, unsupported |-> "no"]
              ELSE ack
  /\ End(r)
  /\ UNCHANGED <<unread, version, noted, mobius, supports, left, torn, astray>>

---------------------------------------------------------------------------
(* The process dies, or the report or its answer is lost: nothing is acknowledged. *)
Die(r) ==
  /\ ~At(r, "idle") /\ left > 0 /\ left' = left - 1 /\ End(r)
  /\ torn' = (torn \/ job[r].at \in {"changed", "bumped"})
  /\ UNCHANGED <<storage, mobius, supports, astray>>

Upgrade ==
  /\ ~supports /\ supports' = TRUE
  /\ UNCHANGED <<storage, mobius, job, left, torn, astray>>

(* BADGE_UNSUPPORTED_RETRY_SECONDS pass. *)
Age ==
  /\ ack.unsupported = "recent" /\ ack' = [ack EXCEPT !.unsupported = "old"]
  /\ UNCHANGED <<unread, version, noted, mobius, supports, job, left, torn, astray>>

(* A backup from before the first badge is put back while no request runs. *)
Restore ==
  /\ job = [r \in Requests |-> Idle] /\ version > 0 /\ left > 0 /\ left' = left - 1
  /\ unread' \in Count /\ version' = 0 /\ noted' = NotNoted /\ ack' = NoAck /\ torn' = FALSE
  /\ astray' = IF mobius.rev = -1 THEN "no" ELSE IF mobius.rev > 0 THEN "restored" ELSE "beyond"
  /\ UNCHANGED <<mobius, supports, job>>

Reconcile(r) ==
  \/ Serve(r) \/ ReadBadge(r) \/ ReadAck(r) \/ Put(r) \/ Judge(r) \/ Reset(r)
  \/ MarkUnsupported(r) \/ Acknowledge(r)
Commit(r) == Bump(r) \/ Record(r)
Next ==
  \/ \E r \in Requests : Change(r) \/ Bump(r) \/ Record(r) \/ Reconcile(r) \/ Die(r)
  \/ Upgrade \/ Age \/ Restore

(* A request that began ends, another one of some kind comes, and hours pass.          *)
Runs(r) == Commit(r) \/ Reconcile(r)
Fairness == WF_vars(Age) /\ \A r \in Requests : WF_vars(Runs(r))
Spec == Init /\ [][Next]_vars /\ Fairness

---------------------------------------------------------------------------
TypeOK ==
  /\ unread \in Count /\ version \in 0..MaxVersion /\ supports \in BOOLEAN /\ left \in 0..Budget
  /\ {noted, mobius} \subseteq [rev : Revision, count : Count]
  /\ ack \in [rev : Revision, unsupported : {"no", "recent", "old"}]
  /\ job \in [Requests -> [at : {"idle", "changed", "bumped", "due", "read", "put", "unsupported",
                                 "answered", "reset", "accepted"},
                           rev : Revision, count : Count, stored : Revision]]
  /\ noted.rev <= version /\ torn \in BOOLEAN /\ astray \in {"no", "restored", "beyond"}

(* _acknowledge: what the storage holds as acknowledged is what Möbius shows, however      *)
(* reports of several requests and a backup put back cross.                              *)
AcknowledgedIsShown ==
  noted.rev # -1 /\ ack.rev >= noted.rev /\ astray # "beyond" => mobius.count = noted.count

(* "A failed report is therefore retried by the next request of any kind": unless a        *)
(* request died before it noted the badge, the sidebar comes to show what is unread.       *)
Behind == supports /\ mobius.count # unread /\ ~torn /\ astray # "beyond"
BadgeSettles == []<>~Behind
============================================================================
