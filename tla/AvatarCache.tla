----------------------------- MODULE AvatarCache -----------------------------
(* The faces of other members in the app: avatarCache.js, the directory's hints    *)
(* of avatarHints.js, the ages of profile.js and the Avatar of ui/Board.jsx.       *)
(*                                                                                *)
(* A face is first restored from the copy saved on the device and then, unless     *)
(* that is current, asked of the service in a batch of its lane. The owner's own   *)
(* profile, a picture that does not decode and a new hint may come in between.     *)
(* A face is the number of the picture; its hash is the same number, 0 is none.    *)
EXTENDS Naturals, Sequences, FiniteSets, FiniteSetsExt, Lists

CONSTANTS
  Hosts,
  None,
  MaxFace,      \* bound on the pictures of a member
  BatchSize,    \* AVATAR_BATCH_SIZE
  MaxIdle,      \* MAX_IDLE_AVATARS
  Changes       \* bound on the new hints, primed and broken pictures and the restarts

Faces == 1..MaxFace
Picture == 0..MaxFace
Lanes == {"foreground", "background"}

AvatarAssumption ==
  /\ IsFiniteSet(Hosts) /\ None \notin Hosts \cup Picture
  /\ {MaxFace, BatchSize} \subseteq Nat \ {0} /\ {MaxIdle, Changes} \subseteq Nat

VARIABLES
  rec,      \* the record of each host; "in" while it is in the cache
  job,      \* record.promise, and how far what it promises has got
  queue,
  mounted,  \* the hosts whose record has listeners
  watched,  \* whom the recovery timer waits for
  visible,
  hint,     \* avatarDigest
  self,     \* the owner among the hosts; None if a member
  own,      \* the picture of the owner's profile
  saved,    \* cache/avatars/<host>.json; broken if it cannot be decoded
  left,     \* of the changes
  (* history of the run *)
  known,     \* the last definite word on each face; None before there is one
  overruled, \* that word came while a request waited or was under way
  overtaken  \* the hint changed while a request was under way

me == <<self, own>>
history == <<known, overruled, overtaken>>
vars == <<rec, job, queue, mounted, watched, visible, hint, me, saved, left, history>>

Blank == [in |-> FALSE, url |-> 0, seen |-> "none", miss |-> "none", recent |-> FALSE,
          digest |-> 0, checked |-> 0, primed |-> None]
Idle == [at |-> "idle", back |-> FALSE, void |-> FALSE, digest |-> 0]
NotSaved == [has |-> FALSE, broken |-> FALSE, old |-> FALSE, face |-> 0, digest |-> 0, checked |-> 0]
Copy(face, digest, checked) ==
  [NotSaved EXCEPT !.has = TRUE, !.face = face, !.digest = digest, !.checked = checked]
OldCopies == {NotSaved} \cup {[Copy(1, 0, 0) EXCEPT !.old = TRUE, !.broken = b] : b \in BOOLEAN}

Fresh == [h \in Hosts |-> FALSE]
Init ==
  /\ rec = [h \in Hosts |-> Blank] /\ job = [h \in Hosts |-> Idle] /\ queue = <<>>
  /\ mounted = {} /\ watched = {} /\ visible = TRUE /\ hint = [h \in Hosts |-> 0]
  /\ overruled = Fresh /\ overtaken = Fresh /\ left = Changes
  /\ self \in Hosts \cup {None} /\ own \in IF self = None THEN {0} ELSE Picture
  /\ saved \in [Hosts -> OldCopies]
  /\ known = [h \in Hosts |-> IF saved[h].has /\ ~saved[h].broken THEN saved[h].face ELSE None]

---------------------------------------------------------------------------
(* Which answers stand.                                                      *)
IsFresh(r) == (r.url # 0 /\ r.seen = "fresh") \/ (r.miss # "none" /\ r.recent)

(* answerIsCurrent, avatarCacheIsFresh: the record r of h, under the hint d.        *)
AnswerIsCurrent(h, r, d) ==
  \/ d # 0 /\ r.url # 0 /\ r.digest = d
  \/ (d = 0 \/ r.primed # None \/ r.checked = d) /\ IsFresh(r)
IsCurrent(h, r, d) == job[h].at # "idle" \/ AnswerIsCurrent(h, r, d)

(* updateRecord with a face, an absence, or neither.                               *)
WithFace(r, f, d) == [r EXCEPT !.url = f, !.seen = "fresh", !.miss = "none", !.recent = FALSE, !.digest = d]
Absent(r) == [r EXCEPT !.url = 0, !.seen = "none", !.miss = "absent", !.recent = TRUE, !.digest = 0]
Failed(r) == [r EXCEPT !.miss = "failed", !.recent = TRUE]

(* The generation has moved: what is under way is void. A job before the queue     *)
(* takes the new generation with it.                                               *)
Void(j) == IF j.at = "idle" THEN j ELSE [j EXCEPT !.void = TRUE]
Definite(h, f) ==
  /\ known' = [known EXCEPT ![h] = f]
  /\ overruled' = [overruled EXCEPT ![h] = @ \/ job[h].at \in {"queued", "asked"}]

(* cachedAvatar for these hosts: the promise is made, and the saved copy is read   *)
(* unless a face is shown.                                                         *)
Promised(r, j, hs) ==
  [h \in Hosts |-> IF h \in hs THEN [Idle EXCEPT !.at = "restoring", !.void = r[h].url # 0] ELSE j[h]]
InCache(r, hs) == [h \in Hosts |-> IF h \in hs THEN [r[h] EXCEPT !.in = TRUE] ELSE r[h]]

(* pruneIdleAvatars: the idle records go while there are too many. Which of them   *)
(* were used last is left open.                                                    *)
Prune(r, j, m) ==
  LET all == {h \in Hosts : r[h].in}
      idle == {h \in all : j[h].at = "idle" /\ h \notin m}
      over == IF Cardinality(all) <= MaxIdle THEN 0 ELSE Cardinality(all) - MaxIdle
      n == IF over <= Cardinality(idle) THEN over ELSE Cardinality(idle) IN
  \E gone \in kSubset(n, idle) : rec' = [h \in Hosts |-> IF h \in gone THEN Blank ELSE r[h]]

Waiting(r, j, m) ==
  {h \in m : r[h].url = 0 /\ j[h].at = "idle" /\ r[h].miss = "failed"}

\* Mutant: coming back on screen does not set the timer again.
Recovery_NotOnReturn(r, j, m, v) == IF v /\ visible THEN Waiting(r, j, m) ELSE {}

(* scheduleAvatarRecovery *)
Recovery(r, j, m, v) == IF v THEN Waiting(r, j, m) ELSE {}
Schedule == watched' = Recovery(rec', job', mounted', visible')

---------------------------------------------------------------------------
(* From the saved copy to the answer.                                        *)

(* restoreSavedAvatar, and what cachedAvatar does when it returns.                  *)
Restored(h, read) ==
  LET s == saved[h]
      usable == read /\ s.has /\ ~job[h].void /\ ~s.broken
      found == IF s.face # 0 THEN [WithFace(rec[h], s.face, s.digest) EXCEPT !.seen = IF s.old THEN "old" ELSE @]
               ELSE [Absent(rec[h]) EXCEPT !.recent = ~s.old]
      r == IF usable THEN [found EXCEPT !.checked = s.checked] ELSE rec[h]
      done == usable /\ AnswerIsCurrent(h, r, hint[h]) IN
  /\ job[h].at = "restoring"
  /\ rec' = [rec EXCEPT ![h] = r]
  /\ saved' = IF read /\ s.broken /\ ~job[h].void THEN [saved EXCEPT ![h] = NotSaved] ELSE saved
  /\ job' = [job EXCEPT ![h] = IF done THEN Idle ELSE [Idle EXCEPT !.at = "queued", !.back = r.url # 0]]
  /\ queue' = IF done THEN queue ELSE Append(queue, h)
  /\ known' = IF s.broken /\ saved' # saved THEN [known EXCEPT ![h] = None] ELSE known
  /\ UNCHANGED <<mounted, watched, visible, hint, me, left, overruled, overtaken>>

LaneOf(h) == IF job[h].back THEN "background" ELSE "foreground"
Out(lane) == {h \in Hosts : job[h].at = "asked" /\ LaneOf(h) = lane}

(* The jobs of these hosts leave the queue; the others keep their order.              *)
Without(s, hs) ==
  LET kept == {i \in DOMAIN s : s[i] \notin hs} IN
  [n \in 1..Cardinality(kept) |->
     s[CHOOSE i \in kept : Cardinality({k \in kept : k <= i}) = n]]

(* scheduleFlush, takeBatch: the first jobs of the lane in the queue; one batch of a    *)
(* lane is under way at a time.                                                    *)
TakeBatch(lane) ==
  LET mine == {i \in DOMAIN queue : job[queue[i]].at = "queued" /\ LaneOf(queue[i]) = lane}
      first == {i \in mine : Cardinality({k \in mine : k <= i}) <= BatchSize}
      batch == {queue[i] : i \in first} IN
  /\ Out(lane) = {} /\ mine # {}
  /\ queue' = Without(queue, batch)
  /\ job' = [h \in Hosts |-> IF h \in batch THEN [job[h] EXCEPT !.at = "asked", !.digest = hint[h]] ELSE job[h]]
  /\ overtaken' = [h \in Hosts |-> overtaken[h] /\ h \notin batch]
  /\ UNCHANGED <<rec, mounted, watched, visible, hint, me, saved, left, known, overruled>>

(* What the service may say of a host whose hash it was given: that very picture,   *)
(* any that the member's own server gives, that there is none, or nothing. Of the   *)
(* owner it knows.                                                                  *)
Answer(f, d, is) == [face |-> f, digest |-> d, is |-> is]
Plain(f) == Answer(f, 0, IF f = 0 THEN "missing" ELSE "face")
Answers(h) ==
  {Answer(0, 0, "failed")} \cup
  IF h = self THEN {Plain(own)}
  ELSE {Plain(f) : f \in Picture} \cup {Answer(d, d, "face") : d \in {job[h].digest} \ {0}}

\* Mutant: an answer is applied whatever has come in between.
Applied_Late(h) == TRUE

(* updateRecord: only at the generation it was asked for.                           *)
Applied(h) == ~job[h].void

Saves(h, r) == Applied(h) /\ r.miss # "failed"

(* resolveBatch *)
Resolve(lane) ==
  LET hs == Out(lane) IN
  \E a \in [hs -> UNION {Answers(h) : h \in hs}] :
    LET New(h) == CASE a[h].is = "face" -> WithFace(rec[h], a[h].face, a[h].digest)
                    [] a[h].is = "missing" -> Absent(rec[h])
                    [] OTHER -> Failed(rec[h])
        r == [h \in Hosts |-> IF h \in hs /\ Applied(h)
                              THEN [New(h) EXCEPT !.checked = job[h].digest] ELSE rec[h]]
        says == {h \in hs : a[h].is # "failed" /\ ~overruled[h]} IN
    /\ hs # {} /\ \A h \in hs : a[h] \in Answers(h)
    /\ job' = [h \in Hosts |-> IF h \in hs THEN Idle ELSE job[h]]
    /\ saved' = [h \in Hosts |-> IF h \in hs /\ Saves(h, r[h])
                                 THEN Copy(a[h].face, a[h].digest, job[h].digest) ELSE saved[h]]
    /\ Prune(r, job', mounted)
    /\ known' = [h \in Hosts |-> IF h \in says THEN a[h].face ELSE known[h]]
    /\ overruled' = [h \in Hosts |-> overruled[h] /\ h \notin hs]
    /\ UNCHANGED <<queue, mounted, visible, hint, me, left, overtaken>>
    /\ Schedule

---------------------------------------------------------------------------
(* What comes in between.                                                    *)
Spend == left > 0 /\ left' = left - 1
Ask(hs) == job' = Promised(rec, job, hs) /\ Prune(InCache(rec, hs), job', mounted')

(* The Avatar of h appears: cachedAvatar, subscribeAvatar.                           *)
Mount(h) ==
  /\ h \notin mounted /\ mounted' = mounted \cup {h}
  /\ Ask({h} \ {g \in Hosts : IsCurrent(g, rec[g], hint[g])})
  /\ UNCHANGED <<queue, visible, hint, me, saved, left, history>>
  /\ Schedule
Unmount(h) ==
  /\ h \in mounted /\ mounted' = mounted \ {h}
  /\ Prune(rec, job, mounted')
  /\ UNCHANGED <<job, queue, visible, hint, me, saved, left, history>>
  /\ Schedule

(* The recovery timer: the first of the failures it waits for is old enough.        *)
Recover ==
  /\ \E h \in watched : ~(rec[h].miss = "failed" /\ rec[h].recent)
  /\ mounted' = mounted
  /\ Ask({h \in watched \cap mounted : rec[h].url = 0 /\ ~IsCurrent(h, rec[h], hint[h])})
  /\ UNCHANGED <<queue, visible, hint, me, saved, left, history>>
  /\ Schedule
Show(v) ==
  /\ v # visible /\ visible' = v
  /\ UNCHANGED <<rec, job, queue, mounted, hint, me, saved, left, history>>
  /\ Schedule

(* noteAvatarDigests; the listener of onAvatarDigestChange asks for the answered     *)
(* faces on screen.                                                                 *)
Answered(r) == r.url # 0 \/ r.miss # "none"

\* Mutant: only a face that is shown is asked for again.
Rechecks_Faces(h, d) == h \in mounted /\ rec[h].url # 0 /\ ~IsCurrent(h, rec[h], d)

Rechecks(h, d) == h \in mounted /\ Answered(rec[h]) /\ ~IsCurrent(h, rec[h], d)
Note(h, d) ==
  /\ d # hint[h] /\ Spend
  /\ hint' = [hint EXCEPT ![h] = d] /\ mounted' = mounted
  /\ Ask(IF Rechecks(h, d) THEN {h} ELSE {})
  /\ overtaken' = [overtaken EXCEPT ![h] = @ \/ job[h].at = "asked"]
  /\ UNCHANGED <<queue, watched, visible, me, saved, known, overruled>>

(* primeAvatar: the owner's profile, loaded again or just saved with this picture.   *)
Prime(f) ==
  LET r == IF f # 0 THEN WithFace(rec[self], f, 0)
           ELSE [rec[self] EXCEPT !.url = 0, !.seen = "none", !.miss = "none", !.recent = FALSE, !.digest = 0] IN
  /\ self # None /\ Spend
  /\ saved' = IF rec[self].primed # f THEN [saved EXCEPT ![self] = Copy(f, 0, 0)] ELSE saved
  /\ job' = [job EXCEPT ![self] = Void(@)]
  /\ Prune([rec EXCEPT ![self] = [r EXCEPT !.primed = f, !.in = TRUE]], job', mounted)
  /\ Definite(self, f) /\ own' = f /\ self' = self
  /\ UNCHANGED <<queue, mounted, visible, hint, overtaken>>
  /\ Schedule

(* discardAvatar: the face on screen does not decode.                                *)
Discard(h) ==
  /\ h \in mounted /\ rec[h].url # 0 /\ Spend
  /\ job' = [job EXCEPT ![h] = Void(@)]
  /\ saved' = [saved EXCEPT ![h] = NotSaved]
  /\ Prune([rec EXCEPT ![h] = [Failed(@) EXCEPT !.url = 0, !.seen = "none", !.digest = 0]], job', mounted)
  /\ Definite(h, None)
  /\ UNCHANGED <<queue, mounted, visible, hint, me, overtaken>>
  /\ Schedule

(* A day, fifteen minutes or 45 seconds have passed.                                 *)
Age(h) ==
  /\ \/ rec[h].seen = "fresh" /\ rec' = [rec EXCEPT ![h].seen = "old"]
     \/ rec[h].recent /\ rec' = [rec EXCEPT ![h].recent = FALSE]
  /\ UNCHANGED <<job, queue, mounted, watched, visible, hint, me, saved, left, history>>
AgeSaved(h) ==
  /\ saved[h].has /\ ~saved[h].old /\ saved' = [saved EXCEPT ![h].old = TRUE]
  /\ UNCHANGED <<rec, job, queue, mounted, watched, visible, hint, me, left, history>>

(* The page is loaded again: only the saved copies are left.                         *)
Restart ==
  /\ Spend
  /\ rec' = [h \in Hosts |-> Blank] /\ job' = [h \in Hosts |-> Idle] /\ queue' = <<>>
  /\ mounted' = {} /\ watched' = {} /\ visible' = TRUE /\ hint' = [h \in Hosts |-> 0]
  /\ overruled' = Fresh /\ overtaken' = Fresh
  /\ UNCHANGED <<me, saved, known>>

---------------------------------------------------------------------------
Restores(h) == \E read \in BOOLEAN : Restored(h, read)
Next ==
  \/ \E h \in Hosts : Restores(h) \/ Mount(h) \/ Unmount(h) \/ Discard(h) \/ Age(h) \/ AgeSaved(h)
  \/ \E lane \in Lanes : TakeBatch(lane) \/ Resolve(lane)
  \/ \E h \in Hosts, d \in Faces : Note(h, d)
  \/ \E f \in Picture : Prime(f)
  \/ \E v \in BOOLEAN : Show(v)
  \/ Recover \/ Restart

(* Storage and the service answer or fail, and time passes.                          *)
Fairness ==
  /\ \A h \in Hosts : WF_vars(Restores(h)) /\ WF_vars(Age(h))
  /\ \A lane \in Lanes : WF_vars(TakeBatch(lane) \/ Resolve(lane))
  /\ WF_vars(Recover)
Spec == Init /\ [][Next]_vars /\ Fairness

---------------------------------------------------------------------------
TypeOK ==
  /\ \A h \in Hosts : rec[h].url \in Picture /\ rec[h].primed \in Picture \cup {None}
  /\ \A h \in Hosts : job[h].at \in {"idle", "restoring", "queued", "asked"}
  /\ {h \in Hosts : job[h].at = "queued"} = ToSet(queue) /\ IsInjective(queue)
  /\ \A h \in mounted : rec[h].in
  /\ watched \subseteq mounted /\ known \in [Hosts -> Picture \cup {None}]

(* resolveBatch, restoreSavedAvatar: "only a definite answer is worth keeping". The   *)
(* face shown, the absence believed and the copy saved are all the last definite word *)
(* of the service or of the owner's profile, however late another answer arrives; and  *)
(* that word is saved, but for the owner's own picture, which primeAvatar saves only    *)
(* when it changes, also when it was discarded in between.                            *)
LastWordStands ==
  \A h \in Hosts :
    /\ rec[h].url # 0 => rec[h].url = known[h]
    /\ rec[h].miss = "absent" => known[h] = 0
    /\ saved[h].has /\ ~saved[h].broken => saved[h].face = known[h]
    /\ known[h] # None => saved[h].has \/ h = self

(* onAvatarDigestChange: a member "who changed or first added their picture" is asked  *)
(* for wherever they are on screen, unless the hint came while a request was under     *)
(* way or the face waits for the recovery timer.                                      *)
OnScreenFollowsHint ==
  \A h \in mounted :
    Answered(rec[h]) /\ hint[h] # 0 /\ rec[h].primed = None
      => \/ rec[h].checked = hint[h] \/ (rec[h].url # 0 /\ rec[h].digest = hint[h])
         \/ job[h].at # "idle" \/ overtaken[h] \/ rec[h].miss = "failed"

(* scheduleAvatarRecovery: a blank face on screen whose answer failed is asked for      *)
(* again, in spite of batches, hidden pages and failures of its own.                   *)
Wanting(h) ==
  h \in mounted /\ visible /\ rec[h].url = 0 /\ rec[h].miss = "failed" /\ job[h].at = "idle"
BlankRecovers == \A h \in Hosts : []<>~Wanting(h)
=============================================================================
