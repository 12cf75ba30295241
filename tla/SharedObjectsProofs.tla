------------------------- MODULE SharedObjectsProofs -------------------------
(* What TLAPS proves of SharedObjects, for any peers, edits, codes, processes and  *)
(* bounds: as long as no two changes of the object overlap, acknowledged edits stay *)
(* in the document, a code admits once and only editors write.                      *)
EXTENDS SharedObjects, TLAPS

---------------------------------------------------------------------------
JobType ==
  [step : {"idle", "doc", "object"},
   kind : {"write", "join", "leave", "invite", "mint", "revoke"},
   who : Clients, obj : Object, doc : SUBSET Edits, edit : SUBSET Edits, code : SUBSET Codes]

(* The host stays an editor, and a pending member is a member. *)
ObjectSound(o) == o.role[Host] = "editor" /\ \A c \in o.pending : o.role[c] # NoOne

(* What a process will save is an object of that kind. *)
JobsTyped ==
  \A p \in Processes :
    /\ ObjectSound(proc[p].obj)
    /\ proc[p].kind \in {"join", "invite"} => proc[p].who \in Peers

(* An app that has the current version has every acknowledged edit. *)
ViewsSound ==
  obj.exists => \A c \in Clients :
    /\ view[c].version <= obj.version
    /\ view[c].version = obj.version => acked \subseteq view[c].doc

(* A code that can be redeemed was not. *)
CodesSound == \A k \in Codes : redeemed[k] <= 1 /\ (obj.code[k] # NoOne => redeemed[k] = 0)

(* A process will save the next version with the acknowledged edits and that of an editor, *)
(* or the same version with another membership.                                            *)
JobSound(job) ==
  /\ acked \subseteq doc
  /\ job.kind = "write" =>
       /\ job.obj.version = obj.version + 1
       /\ acked \cup job.edit \subseteq job.doc
       /\ job.step = "object" => doc = job.doc
       /\ \A e \in job.edit : obj.role[By[e]] = "editor"
  /\ job.kind # "write" =>
       job.edit = {} /\ job.step = "object" /\ job.obj.version = obj.version
  /\ \A k \in Codes :
       /\ k \in job.code => redeemed[k] = 0 /\ job.obj.code[k] = NoOne
       /\ job.obj.code[k] # NoOne => redeemed[k] = 0

(* The process that changes the object is the only one, and saves what it loaded.    *)
JobsSound ==
  \A p \in Processes : Busy(p) =>
    /\ obj.exists
    /\ \A q \in Processes : q # p => ~Busy(q)
    /\ JobSound(proc[p])

Alone == EditsAreKept /\ ViewsSound /\ CodesSound /\ JobsSound

IInv == TypeOK /\ JobsTyped /\ (~overlapped => Alone)

---------------------------------------------------------------------------
(* Facts of the types. *)

LEMMA JobTyped ==
  ASSUME TypeOK, NEW p \in Processes
  PROVE  /\ proc[p] \in JobType
         /\ proc[p].step \in {"idle", "doc", "object"}
         /\ proc[p].who \in Clients /\ proc[p].obj \in Object
         /\ proc[p].doc \subseteq Edits /\ proc[p].edit \subseteq Edits
         /\ proc[p].code \subseteq Codes
BY DEF TypeOK, JobType

LEMMA ObjectTyped ==
  ASSUME TypeOK
  PROVE  obj \in Object /\ ObjectSound(obj)
BY DEF TypeOK, ObjectSound

LEMMA HostIsClient == Host \in Clients /\ Host \notin Peers /\ Peers \subseteq Clients
BY ObjectAssumption DEF Clients

LEMMA EditOfClient == ASSUME NEW e \in Edits PROVE By[e] \in Clients
BY ObjectAssumption DEF Clients

LEMMA NewObjectSound ==
  /\ NewObject \in Object /\ ObjectSound(NewObject) /\ NewObject.version = 1
  /\ \A k \in Codes : NewObject.code[k] = NoOne
BY HostIsClient DEF NewObject, Object, ObjectSound, NoOne, Roles

LEMMA GoneSound ==
  /\ Gone \in Object /\ ObjectSound(Gone) /\ ~Gone.exists
  /\ \A k \in Codes : Gone.code[k] = NoOne
<1>1. /\ Gone \in Object /\ ~Gone.exists
      /\ Gone.role = NewObject.role /\ Gone.pending = NewObject.pending
      /\ Gone.code = NewObject.code
  BY NewObjectSound DEF Gone, Object
<1>2. QED
  BY <1>1, NewObjectSound DEF ObjectSound

LEMMA QuietTyped == Quiet \in JobType /\ Quiet.step = "idle" /\ Quiet.obj = NewObject /\ Quiet.kind = "write"
BY NewObjectSound, HostIsClient DEF Quiet, JobType

LEMMA FaultTyped == faults \in 0..MaxFaults /\ Fault => faults' \in 0..MaxFaults
BY ObjectAssumption DEF Fault

LEMMA ChangeTyped == changes \in 0..MaxChanges /\ OwnerChange => changes' \in 0..MaxChanges
BY ObjectAssumption DEF OwnerChange

LEMMA SavingTyped ==
  ASSUME NEW kind \in {"join", "leave", "invite", "mint", "revoke"}, NEW c \in Clients,
         NEW new \in Object
  PROVE  /\ Saving(kind, c, new) \in JobType
         /\ Saving(kind, c, new).kind = kind /\ Saving(kind, c, new).who = c
         /\ Saving(kind, c, new).obj = new /\ Saving(kind, c, new).step = "object"
         /\ Saving(kind, c, new).edit = {} /\ Saving(kind, c, new).code = {}
BY QuietTyped DEF Saving, JobType, Quiet

---------------------------------------------------------------------------
(* A process loads the object and decides what to save. *)

LEMMA Starts ==
  ASSUME IInv, NEW p \in Processes, NEW job \in JobType, Ready(p), Start(p, job),
         job.step # "idle", ObjectSound(job.obj),
         job.kind \in {"join", "invite"} => job.who \in Peers,
         Alone => JobSound(job),
         joined' \subseteq Peers, inbox' \subseteq Peers, changes' \in 0..MaxChanges,
         UNCHANGED <<obj, doc, view, faults, acked, redeemed>>
  PROVE  IInv'
<1>1. /\ proc'[p] = job /\ proc' \in [Processes -> JobType]
      /\ \A q \in Processes : q # p => proc'[q] = proc[q]
  BY DEF Start, IInv, TypeOK, JobType
<1>2. overlapped' \in BOOLEAN /\ (~overlapped' => ~overlapped)
  BY DEF Start, IInv, TypeOK
<1>3. TypeOK'
  BY <1>1, <1>2 DEF IInv, TypeOK, JobType
<1>4. JobsTyped'
  BY <1>1 DEF IInv, JobsTyped
<1>5. ASSUME ~overlapped' PROVE Alone'
  <2>1. Alone
    BY <1>2, <1>5 DEF IInv
  <2>2. EditsAreKept' /\ ViewsSound' /\ CodesSound'
    BY <2>1 DEF Alone, EditsAreKept, ViewsSound, CodesSound
  <2>3. \A q \in Processes : q # p => ~Busy(q) /\ ~Busy(q)'
    BY <1>1, <1>5 DEF Start, Busy
  <2>4. JobSound(job)'
    BY <2>1 DEF JobSound
  <2>5. JobsSound'
    BY <1>1, <2>3, <2>4 DEF JobsSound, Ready
  <2>6. QED
    BY <2>2, <2>5 DEF Alone
<1>6. QED
  BY <1>3, <1>4, <1>5 DEF IInv

\* A change of the membership, of the object as it is.
LEMMA StartsSaving ==
  ASSUME IInv, NEW p \in Processes, Ready(p),
         NEW kind \in {"join", "leave", "invite", "mint", "revoke"}, NEW c \in Clients,
         NEW new \in Object, Start(p, Saving(kind, c, new)), ObjectSound(new),
         kind \in {"join", "invite"} => c \in Peers,
         new.version = obj.version,
         \A k \in Codes : new.code[k] # NoOne => obj.code[k] # NoOne \/ redeemed[k] = 0,
         joined' \subseteq Peers, inbox' \subseteq Peers, changes' \in 0..MaxChanges,
         UNCHANGED <<obj, doc, view, faults, acked, redeemed>>
  PROVE  IInv'
<1> DEFINE job == Saving(kind, c, new)
<1>1. /\ job \in JobType /\ job.kind = kind /\ job.who = c /\ job.obj = new
      /\ job.step = "object" /\ job.edit = {} /\ job.code = {}
  BY SavingTyped
<1>2. Start(p, job)
  OBVIOUS
<1> HIDE DEF job
<1>3. Alone => JobSound(job)
  BY <1>1 DEF JobSound, Alone, EditsAreKept, CodesSound, Ready
<1>4. QED
  BY <1>1, <1>2, <1>3, Starts

LEMMA KeepWrite ==
  ASSUME IInv, NEW p \in Processes, NEW e \in Edits, Write(p, e)
  PROVE  IInv'
<1>0. PICK c \in Clients : c = By[e]
  BY EditOfClient
<1> DEFINE new == [obj EXCEPT !.version = obj.version + 1]
           job == [Quiet EXCEPT !.step = "doc", !.who = c, !.edit = {e}, !.obj = new,
                                !.doc = view[c].doc \cup {e}]
<1>1. /\ Ready(p) /\ Start(p, job) /\ obj.role[c] = "editor" /\ view[c].version = obj.version
      /\ UNCHANGED <<obj, doc, view, joined, inbox, changes, faults, acked, redeemed>>
  BY <1>0 DEF Write, MayWrite, UpToDate
<1>2. /\ new \in Object /\ new.version = obj.version + 1
      /\ new.role = obj.role /\ new.pending = obj.pending /\ new.code = obj.code
  BY ObjectTyped DEF IInv, Object
<1>3. view[c].doc \subseteq Edits
  BY DEF IInv, TypeOK
<1> HIDE DEF new
<1>4. /\ job \in JobType /\ job.step = "doc" /\ job.kind = "write" /\ job.edit = {e}
      /\ job.obj = new /\ job.doc = view[c].doc \cup {e} /\ job.code = {}
  BY <1>2, <1>3, QuietTyped DEF JobType, Quiet
<1> HIDE DEF job
<1>5. ObjectSound(job.obj)
  BY <1>2, <1>4 DEF ObjectSound, IInv, TypeOK
<1>6. ASSUME Alone PROVE JobSound(job)
  <2>1. acked \subseteq doc /\ acked \subseteq view[c].doc
    BY <1>1, <1>6 DEF Alone, EditsAreKept, ViewsSound, Ready
  <2>2. \A k \in Codes : job.obj.code[k] # NoOne => redeemed[k] = 0
    BY <1>2, <1>4, <1>6 DEF Alone, CodesSound
  <2>3. QED
    BY <1>0, <1>1, <1>2, <1>4, <2>1, <2>2 DEF JobSound
<1>7. joined' \subseteq Peers /\ inbox' \subseteq Peers /\ changes' \in 0..MaxChanges
  BY <1>1 DEF IInv, TypeOK
<1>8. QED
  BY <1>1, <1>4, <1>5, <1>6, <1>7, Starts

---------------------------------------------------------------------------
(* The changes of the membership. *)

WithRole(o, c, role, pending, code) ==
  [o EXCEPT !.role[c] = role, !.pending = pending, !.code = code]

\* One client gets a role, or loses it, and is pending only under a role.
LEMMA RoleSet ==
  ASSUME NEW o \in Object, ObjectSound(o), NEW c \in Peers, NEW role \in Roles \cup {NoOne},
         NEW pending \in SUBSET Peers, NEW code \in [Codes -> Roles \cup {NoOne}],
         \A d \in pending : d \in o.pending \/ d = c,
         c \in pending => role # NoOne
  PROVE  /\ WithRole(o, c, role, pending, code) \in Object
         /\ ObjectSound(WithRole(o, c, role, pending, code))
         /\ WithRole(o, c, role, pending, code).version = o.version
         /\ WithRole(o, c, role, pending, code).code = code
<1> DEFINE r == [o.role EXCEPT ![c] = role]
           new == [exists |-> o.exists, version |-> o.version, role |-> r,
                   pending |-> pending, code |-> code]
<1>1. WithRole(o, c, role, pending, code) = new
  <2>1. PICK n : n = [o EXCEPT !.role[c] = role, !.pending = pending, !.code = code]
    OBVIOUS
  <2>2. n = [exists |-> o.exists, version |-> o.version, role |-> [o.role EXCEPT ![c] = role],
             pending |-> pending, code |-> code]
    BY <2>1 DEF Object
  <2>3. QED
    BY <2>1, <2>2 DEF WithRole
<1>2. /\ r \in [Clients -> Roles \cup {NoOne}] /\ r[c] = role
      /\ \A d \in Clients : d # c => r[d] = o.role[d]
  BY HostIsClient DEF Object
<1> HIDE DEF r
<1>3. new \in Object
  BY <1>2 DEF Object
<1>4. ObjectSound(new)
  BY <1>2, HostIsClient DEF ObjectSound
<1>5. QED
  BY <1>1, <1>3, <1>4

LEMMA KeepJoinByCode ==
  ASSUME IInv, NEW c \in Peers, NEW k \in Codes, JoinByCode(c, k)
  PROVE  IInv'
<1>1. /\ Ready(Public) /\ obj.code[k] # NoOne
      /\ UNCHANGED <<obj, doc, view, joined, inbox, changes, faults, acked, redeemed>>
  BY DEF JoinByCode
<1> DEFINE code == [obj.code EXCEPT ![k] = NoOne]
           new == Redeem(c, k)
           job == [Saving("join", c, new) EXCEPT !.code = {k}]
<1>2. /\ obj.code \in [Codes -> Roles \cup {NoOne}] /\ obj.pending \ {c} \in SUBSET Peers
      /\ code \in [Codes -> Roles \cup {NoOne}]
      /\ obj.code[k] \in Roles \cup {NoOne}
  BY ObjectTyped DEF IInv, Object
<1>3. new = WithRole(obj, c, obj.code[k], obj.pending \ {c}, code)
  BY ObjectTyped DEF IInv, Object, Redeem, WithRole
<1>4. /\ code[k] = NoOne
      /\ \A j \in Codes : code[j] # NoOne => obj.code[j] # NoOne
  BY <1>2
<1>5. Start(Public, job) /\ Public \in Processes /\ c \in Clients
  BY HostIsClient DEF JoinByCode, Processes
<1> HIDE DEF new, code
<1>6. new \in Object /\ ObjectSound(new) /\ new.version = obj.version /\ new.code = code
  BY <1>2, <1>3, RoleSet, ObjectTyped DEF IInv
<1>7. /\ job \in JobType /\ job.kind = "join" /\ job.who = c /\ job.obj = new
      /\ job.step = "object" /\ job.edit = {} /\ job.code = {k}
  BY <1>5, <1>6, SavingTyped DEF JobType
<1> HIDE DEF job
<1>8. ASSUME Alone PROVE JobSound(job)
  BY <1>1, <1>4, <1>6, <1>7, <1>8 DEF JobSound, Alone, EditsAreKept, CodesSound, Ready
<1>9. joined' \subseteq Peers /\ inbox' \subseteq Peers /\ changes' \in 0..MaxChanges
  BY <1>1 DEF IInv, TypeOK
<1>10. QED
  BY <1>1, <1>5, <1>6, <1>7, <1>8, <1>9, Starts

\* Leaving, revoking or inviting a client sets its role and leaves the codes.
LEMMA KeepRole ==
  ASSUME IInv, NEW p \in Processes, Ready(p), NEW kind \in {"leave", "invite", "revoke"},
         NEW c \in Peers, NEW role \in Roles \cup {NoOne},
         NEW pending \in SUBSET Peers, \A d \in pending : d \in obj.pending \/ d = c,
         c \in pending => role # NoOne,
         Start(p, Saving(kind, c, WithRole(obj, c, role, pending, obj.code))),
         joined' \subseteq Peers, inbox' \subseteq Peers, changes' \in 0..MaxChanges,
         UNCHANGED <<obj, doc, view, faults, acked, redeemed>>
  PROVE  IInv'
<1> DEFINE new == WithRole(obj, c, role, pending, obj.code)
<1>1. obj.code \in [Codes -> Roles \cup {NoOne}]
  BY ObjectTyped DEF IInv, Object
<1>2. new \in Object /\ ObjectSound(new) /\ new.version = obj.version /\ new.code = obj.code
  BY <1>1, RoleSet, ObjectTyped DEF IInv
<1> HIDE DEF new
<1>3. Start(p, Saving(kind, c, new))
  BY DEF new
<1>4. QED
  BY <1>2, <1>3, StartsSaving, HostIsClient

\* The owner and its peers give no code.
LEMMA RoleOnly ==
  ASSUME IInv, NEW c \in Peers, NEW role, NEW pending
  PROVE  [obj EXCEPT !.role[c] = role, !.pending = pending]
           = WithRole(obj, c, role, pending, obj.code)
BY ObjectTyped DEF IInv, Object, WithRole

LEMMA PendingTyped ==
  ASSUME IInv, NEW c \in Peers
  PROVE  /\ obj.pending \ {c} \in SUBSET Peers /\ obj.pending \cup {c} \in SUBSET Peers
BY ObjectTyped DEF IInv, Object

LEMMA KeepLeave ==
  ASSUME IInv, NEW c \in Peers, Leave(c)
  PROVE  IInv'
<1>1. /\ Ready(Public) /\ Public \in Processes
      /\ UNCHANGED <<obj, doc, view, joined, changes, faults, acked, redeemed>>
      /\ Start(Public, Saving("leave", c, WithRole(obj, c, NoOne, obj.pending \ {c}, obj.code)))
  BY RoleOnly DEF Leave, Processes
<1>2. joined' \subseteq Peers /\ inbox' \subseteq Peers /\ changes' \in 0..MaxChanges
  BY DEF Leave, IInv, TypeOK
<1>3. QED
  BY <1>1, <1>2, PendingTyped, KeepRole

LEMMA KeepRevoke ==
  ASSUME IInv, NEW p \in Processes, NEW c \in Clients, Revoke(p, c)
  PROVE  IInv'
<1>1. /\ Ready(p) /\ OwnerChange /\ c \in Peers
      /\ UNCHANGED <<obj, doc, view, joined, inbox, faults, acked, redeemed>>
      /\ Start(p, Saving("revoke", c, WithRole(obj, c, NoOne, obj.pending \ {c}, obj.code)))
  BY RoleOnly DEF Revoke, MayRevoke, Clients
<1>2. joined' \subseteq Peers /\ inbox' \subseteq Peers /\ changes' \in 0..MaxChanges
  BY <1>1, ChangeTyped DEF IInv, TypeOK
<1>3. QED
  BY <1>1, <1>2, PendingTyped, KeepRole

LEMMA KeepInvite ==
  ASSUME IInv, NEW p \in Processes, NEW c \in Peers, NEW role \in Roles, Invite(p, c, role)
  PROVE  IInv'
<1>1. /\ Ready(p) /\ OwnerChange /\ role # NoOne
      /\ UNCHANGED <<obj, doc, view, joined, inbox, faults, acked, redeemed>>
      /\ Start(p, Saving("invite", c, WithRole(obj, c, role, obj.pending \cup {c}, obj.code)))
  BY RoleOnly DEF Invite, Roles, NoOne
<1>2. joined' \subseteq Peers /\ inbox' \subseteq Peers /\ changes' \in 0..MaxChanges
  BY <1>1, ChangeTyped DEF IInv, TypeOK
<1>3. QED
  BY <1>1, <1>2, PendingTyped, KeepRole

LEMMA KeepJoinAsMember ==
  ASSUME IInv, NEW c \in Peers, JoinAsMember(c)
  PROVE  IInv'
<1> DEFINE new == [obj EXCEPT !.pending = obj.pending \ {c}]
<1>1. /\ Ready(Public) /\ Public \in Processes /\ Start(Public, Saving("join", c, new))
      /\ UNCHANGED <<obj, doc, view, joined, inbox, changes, faults, acked, redeemed>>
  BY DEF JoinAsMember, Processes
<1>2. /\ new \in Object /\ new.version = obj.version /\ new.code = obj.code
      /\ new.role = obj.role /\ new.pending = obj.pending \ {c}
  BY PendingTyped, ObjectTyped DEF IInv, Object
<1> HIDE DEF new
<1>3. ObjectSound(new)
  BY <1>2, ObjectTyped DEF ObjectSound, IInv
<1>4. joined' \subseteq Peers /\ inbox' \subseteq Peers /\ changes' \in 0..MaxChanges
  BY <1>1 DEF IInv, TypeOK
<1>5. QED
  BY <1>1, <1>2, <1>3, <1>4, StartsSaving, HostIsClient

LEMMA KeepMint ==
  ASSUME IInv, NEW p \in Processes, NEW k \in Codes, NEW role \in Roles, Mint(p, k, role)
  PROVE  IInv'
<1> DEFINE code == [obj.code EXCEPT ![k] = role]
           new == [obj EXCEPT !.code = code]
<1>1. /\ Ready(p) /\ OwnerChange /\ redeemed[k] = 0
      /\ UNCHANGED <<obj, doc, view, joined, inbox, faults, acked, redeemed>>
      /\ Start(p, Saving("mint", Host, [obj EXCEPT !.code[k] = role]))
  BY DEF Mint
<1>2. Start(p, Saving("mint", Host, new))
  BY <1>1
<1>3. /\ code \in [Codes -> Roles \cup {NoOne}]
      /\ \A j \in Codes : j # k => code[j] = obj.code[j]
  BY ObjectTyped DEF IInv, Object
<1> HIDE DEF code
<1>4. /\ new \in Object /\ new.version = obj.version /\ new.code = code
      /\ new.role = obj.role /\ new.pending = obj.pending
  BY <1>3, ObjectTyped DEF IInv, Object
<1> HIDE DEF new
<1>5. ObjectSound(new)
  BY <1>4, ObjectTyped DEF ObjectSound, IInv
<1>6. joined' \subseteq Peers /\ inbox' \subseteq Peers /\ changes' \in 0..MaxChanges
  BY <1>1, ChangeTyped DEF IInv, TypeOK
<1>7. QED
  BY <1>1, <1>2, <1>3, <1>4, <1>5, <1>6, StartsSaving, HostIsClient

---------------------------------------------------------------------------
(* Reading, leaving alone, dying. *)

LEMMA ViewsTyped ==
  ASSUME TypeOK
  PROVE  /\ view \in [Clients -> [version : Nat, doc : SUBSET Edits]]
         /\ doc \in SUBSET Edits /\ obj.version \in Nat
BY ObjectTyped DEF TypeOK, Object

\* An app gets the current version with the document there is.
LEMMA Reads ==
  ASSUME IInv, NEW c \in Clients, obj.exists,
         view' = [view EXCEPT ![c] = [version |-> obj.version, doc |-> doc]],
         UNCHANGED <<obj, doc, proc, joined, inbox, changes, faults, acked, redeemed, overlapped>>
  PROVE  IInv'
<1> DEFINE new == [version |-> obj.version, doc |-> doc]
<1>1. /\ new \in [version : Nat, doc : SUBSET Edits]
      /\ new.version = obj.version /\ new.doc = doc /\ view' = [view EXCEPT ![c] = new]
  BY ViewsTyped DEF IInv
<1> HIDE DEF new
<1>2. /\ view' \in [Clients -> [version : Nat, doc : SUBSET Edits]] /\ view'[c] = new
      /\ \A d \in Clients : d # c => view'[d] = view[d]
  BY <1>1, ViewsTyped DEF IInv
<1>3. TypeOK'
  BY <1>2 DEF IInv, TypeOK
<1>4. JobsTyped'
  BY DEF IInv, JobsTyped
<1>5. ASSUME ~overlapped PROVE Alone'
  <2>1. Alone
    BY <1>5 DEF IInv
  <2>2. EditsAreKept' /\ CodesSound' /\ JobsSound'
    BY <2>1 DEF Alone, EditsAreKept, CodesSound, JobsSound, JobSound, Busy
  <2>3. acked \subseteq doc
    BY <2>1 DEF Alone, EditsAreKept
  <2>4. obj.version <= obj.version
    BY ViewsTyped DEF IInv
  <2>5. ViewsSound'
    BY <1>1, <1>2, <2>1, <2>3, <2>4 DEF Alone, ViewsSound
  <2>6. QED
    BY <2>2, <2>5 DEF Alone
<1>6. QED
  BY <1>3, <1>4, <1>5 DEF IInv

LEMMA KeepRead ==
  ASSUME IInv, NEW p \in Processes, NEW c \in Clients, Read(p, c)
  PROVE  IInv'
BY Reads DEF Read, Ready

LEMMA KeepWriteConflicts ==
  ASSUME IInv, NEW p \in Processes, NEW e \in Edits, WriteConflicts(p, e)
  PROVE  IInv'
<1>0. PICK c \in Clients : c = By[e]
  BY EditOfClient
<1>1. QED
  BY <1>0, Reads DEF WriteConflicts, Ready

LEMMA KeepLeaveAlone ==
  ASSUME IInv, NEW c \in Peers, LeaveAlone(c)
  PROVE  IInv'
<1>1. /\ joined' \subseteq Peers /\ inbox' \subseteq Peers /\ faults' \in 0..MaxFaults
      /\ UNCHANGED <<obj, doc, proc, view, changes, acked, redeemed, overlapped>>
  BY FaultTyped DEF LeaveAlone, IInv, TypeOK
<1>2. TypeOK'
  BY <1>1 DEF IInv, TypeOK
<1>3. JobsTyped'
  BY <1>1 DEF IInv, JobsTyped
<1>4. Alone => Alone'
  BY <1>1 DEF Alone, EditsAreKept, ViewsSound, CodesSound, JobsSound, JobSound, Busy
<1>5. QED
  BY <1>1, <1>2, <1>3, <1>4 DEF IInv

LEMMA KeepCrash ==
  ASSUME IInv, NEW p \in Processes, Crash(p)
  PROVE  IInv'
<1>1. /\ proc' = [proc EXCEPT ![p] = Quiet] /\ faults' \in 0..MaxFaults /\ joined' \subseteq Peers
      /\ UNCHANGED <<obj, doc, view, inbox, changes, acked, redeemed, overlapped>>
  BY FaultTyped DEF Crash, Left, IInv, TypeOK
<1>2. /\ proc' \in [Processes -> JobType] /\ proc'[p] = Quiet
      /\ \A q \in Processes : q # p => proc'[q] = proc[q]
  BY <1>1, QuietTyped DEF IInv, TypeOK, JobType
<1>3. TypeOK'
  BY <1>1, <1>2 DEF IInv, TypeOK, JobType
<1>4. JobsTyped'
  BY <1>2, QuietTyped, NewObjectSound DEF IInv, JobsTyped
<1>5. ASSUME Alone PROVE Alone'
  <2>1. EditsAreKept' /\ ViewsSound' /\ CodesSound'
    BY <1>1, <1>5 DEF Alone, EditsAreKept, ViewsSound, CodesSound
  <2>2. \A q \in Processes : ~Busy(q)'
    BY <1>2, <1>5, QuietTyped DEF Crash, Alone, JobsSound, Busy
  <2>3. QED
    BY <2>1, <2>2 DEF Alone, JobsSound
<1>6. QED
  BY <1>1, <1>3, <1>4, <1>5 DEF IInv

\* The object is gone, and nobody is left who would save it, but after an overlap.
LEMMA KeepDelete ==
  ASSUME IInv, NEW p \in Processes, Delete(p)
  PROVE  IInv'
<1>1. /\ obj' = Gone /\ doc' = {} /\ acked' = {} /\ changes' \in 0..MaxChanges
      /\ overlapped' = (overlapped \/ \E q \in Processes \ {p} : Busy(q)) /\ ~Busy(p)
      /\ UNCHANGED <<proc, view, joined, inbox, faults, redeemed>>
  BY ChangeTyped DEF Delete, Ready, IInv, TypeOK
<1>2. /\ obj' \in Object /\ obj'.role[Host] = "editor"
      /\ \A c \in obj'.pending : obj'.role[c] # NoOne
  BY <1>1, GoneSound DEF ObjectSound
<1>3. TypeOK'
  BY <1>1, <1>2 DEF IInv, TypeOK
<1>4. JobsTyped'
  BY <1>1 DEF IInv, JobsTyped
<1>5. ASSUME ~overlapped' PROVE Alone'
  <2>1. Alone
    BY <1>1, <1>5 DEF IInv
  <2>2. EditsAreKept' /\ ViewsSound' /\ CodesSound'
    BY <1>1, <2>1, GoneSound DEF Alone, EditsAreKept, ViewsSound, CodesSound
  <2>3. \A q \in Processes : ~Busy(q)'
    BY <1>1, <1>5 DEF Busy
  <2>4. QED
    BY <2>2, <2>3 DEF Alone, JobsSound
<1>6. QED
  BY <1>3, <1>4, <1>5 DEF IInv

---------------------------------------------------------------------------
(* Saving. *)

LEMMA KeepSaveDoc ==
  ASSUME IInv, NEW p \in Processes, SaveDoc(p)
  PROVE  IInv'
<1>1. proc[p] \in JobType
  BY JobTyped DEF IInv
<1>2. PICK job \in JobType : job = [proc[p] EXCEPT !.step = "object"]
  BY <1>1 DEF JobType
<1>3. /\ job.step = "object" /\ job.kind = proc[p].kind
      /\ job.obj = proc[p].obj /\ job.who = proc[p].who /\ job.doc = proc[p].doc
      /\ job.edit = proc[p].edit /\ job.code = proc[p].code
  BY <1>1, <1>2 DEF JobType
<1>4. /\ proc[p].step = "doc" /\ doc' = proc[p].doc /\ proc' = [proc EXCEPT ![p] = job]
      /\ UNCHANGED <<obj, view, joined, inbox, changes, faults, acked, redeemed, overlapped>>
  BY <1>2 DEF SaveDoc
<1>5. /\ proc' \in [Processes -> JobType] /\ proc'[p] = job
      /\ \A q \in Processes : q # p => proc'[q] = proc[q]
  BY <1>4, <1>3 DEF IInv, TypeOK, JobType
<1>6. doc' \subseteq Edits
  BY <1>4, JobTyped DEF IInv
<1>7. TypeOK'
  BY <1>4, <1>5, <1>6 DEF IInv, TypeOK, JobType
<1>8. JobsTyped'
  BY <1>3, <1>5 DEF IInv, JobsTyped
<1>9. ASSUME Alone PROVE Alone'
  <2>1. /\ obj.exists /\ JobSound(proc[p])
        /\ \A q \in Processes : q # p => ~Busy(q)
    BY <1>4, <1>9 DEF Alone, JobsSound, Busy
  <2>2. proc[p].kind = "write"
    BY <1>4, <2>1 DEF JobSound
  <2>3. acked \subseteq proc[p].doc
    BY <2>1, <2>2 DEF JobSound
  <2>4. EditsAreKept' /\ ViewsSound' /\ CodesSound'
    BY <1>4, <1>9, <2>3 DEF Alone, EditsAreKept, ViewsSound, CodesSound
  <2>5. JobSound(job)'
    BY <1>4, <1>3, <2>1, <2>2, <2>3 DEF JobSound
  <2>6. \A q \in Processes : q # p => ~Busy(q)'
    BY <1>5, <2>1 DEF Busy
  <2>7. JobsSound'
    BY <1>4, <1>5, <2>1, <2>5, <2>6 DEF JobsSound
  <2>8. QED
    BY <2>4, <2>7 DEF Alone
<1>10. QED
  BY <1>4, <1>7, <1>8, <1>9 DEF IInv

\* What an answer tells the app: the version saved, and the document with it.
LEMMA AnsweredFacts ==
  ASSUME IInv, NEW p \in Processes, Answered(proc[p]), UNCHANGED doc
  PROVE  /\ view' \in [Clients -> [version : Nat, doc : SUBSET Edits]]
         /\ acked' = acked \cup proc[p].edit
         /\ acked' \subseteq Edits /\ joined' \subseteq Peers /\ inbox' \subseteq Peers
         /\ UNCHANGED faults
         /\ \A c \in Clients :
              \/ view'[c] = view[c]
              \/ /\ proc[p].kind \in {"write", "join"}
                 /\ view'[c].version = proc[p].obj.version
                 /\ view'[c].doc = IF proc[p].kind = "write" THEN proc[p].doc ELSE doc
<1> DEFINE job == proc[p]
           new == [version |-> job.obj.version,
                   doc |-> IF job.kind = "write" THEN job.doc ELSE doc]
<1>1. /\ job.who \in Clients /\ job.obj.version \in Nat /\ job.doc \in SUBSET Edits
      /\ job.edit \subseteq Edits /\ doc \in SUBSET Edits
  BY JobTyped, ViewsTyped DEF IInv, Object
<1>2. /\ new \in [version : Nat, doc : SUBSET Edits]
      /\ new.version = job.obj.version
      /\ new.doc = IF job.kind = "write" THEN job.doc ELSE doc
  BY <1>1
<1>3. /\ acked' = acked \cup job.edit /\ UNCHANGED faults
      /\ view' = IF job.kind \in {"write", "join"} THEN [view EXCEPT ![job.who] = new] ELSE view
  BY DEF Answered
<1>4. acked' \subseteq Edits
  BY <1>1, <1>3 DEF IInv, TypeOK
<1>5. job.kind \in {"join", "invite"} => job.who \in Peers
  BY DEF IInv, JobsTyped
<1>6. joined' \subseteq Peers
  BY <1>5 DEF Answered, Left, IInv, TypeOK
<1>7. inbox' \subseteq Peers
  <2>1. inbox \subseteq Peers
    BY DEF IInv, TypeOK
  <2>2. \/ inbox' = inbox \ {job.who}
        \/ inbox' = inbox
        \/ job.kind = "invite" /\ inbox' = inbox \cup {job.who}
    BY DEF Answered
  <2>3. QED
    BY <1>5, <2>1, <2>2
<1> HIDE DEF new
<1>8. view' \in [Clients -> [version : Nat, doc : SUBSET Edits]]
  BY <1>1, <1>2, <1>3, ViewsTyped DEF IInv
<1>9. \A c \in Clients : view'[c] = view[c] \/ (job.kind \in {"write", "join"} /\ view'[c] = new)
  BY <1>1, <1>3, ViewsTyped DEF IInv
<1>10. QED
  BY <1>2, <1>3, <1>4, <1>6, <1>7, <1>8, <1>9

\* A code is counted when the object without it is saved.
LEMMA KeepSaveObject ==
  ASSUME IInv, NEW p \in Processes, SaveObject(p)
  PROVE  IInv'
<1> DEFINE job == proc[p]
<1>1. /\ job.step = "object" /\ obj' = job.obj /\ proc' = [proc EXCEPT ![p] = Quiet]
      /\ redeemed' = [k \in Codes |-> IF k \in job.code /\ redeemed[k] < 2
                                      THEN redeemed[k] + 1 ELSE redeemed[k]]
      /\ UNCHANGED <<doc, changes, overlapped>>
      /\ Answered(job) \/ Unanswered(job)
  BY DEF SaveObject
<1>2. /\ view' \in [Clients -> [version : Nat, doc : SUBSET Edits]]
      /\ acked' \subseteq acked \cup job.edit
      /\ acked' \subseteq Edits /\ joined' \subseteq Peers /\ inbox' \subseteq Peers
      /\ faults' \in 0..MaxFaults
      /\ \A c \in Clients :
           \/ view'[c] = view[c]
           \/ /\ job.kind \in {"write", "join"}
              /\ view'[c].version = job.obj.version
              /\ view'[c].doc = IF job.kind = "write" THEN job.doc ELSE doc
  <2>1. CASE Answered(job)
    BY <1>1, <2>1, AnsweredFacts DEF IInv, TypeOK
  <2>2. CASE Unanswered(job)
    BY <2>2, FaultTyped, ViewsTyped DEF Unanswered, Left, IInv, TypeOK
  <2>3. QED
    BY <1>1, <2>1, <2>2
<1>3. /\ proc' \in [Processes -> JobType] /\ proc'[p] = Quiet
      /\ \A q \in Processes : q # p => proc'[q] = proc[q]
  BY <1>1, QuietTyped DEF IInv, TypeOK, JobType
<1>4. /\ obj' \in Object /\ obj'.role[Host] = "editor"
      /\ \A c \in obj'.pending : obj'.role[c] # NoOne
  <2>1. obj' \in Object /\ ObjectSound(job.obj)
    BY <1>1, JobTyped DEF IInv, JobsTyped
  <2>2. QED
    BY <1>1, <2>1 DEF ObjectSound
<1>5. redeemed' \in [Codes -> 0..2]
  <2>1. redeemed \in [Codes -> 0..2]
    BY DEF IInv, TypeOK
  <2>2. QED
    BY <1>1, <2>1
<1>6. TypeOK'
  BY <1>1, <1>2, <1>3, <1>4, <1>5 DEF IInv, TypeOK, JobType
<1>7. JobsTyped'
  BY <1>3, QuietTyped, NewObjectSound DEF IInv, JobsTyped
<1>8. ASSUME Alone PROVE Alone'
  <2>1. /\ obj.exists /\ JobSound(job)
        /\ \A q \in Processes : q # p => ~Busy(q)
    BY <1>1, <1>8 DEF Alone, JobsSound, Busy
  <2>2. \A q \in Processes : ~Busy(q)'
    BY <1>3, <2>1, QuietTyped DEF Busy
  <2>3. acked' \subseteq doc /\ (job.kind = "write" => doc = job.doc)
    BY <1>1, <1>2, <2>1 DEF JobSound
  <2>4. EditsAreKept'
    BY <1>1, <2>3 DEF EditsAreKept
  <2>5. CodesSound'
    <3>1. ASSUME NEW k \in Codes
          PROVE  redeemed'[k] <= 1 /\ (obj'.code[k] # NoOne => redeemed'[k] = 0)
      <4>1. /\ redeemed[k] <= 1
            /\ k \in job.code => redeemed[k] = 0 /\ obj'.code[k] = NoOne
            /\ obj'.code[k] # NoOne => redeemed[k] = 0
        BY <1>1, <1>8, <2>1 DEF JobSound, Alone, CodesSound
      <4>2. redeemed[k] \in 0..2
        BY DEF IInv, TypeOK
      <4>3. QED
        BY <1>1, <4>1, <4>2
    <3>2. QED
      BY <3>1 DEF CodesSound
  <2>6. ViewsSound'
    <3>1. ASSUME NEW c \in Clients
          PROVE  /\ view'[c].version <= obj'.version
                 /\ view'[c].version = obj'.version => acked' \subseteq view'[c].doc
      <4>1. /\ view[c].version <= obj.version
            /\ view[c].version = obj.version => acked \subseteq view[c].doc
        BY <1>8, <2>1 DEF Alone, ViewsSound
      <4>2. view[c].version \in Nat /\ obj.version \in Nat /\ obj'.version \in Nat
        BY <1>1, JobTyped, ViewsTyped DEF IInv, Object
      <4>3. CASE view'[c] = view[c]
        <5>1. CASE job.kind = "write"
          BY <1>1, <2>1, <4>1, <4>2, <4>3, <5>1 DEF JobSound
        <5>2. CASE job.kind # "write"
          BY <1>1, <1>2, <2>1, <4>1, <4>2, <4>3, <5>2 DEF JobSound
        <5>3. QED
          BY <5>1, <5>2
      <4>4. CASE /\ view'[c].version = job.obj.version
                 /\ view'[c].doc = IF job.kind = "write" THEN job.doc ELSE doc
        BY <1>1, <2>3, <4>2, <4>4
      <4>5. QED
        BY <1>2, <4>3, <4>4
    <3>2. QED
      BY <3>1 DEF ViewsSound
  <2>7. QED
    BY <2>2, <2>4, <2>5, <2>6 DEF Alone, JobsSound
<1>9. QED
  BY <1>1, <1>6, <1>7, <1>8 DEF IInv

---------------------------------------------------------------------------
(* The invariant. *)

LEMMA InvInit == ASSUME Init PROVE IInv
<1>1. /\ obj = NewObject /\ doc = {} /\ acked = {} /\ joined = {} /\ inbox = {}
      /\ proc \in [Processes -> JobType] /\ \A p \in Processes : proc[p] = Quiet
      /\ view \in [Clients -> [version : Nat, doc : SUBSET Edits]]
      /\ \A c \in Clients : view[c].version = 0
      /\ redeemed \in [Codes -> 0..2] /\ \A k \in Codes : redeemed[k] = 0
      /\ overlapped = FALSE
  BY QuietTyped DEF Init
<1>2. changes \in 0..MaxChanges /\ faults \in 0..MaxFaults
  BY ObjectAssumption DEF Init
<1>3. /\ obj \in Object /\ obj.version = 1 /\ obj.role[Host] = "editor"
      /\ \A c \in obj.pending : obj.role[c] # NoOne
  BY <1>1, NewObjectSound DEF ObjectSound
<1>4. TypeOK
  BY <1>1, <1>2, <1>3 DEF TypeOK, JobType
<1>5. JobsTyped
  BY <1>1, QuietTyped, NewObjectSound DEF JobsTyped
<1>6. Alone
  BY <1>1, <1>3, NewObjectSound, QuietTyped
     DEF Alone, EditsAreKept, ViewsSound, CodesSound, JobsSound, Busy
<1>7. QED
  BY <1>4, <1>5, <1>6 DEF IInv

LEMMA InvStep == ASSUME IInv, [Next]_vars PROVE IInv'
<1>1. CASE UNCHANGED vars
  BY <1>1 DEF vars, IInv, TypeOK, JobsTyped, ObjectSound, Alone, EditsAreKept, ViewsSound,
              CodesSound, JobsSound, JobSound, Busy
<1>2. CASE Next
  BY <1>2, KeepSaveDoc, KeepSaveObject, KeepCrash, KeepDelete, KeepRead, KeepRevoke, KeepWrite,
     KeepWriteConflicts, KeepInvite, KeepMint, KeepJoinAsMember, KeepLeave, KeepLeaveAlone,
     KeepJoinByCode DEF Next
<1>3. QED
  BY <1>1, <1>2

\* Only saving a write tells an author anything.
Told == \A e \in acked' \ acked : overlapped \/ obj.role[By[e]] = "editor"

LEMMA StepTold == ASSUME IInv, [Next]_vars PROVE Told
<1>1. ASSUME NEW p \in Processes, SaveObject(p) PROVE Told
  <2>1. SUFFICES ASSUME ~overlapped, NEW e \in acked' \ acked PROVE obj.role[By[e]] = "editor"
    BY DEF Told
  <2>2. proc[p].step = "object" /\ e \in proc[p].edit
    BY <1>1, <2>1 DEF SaveObject, Answered, Unanswered
  <2>3. JobSound(proc[p])
    BY <2>1, <2>2 DEF IInv, Alone, JobsSound, Busy
  <2>4. QED
    BY <2>2, <2>3 DEF JobSound
<1>2. ASSUME acked' \subseteq acked PROVE Told
  BY <1>2 DEF Told
<1>3. CASE UNCHANGED vars
  BY <1>2, <1>3 DEF vars
<1>4. ASSUME NEW p \in Processes, SaveDoc(p) \/ Crash(p) \/ Delete(p) PROVE Told
  BY <1>2, <1>4 DEF SaveDoc, Crash, Delete
<1>5. ASSUME NEW p \in Processes, NEW c \in Clients, Read(p, c) \/ Revoke(p, c) PROVE Told
  BY <1>2, <1>5 DEF Read, Revoke
<1>6. ASSUME NEW p \in Processes, NEW e \in Edits, Write(p, e) \/ WriteConflicts(p, e) PROVE Told
  BY <1>2, <1>6 DEF Write, WriteConflicts
<1>7. ASSUME NEW p \in Processes, NEW role \in Roles,
             (\E c \in Peers : Invite(p, c, role)) \/ (\E k \in Codes : Mint(p, k, role))
      PROVE  Told
  BY <1>2, <1>7 DEF Invite, Mint
<1>8. ASSUME NEW c \in Peers,
             JoinAsMember(c) \/ Leave(c) \/ LeaveAlone(c) \/ (\E k \in Codes : JoinByCode(c, k))
      PROVE  Told
  BY <1>2, <1>8 DEF JoinAsMember, Leave, LeaveAlone, JoinByCode
<1>9. QED
  BY <1>1, <1>3, <1>4, <1>5, <1>6, <1>7, <1>8 DEF Next

---------------------------------------------------------------------------
(* The theorems. *)

\* The inductive invariant: what each process will save, and what each app has read,
\* under the object there is.
THEOREM InvHolds == Spec => []IInv
BY InvInit, InvStep, PTL DEF Spec

\* Types of the state; the host stays an editor and a pending member is a member, also
\* when changes overlap.
THEOREM TypesHold == Spec => []TypeOK
<1>1. IInv => TypeOK
  BY DEF IInv
<1>2. QED
  BY <1>1, InvHolds, PTL

\* As long as no two changes overlap, acknowledged edits stay and a code admits once,
\* whatever died, went unanswered or was repeated (object_write, write_state, join).
THEOREM SoundHolds == Spec => []SoundUnlessOverlapped
<1>1. IInv => SoundUnlessOverlapped
  BY DEF IInv, SoundUnlessOverlapped, Alone, CodesSound, CodeAdmitsOnce
<1>2. QED
  BY <1>1, InvHolds, PTL

\* Only who is an editor at that moment is told that an edit is in, as long as no two
\* changes overlap (object_write, revoke_member).
THEOREM EditorsHold == Spec => OnlyEditorsWrite
<1>1. IInv /\ [Next]_vars => [Told]_vars
  BY StepTold
<1>2. QED
  BY <1>1, InvHolds, PTL DEF Spec, OnlyEditorsWrite, Told
============================================================================
