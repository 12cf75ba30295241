--------------------------- MODULE SharedObjects ---------------------------
(* One shared object (social_objects.py): a document that lives at its host and *)
(* is edited by the host's own app and by the apps of the members.             *)
(*                                                                             *)
(* The host serves every request in a process of its own. Peers' envelopes are *)
(* handled one after the other in the public lane; the owner's requests run in *)
(* the private lane beside it. _object_lock is an asyncio.Lock: it orders       *)
(* nothing between processes, so each operation is one step that loads          *)
(* object.json and a later step per file that it writes.                        *)
(*                                                                             *)
(* The document is the set of edits it contains: an app writes what it last    *)
(* read with its own edit merged in. Labels, presence, attachments, expiry of   *)
(* invite codes and several deployments of one account are left out.            *)
EXTENDS Naturals

CONSTANTS
  Host,        \* the instance the object lives on
  Peers,       \* the other instances
  Edits,       \* edits of the document
  By,          \* whose edit it is
  Codes,       \* invite codes the owner may mint
  Public,      \* the process of the public lane
  Private,     \* the processes of the owner's concurrent requests
  MaxVersion,  \* bound on the object's version
  MaxChanges,  \* bound on the owner's changes of the membership
  MaxFaults    \* bound on crashes and lost answers

ASSUME ObjectAssumption ==
  /\ Host \notin Peers /\ Public \notin Private
  /\ By \in [Edits -> Peers \cup {Host}]
  /\ MaxVersion \in Nat /\ MaxChanges \in Nat /\ MaxFaults \in Nat

VARIABLES
  obj,      \* hosted/<oid>/object.json
  doc,      \* hosted/<oid>/doc.json
  proc,     \* what each process of the host holds between two steps
  view,     \* the version and document each app last read
  joined,   \* the peers that keep a remote/<host>__<oid>.json
  inbox,    \* the peers that have a pending invitation
  changes,  \* the owner's changes so far
  faults,   \* faults so far
  (* history of the run, read by no action *)
  acked,      \* edits whose author was told they are in
  redeemed,   \* how often each code admitted someone, counted up to two
  overlapped  \* two changes of the object were once under way together

vars == <<obj, doc, proc, view, joined, inbox, changes, faults, acked, redeemed, overlapped>>

---------------------------------------------------------------------------
Clients == Peers \cup {Host}
Processes == Private \cup {Public}
Lane(c) == IF c = Host THEN Private ELSE {Public}
Roles == {"viewer", "editor"}
NoOne == "none"

\* create_object: version 1, the host is its only member.
NewObject == [exists |-> TRUE, version |-> 1,
              role |-> [c \in Clients |-> IF c = Host THEN "editor" ELSE NoOne],
              pending |-> {}, code |-> [k \in Codes |-> NoOne]]
Gone == [NewObject EXCEPT !.exists = FALSE]
Quiet == [step |-> "idle", kind |-> "write", who |-> Host, obj |-> NewObject, doc |-> {},
          edit |-> {}, code |-> {}]

Init ==
  /\ obj = NewObject
  /\ doc = {}
  /\ proc = [p \in Processes |-> Quiet]
  /\ view = [c \in Clients |-> [version |-> 0, doc |-> {}]]
  /\ joined = {}
  /\ inbox = {}
  /\ changes = 0
  /\ faults = 0
  /\ acked = {}
  /\ redeemed = [k \in Codes |-> 0]
  /\ overlapped = FALSE

Fault == faults < MaxFaults /\ faults' = faults + 1
Busy(p) == proc[p].step # "idle"
Ready(p) == ~Busy(p) /\ obj.exists

\* Process p has loaded the object and decided; what it will save is in its memory.
Start(p, job) ==
  /\ proc' = [proc EXCEPT ![p] = job]
  /\ overlapped' = (overlapped \/ \E q \in Processes \ {p} : Busy(q))

---------------------------------------------------------------------------
(* Reading and writing the document.                                            *)

\* An app asks for an object that its instance hosts or is a member of.
Opens(c) == c \in joined \cup {Host}

\* object_state and read_state: the version, and the document when it is newer than
\* what the app has. Another process may have saved the document and not the object.
Read(p, c) ==
  /\ p \in Lane(c) /\ Ready(p)
  /\ Opens(c)
  /\ obj.role[c] # NoOne
  /\ obj.version > view[c].version
  /\ view' = [view EXCEPT ![c] = [version |-> obj.version, doc |-> doc]]
  /\ UNCHANGED <<obj, doc, proc, joined, inbox, changes, faults, acked, redeemed, overlapped>>

\* Mutant: any member may write.
MayWrite_AnyMember(c) == obj.role[c] # NoOne

MayWrite(c) == obj.role[c] = "editor"

\* Mutant: an older expected version is accepted.
UpToDate_Older(c) == view[c].version <= obj.version

UpToDate(c) == view[c].version = obj.version

\* object_write and write_state: compare and swap ...
Write(p, e) ==
  LET c == By[e] IN
  /\ p \in Lane(c) /\ Ready(p)
  /\ Opens(c) /\ MayWrite(c) /\ UpToDate(c)
  /\ obj.version < MaxVersion
  /\ Start(p, [Quiet EXCEPT !.step = "doc", !.who = c, !.edit = {e},
                            !.obj = [obj EXCEPT !.version = @ + 1],
                            !.doc = view[c].doc \cup {e}])
  /\ UNCHANGED <<obj, doc, view, joined, inbox, changes, faults, acked, redeemed>>

\* ... or the conflict with the current document, for the app to merge.
WriteConflicts(p, e) ==
  LET c == By[e] IN
  /\ p \in Lane(c) /\ Ready(p)
  /\ Opens(c) /\ MayWrite(c) /\ ~UpToDate(c)
  /\ view' = [view EXCEPT ![c] = [version |-> obj.version, doc |-> doc]]
  /\ UNCHANGED <<obj, doc, proc, joined, inbox, changes, faults, acked, redeemed, overlapped>>

\* _save_doc: the document is on disk before the version that names it.
SaveDoc(p) ==
  /\ proc[p].step = "doc"
  /\ doc' = proc[p].doc
  /\ proc' = [proc EXCEPT ![p].step = "object"]
  /\ UNCHANGED <<obj, view, joined, inbox, changes, faults, acked, redeemed, overlapped>>

---------------------------------------------------------------------------
(* Membership.                                                                  *)

Saving(kind, c, new) == [Quiet EXCEPT !.step = "object", !.kind = kind, !.who = c, !.obj = new]

\* Mutant: a redeemed code stays.
Redeem_Keep(c, k) == [obj EXCEPT !.role[c] = obj.code[k], !.pending = @ \ {c}]

\* A code admits a new member once.
Redeem(c, k) == [obj EXCEPT !.role[c] = obj.code[k], !.pending = @ \ {c}, !.code[k] = NoOne]

\* object_join with a code.
JoinByCode(c, k) ==
  /\ Ready(Public)
  /\ obj.role[c] = NoOne /\ obj.code[k] # NoOne
  /\ Start(Public, [Saving("join", c, Redeem(c, k)) EXCEPT !.code = {k}])
  /\ UNCHANGED <<obj, doc, view, joined, inbox, changes, faults, acked, redeemed>>

\* object_join of a member, invited or already joined: no code is used up.
JoinAsMember(c) ==
  /\ Ready(Public)
  /\ obj.role[c] # NoOne
  /\ Start(Public, Saving("join", c, [obj EXCEPT !.pending = @ \ {c}]))
  /\ UNCHANGED <<obj, doc, view, joined, inbox, changes, faults, acked, redeemed>>

\* object_leave, which leave_object and decline_invitation send; declining takes the
\* invitation away first.
Leave(c) ==
  /\ Ready(Public)
  /\ obj.role[c] # NoOne
  /\ c \in joined \cup inbox
  /\ inbox' = inbox \ {c}
  /\ Start(Public, Saving("leave", c, [obj EXCEPT !.role[c] = NoOne, !.pending = @ \ {c}]))
  /\ UNCHANGED <<obj, doc, view, joined, changes, faults, acked, redeemed>>

\* The host does not get the envelope, or does not know the member: the peer leaves alone.
LeaveAlone(c) ==
  /\ c \in joined \cup inbox
  /\ \/ obj.role[c] = NoOne /\ UNCHANGED faults
     \/ Fault
  /\ joined' = joined \ {c}
  /\ inbox' = inbox \ {c}
  /\ UNCHANGED <<obj, doc, proc, view, changes, acked, redeemed, overlapped>>

OwnerChange == changes < MaxChanges /\ changes' = changes + 1

\* create_invite with an address: a pending member, under the role it already has.
Invite(p, c, role) ==
  /\ p \in Private /\ Ready(p)
  /\ OwnerChange
  /\ \/ obj.role[c] = NoOne
     \/ c \in obj.pending /\ obj.role[c] = role
  /\ Start(p, Saving("invite", c, [obj EXCEPT !.role[c] = role, !.pending = @ \cup {c}]))
  /\ UNCHANGED <<obj, doc, view, joined, inbox, faults, acked, redeemed>>

\* create_invite without one: a fresh secret.
Mint(p, k, role) ==
  /\ p \in Private /\ Ready(p)
  /\ OwnerChange
  /\ redeemed[k] = 0 /\ obj.code[k] = NoOne
  /\ \A q \in Processes : k \notin proc[q].code /\ proc[q].obj.code[k] = NoOne
  /\ Start(p, Saving("mint", Host, [obj EXCEPT !.code[k] = role]))
  /\ UNCHANGED <<obj, doc, view, joined, inbox, faults, acked, redeemed>>

\* Mutant: the host may revoke itself.
MayRevoke_Any(c) == obj.role[c] # NoOne

MayRevoke(c) == c # Host /\ obj.role[c] # NoOne

\* revoke_member.
Revoke(p, c) ==
  /\ p \in Private /\ Ready(p)
  /\ OwnerChange
  /\ MayRevoke(c)
  /\ Start(p, Saving("revoke", c, [obj EXCEPT !.role[c] = NoOne, !.pending = @ \ {c}]))
  /\ UNCHANGED <<obj, doc, view, joined, inbox, faults, acked, redeemed>>

\* delete_object: the files are unlinked; a process that loaded them before is not stopped.
Delete(p) ==
  /\ p \in Private /\ Ready(p)
  /\ OwnerChange
  /\ obj' = Gone /\ doc' = {}
  /\ acked' = {}
  /\ overlapped' = (overlapped \/ \E q \in Processes \ {p} : Busy(q))
  /\ UNCHANGED <<proc, view, joined, inbox, faults, redeemed>>

\* What the answer, or its loss, leaves at the peer: a leave succeeds either way.
Left(job) == IF job.kind = "leave" THEN joined \ {job.who} ELSE joined

\* The client gets the answer: the app has what the host now has, a member records its
\* membership and drops the invitation, an invited peer that has not joined is asked.
Answered(job) ==
  /\ acked' = acked \cup job.edit
  /\ view' = IF job.kind \in {"write", "join"}
             THEN [view EXCEPT ![job.who] =
                     [version |-> job.obj.version,
                      doc |-> IF job.kind = "write" THEN job.doc ELSE doc]]
             ELSE view
  /\ joined' = IF job.kind = "join" THEN joined \cup {job.who} ELSE Left(job)
  /\ inbox' = CASE job.kind = "join" -> inbox \ {job.who}
                [] job.kind = "invite" /\ job.who \notin joined -> inbox \cup {job.who}
                [] OTHER -> inbox
  /\ UNCHANGED faults

\* It does not.
Unanswered(job) ==
  /\ Fault
  /\ joined' = Left(job)
  /\ UNCHANGED <<view, inbox, acked>>

\* _save_object, and the answer to the peer or the app. An invitation that is not
\* delivered is saved all the same.
SaveObject(p) ==
  LET job == proc[p] IN
  /\ job.step = "object"
  /\ obj' = job.obj
  /\ proc' = [proc EXCEPT ![p] = Quiet]
  /\ redeemed' = [k \in Codes |-> IF k \in job.code /\ redeemed[k] < 2
                                  THEN redeemed[k] + 1 ELSE redeemed[k]]
  /\ \/ Answered(job)
     \/ (p = Public \/ job.kind = "invite") /\ Unanswered(job)
  /\ UNCHANGED <<doc, changes, overlapped>>

\* The process dies with what it has not saved.
Crash(p) ==
  /\ Busy(p)
  /\ Fault
  /\ proc' = [proc EXCEPT ![p] = Quiet]
  /\ joined' = Left(proc[p])
  /\ UNCHANGED <<obj, doc, view, inbox, changes, acked, redeemed, overlapped>>

---------------------------------------------------------------------------
Next ==
  \/ \E p \in Processes :
       \/ SaveDoc(p) \/ SaveObject(p) \/ Crash(p) \/ Delete(p)
       \/ \E c \in Clients : Read(p, c) \/ Revoke(p, c)
       \/ \E e \in Edits : Write(p, e) \/ WriteConflicts(p, e)
       \/ \E c \in Peers, role \in Roles : Invite(p, c, role)
       \/ \E k \in Codes, role \in Roles : Mint(p, k, role)
  \/ \E c \in Peers : JoinAsMember(c) \/ Leave(c) \/ LeaveAlone(c) \/ \E k \in Codes : JoinByCode(c, k)

Spec == Init /\ [][Next]_vars

---------------------------------------------------------------------------
Object == [exists : BOOLEAN, version : Nat, role : [Clients -> Roles \cup {NoOne}],
           pending : SUBSET Peers, code : [Codes -> Roles \cup {NoOne}]]

\* Types of the state; the host stays an editor and a pending member is a member.
TypeOK ==
  /\ obj \in Object
  /\ obj.role[Host] = "editor" /\ \A c \in obj.pending : obj.role[c] # NoOne
  /\ doc \subseteq Edits
  /\ proc \in [Processes -> [step : {"idle", "doc", "object"},
                             kind : {"write", "join", "leave", "invite", "mint", "revoke"},
                             who : Clients, obj : Object, doc : SUBSET Edits,
                             edit : SUBSET Edits, code : SUBSET Codes]]
  /\ view \in [Clients -> [version : Nat, doc : SUBSET Edits]]
  /\ joined \subseteq Peers /\ inbox \subseteq Peers
  /\ changes \in 0..MaxChanges /\ faults \in 0..MaxFaults
  /\ acked \subseteq Edits
  /\ redeemed \in [Codes -> 0..2]
  /\ overlapped \in BOOLEAN

\* An acknowledged edit stays in the document as long as the object exists
\* (compare and swap in object_write and write_state).
EditsAreKept == obj.exists => acked \subseteq doc

\* A code admits one member once (social_objects.py:27, "redeemable once each").
CodeAdmitsOnce == \A k \in Codes : redeemed[k] <= 1

\* As long as no two changes overlapped, whatever died, went unanswered or was repeated,
\* edits are kept and a code admits once: what object_write, write_state and join rest on.
SoundUnlessOverlapped == ~overlapped => EditsAreKept /\ CodeAdmitsOnce

\* An edit is acknowledged only to a client that is an editor at that moment, as long as
\* no two changes overlapped: a viewer never writes, a revoked member never again.
OnlyEditorsWrite ==
  [][\A e \in acked' \ acked : overlapped \/ obj.role[By[e]] = "editor"]_vars

\* social_objects.py:20, "Writes are compare-and-swap, reads are version-gated [...] so
\* concurrent editors merge instead of clobbering": an acknowledged edit stays in the
\* document. The lock that should make it so does not reach the other lane's process.
AcknowledgedIsKept == EditsAreKept
============================================================================
