-------------------------- MODULE MessageHistory --------------------------
(* message_history.py: the disposable SQLite index over the JSON messages of  *)
(* every conversation, direct or group. One JSON file per message is the      *)
(* truth; state/version.json counts the committed changes of the whole app;   *)
(* a marker file per conversation says that a change was begun and perhaps     *)
(* not mirrored; the index knows which rows it holds, the app version each     *)
(* conversation was reconciled at, and the last run of versions whose          *)
(* messages it has all seen.                                                   *)
(*                                                                             *)
(* Every step below but the external ones runs under app_storage_lock, so at  *)
(* most one request is between two steps: `job' is that request. A request     *)
(* may die after any of its steps, and any SQLite transaction may fail.        *)
(*                                                                             *)
(* A message's content is the number of times its file was written, 0 when     *)
(* there is no file: that stands for the record and for the (mtime, size)      *)
(* signature the scan compares.                                                *)
EXTENDS Integers

CONSTANTS
  Conversations,  \* (scope, conversation) pairs
  Messages,       \* message ids
  MaxVersion,     \* bound on state/version.json
  MaxWrites       \* bound on the writes of one message file

ASSUME HistoryAssumption ==
  /\ Conversations # {} /\ Messages # {}
  /\ MaxVersion \in Nat /\ MaxWrites \in Nat

VARIABLES
  files,            \* msgs/<id>.json of each conversation
  version,          \* state/version.json
  dirty,            \* server/message-history-dirty/<scope>-<digest>.json exists
  rows,             \* table messages
  indexed_version,  \* table conversation_state
  covered_from,     \* table history_coverage
  covered_through,
  page,             \* cache/message-history/<scope>/<conversation>.json
  job               \* the request that holds app_storage_lock

vars == <<files, version, dirty, rows, indexed_version, covered_from,
          covered_through, page, job>>
index == <<rows, indexed_version, covered_from, covered_through>>

---------------------------------------------------------------------------
NoVersion == -1     \* the row of conversation_state or history_coverage is absent
Contents == [Messages -> Nat]
Nothing == [m \in Messages |-> 0]

MutationSteps == {"write", "bump", "mirror", "unmark"}
Steps == {"idle", "cover", "reconcile", "settle", "read", "paint"} \cup MutationSteps

\* What a request between two steps remembers: the conversation and message it
\* works on, whether it created the marker it must remove, the page it read, and
\* whether it is a history request (load_page) or a mutation publishing its page.
Job == [step: Steps, loading: BOOLEAN, conv: Conversations, msg: Messages,
        owns: BOOLEAN, page: Contents]

Idle == [step |-> "idle", loading |-> FALSE,
         conv |-> CHOOSE c \in Conversations : TRUE,
         msg |-> CHOOSE m \in Messages : TRUE,
         owns |-> FALSE, page |-> Nothing]

Init ==
  /\ files = [c \in Conversations |-> Nothing]
  /\ version = 0
  /\ dirty = [c \in Conversations |-> FALSE]
  /\ rows = [c \in Conversations |-> Nothing]
  /\ indexed_version = [c \in Conversations |-> NoVersion]
  /\ covered_from = NoVersion
  /\ covered_through = NoVersion
  /\ page = [c \in Conversations |-> Nothing]
  /\ job = Idle

Goto(step) == job' = [job EXCEPT !.step = step]

---------------------------------------------------------------------------
(* Mutations: _store_message, _begin_delivery_attempt and the other callers of *)
(* begin_message_mutation and mirror_message.                                   *)

\* Mutant: every mutation removes the marker, an inherited one too.
BeginMutation_OwnsAll(c, m) ==
  /\ job.step = "idle"
  /\ files[c][m] < MaxWrites
  /\ job' = [Idle EXCEPT !.step = "write", !.conv = c, !.msg = m, !.owns = TRUE]
  /\ dirty' = [dirty EXCEPT ![c] = TRUE]
  /\ UNCHANGED <<files, version, index, page>>

\* begin_message_mutation: a marker already there was left by a crash, and this
\* mutation must not remove it.
BeginMutation(c, m) ==
  /\ job.step = "idle"
  /\ files[c][m] < MaxWrites
  /\ job' = [Idle EXCEPT !.step = "write", !.conv = c, !.msg = m, !.owns = ~dirty[c]]
  /\ dirty' = [dirty EXCEPT ![c] = TRUE]
  /\ UNCHANGED <<files, version, index, page>>

WriteMessage ==
  /\ job.step = "write"
  /\ files' = [files EXCEPT ![job.conv][job.msg] = @ + 1]
  /\ Goto("bump")
  /\ UNCHANGED <<version, dirty, index, page>>

\* _bump_version(history_covered=False): the mirror covers this version itself.
BumpVersion ==
  /\ job.step = "bump"
  /\ version < MaxVersion
  /\ version' = version + 1
  /\ Goto("mirror")
  /\ UNCHANGED <<files, dirty, index, page>>

\* Mutant: the covered run is stretched over a gap.
MarkVersionCovered_Stretch(v) ==
  /\ covered_through' = v
  /\ covered_from' = IF covered_through # NoVersion THEN covered_from ELSE v

\* _mark_version_covered: a gap starts a new covered run at this version.
MarkVersionCovered(v) ==
  IF covered_through # NoVersion /\ v <= covered_through
  THEN UNCHANGED <<covered_from, covered_through>>
  ELSE /\ covered_through' = v
       /\ covered_from' = IF covered_through # NoVersion /\ v = covered_through + 1
                          THEN covered_from ELSE v

\* mirror_message's transaction: the row, the conversation's version when it was
\* complete up to the version before, and the coverage, all or nothing.
MirrorMessage ==
  /\ job.step = "mirror"
  /\ rows' = [rows EXCEPT ![job.conv][job.msg] = files[job.conv][job.msg]]
  /\ indexed_version' = IF indexed_version[job.conv] = version - 1
                        THEN [indexed_version EXCEPT ![job.conv] = version]
                        ELSE indexed_version
  /\ MarkVersionCovered(version)
  /\ Goto(IF job.owns THEN "unmark" ELSE "reconcile")
  /\ UNCHANGED <<files, version, dirty, page>>

MirrorFails ==
  /\ job.step = "mirror"
  /\ Goto("reconcile")
  /\ UNCHANGED <<files, version, dirty, index, page>>

\* _finish_message_mutation, after the mirror or after a full scan; an unlink
\* that fails keeps the marker.
FinishMutation ==
  /\ \/ job.step = "unmark" /\ Goto("reconcile")
     \/ job.step = "settle" /\ Goto("read")
  /\ \/ dirty' = [dirty EXCEPT ![job.conv] = FALSE]
     \/ UNCHANGED dirty
  /\ UNCHANGED <<files, version, index, page>>

---------------------------------------------------------------------------
(* Changes that touch no message: read marks, request states, group metadata.  *)

\* _bump_version() writes the version first ...
BumpMetadataVersion ==
  /\ job.step = "idle"
  /\ version < MaxVersion
  /\ version' = version + 1
  /\ job' = [Idle EXCEPT !.step = "cover"]
  /\ UNCHANGED <<files, dirty, index, page>>

\* ... and then mark_version_covered, whose failure is swallowed.
CoverMetadataVersion ==
  /\ job.step = "cover"
  /\ \/ MarkVersionCovered(version)
     \/ UNCHANGED <<covered_from, covered_through>>
  /\ job' = Idle
  /\ UNCHANGED <<files, version, dirty, rows, indexed_version, page>>

---------------------------------------------------------------------------
(* Reading: load_page for a history request, and _publish_latest_page at the   *)
(* end of every mutation. Both reconcile, read a page and write the page the   *)
(* app paints first.                                                           *)

BeginLoad(c) ==
  /\ job.step = "idle"
  /\ job' = [Idle EXCEPT !.step = "reconcile", !.loading = TRUE, !.conv = c]
  /\ UNCHANGED <<files, version, dirty, index, page>>

\* The index was reconciled at this very version.
IndexedNow(c) == ~dirty[c] /\ indexed_version[c] = version

\* Mutant: where the covered run starts is not looked at.
CoveredSince_NoStart(c) ==
  /\ ~dirty[c]
  /\ indexed_version[c] # NoVersion
  /\ covered_through = version

\* Every version since the conversation was reconciled had its messages mirrored.
CoveredSince(c) ==
  /\ ~dirty[c]
  /\ indexed_version[c] # NoVersion
  /\ covered_through # NoVersion
  /\ version >= indexed_version[c]
  /\ indexed_version[c] >= covered_from - 1
  /\ covered_through = version

CanSkipScan(c) == IndexedNow(c) \/ CoveredSince(c)

\* _reconcile_conversation without a scan.
ReconcileBySkipping ==
  /\ job.step = "reconcile"
  /\ CanSkipScan(job.conv)
  /\ indexed_version' = [indexed_version EXCEPT ![job.conv] = version]
  /\ Goto("read")
  /\ UNCHANGED <<files, version, dirty, rows, covered_from, covered_through, page>>

\* _reconcile_conversation with one: rows whose file changed are replaced, rows
\* without a file are deleted, and the conversation is at the current version.
ReconcileByScanning ==
  /\ job.step = "reconcile"
  /\ ~CanSkipScan(job.conv)
  /\ rows' = [rows EXCEPT ![job.conv] = files[job.conv]]
  /\ indexed_version' = [indexed_version EXCEPT ![job.conv] = version]
  /\ Goto("settle")
  /\ UNCHANGED <<files, version, dirty, covered_from, covered_through, page>>

\* Mutant: the query forgets the conversation.
ReadPage_EveryRow ==
  /\ job.step = "read"
  /\ job' = [job EXCEPT !.step = "paint", !.page = rows]
  /\ UNCHANGED <<files, version, dirty, index, page>>

\* read_page's newest page.
ReadPage ==
  /\ job.step = "read"
  /\ job' = [job EXCEPT !.step = "paint", !.page = rows[job.conv]]
  /\ UNCHANGED <<files, version, dirty, index, page>>

\* sqlite3.Error in either transaction: a mutation publishes _read_file_page, a
\* history request answers with it and leaves the painted page alone.
IndexFails ==
  /\ job.step \in {"reconcile", "read"}
  /\ job' = IF job.loading THEN Idle
            ELSE [job EXCEPT !.step = "paint", !.page = files[job.conv]]
  /\ UNCHANGED <<files, version, dirty, index, page>>

\* _write_latest_page, skipped when the write fails or the request asked for an
\* older or a shorter page.
WriteLatestPage ==
  /\ job.step = "paint"
  /\ \/ page' = [page EXCEPT ![job.conv] = job.page]
     \/ UNCHANGED page
  /\ job' = Idle
  /\ UNCHANGED <<files, version, dirty, index>>

---------------------------------------------------------------------------
(* External: what happens to these files outside the module.                   *)

\* The request dies (the platform ends a service call at 15 s) and the kernel
\* releases its lock; what it wrote stays.
Crash ==
  /\ job.step # "idle"
  /\ job' = Idle
  /\ UNCHANGED <<files, version, dirty, index, page>>

\* A release older than the index runs for a while: it writes the message and the
\* version and knows neither the marker nor the index.
RollbackWrite(c, m) ==
  /\ job.step = "idle"
  /\ files[c][m] < MaxWrites /\ version < MaxVersion
  /\ files' = [files EXCEPT ![c][m] = @ + 1]
  /\ version' = version + 1
  /\ UNCHANGED <<dirty, index, page, job>>

\* The index is disposable: its file may be deleted between two requests.
LoseIndex ==
  /\ job.step = "idle"
  /\ rows' = [c \in Conversations |-> Nothing]
  /\ indexed_version' = [c \in Conversations |-> NoVersion]
  /\ covered_from' = NoVersion
  /\ covered_through' = NoVersion
  /\ UNCHANGED <<files, version, dirty, page, job>>

---------------------------------------------------------------------------
Mutation ==
  \/ \E c \in Conversations, m \in Messages : BeginMutation(c, m)
  \/ WriteMessage \/ BumpVersion \/ MirrorMessage \/ MirrorFails \/ FinishMutation

Reading ==
  \/ \E c \in Conversations : BeginLoad(c)
  \/ ReconcileBySkipping \/ ReconcileByScanning \/ ReadPage \/ IndexFails
  \/ WriteLatestPage

External ==
  \/ Crash \/ LoseIndex
  \/ \E c \in Conversations, m \in Messages : RollbackWrite(c, m)

Next == Mutation \/ Reading \/ BumpMetadataVersion \/ CoverMetadataVersion \/ External

Spec == Init /\ [][Next]_vars

---------------------------------------------------------------------------
\* Types of the state; versions are absent or natural.
TypeOK ==
  /\ files \in [Conversations -> Contents]
  /\ version \in Nat
  /\ dirty \in [Conversations -> BOOLEAN]
  /\ rows \in [Conversations -> Contents]
  /\ indexed_version \in [Conversations -> Nat \cup {NoVersion}]
  /\ covered_from \in Nat \cup {NoVersion}
  /\ covered_through \in Nat \cup {NoVersion}
  /\ page \in [Conversations -> Contents]
  /\ job \in Job

\* A conversation whose scan would be skipped has exactly its saved messages in
\* the index, whatever crashed, failed or was written by an older release before
\* (message_history.py:311-333; chat-foundation.md: "a newer mirrored write cannot
\* conceal an older missed write").
SkipIsSound ==
  \A c \in Conversations : CanSkipScan(c) => rows[c] = files[c]

\* The page a request is about to paint or return is the conversation as saved,
\* also when it came from the index.
PageReadIsCurrent ==
  job.step = "paint" => job.page = files[job.conv]

\* The page in the app's cache changes only to the saved messages, and saved
\* messages change only one write at a time: the index implements SavedHistory.
Saved == INSTANCE SavedHistory
  WITH Conversations <- Conversations, Messages <- Messages, files <- files, page <- page
ImplementsSavedHistory == Saved!Spec

---------------------------------------------------------------------------
(* The inductive invariant behind SkipIsSound.                                  *)

InFlight(c) == job.step \in MutationSteps /\ job.conv = c /\ job.owns

\* The newest version whose fate in the coverage is decided: the version a request
\* has just written may still be covered.
Settled == IF job.step \in {"mirror", "cover"} THEN version - 1 ELSE version

\* Some version since the conversation was reconciled is outside the covered run,
\* and will stay outside it.
MissedSince(c) ==
  \E v \in (indexed_version[c] + 1)..Settled :
    \/ covered_through = NoVersion
    \/ v < covered_from
    \/ v > covered_through

\* Why the rows of a conversation may differ from its files: a marker that no
\* running request will remove, no reconciliation yet, a missed version, or the one
\* message the running request has not mirrored.
Explained(c) ==
  \/ dirty[c] /\ ~InFlight(c)
  \/ indexed_version[c] = NoVersion
  \/ MissedSince(c)
  \/ \A m \in Messages :
       \/ rows[c][m] = files[c][m]
       \/ InFlight(c) /\ job.step # "unmark" /\ m = job.msg

VersionsOrdered ==
  /\ covered_from <= covered_through
  /\ covered_through <= Settled
  /\ \A c \in Conversations : indexed_version[c] <= Settled

\* Every difference between the index and the files has a reason that makes the
\* next reconciliation scan.
DifferencesAreExplained ==
  /\ VersionsOrdered
  /\ \A c \in Conversations : Explained(c)
  /\ job.step \in MutationSteps => dirty[job.conv]
  /\ job.step = "unmark" => job.owns
  /\ job.step \in {"mirror", "cover"} => version > 0
  /\ job.step \in {"settle", "read"} => rows[job.conv] = files[job.conv]
  /\ PageReadIsCurrent
============================================================================
