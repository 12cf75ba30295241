----------------------------- MODULE BoardIndex -----------------------------
(* The read model of the public board (common_public.py): each post is a JSON   *)
(* file, a disposable SQLite table mirrors the files and serves the feed, and a  *)
(* marker file, written before a post changes, says that the table may be wrong. *)
(*                                                                              *)
(* Requests are tasks of several processes on one data volume. Changes and       *)
(* rebuilds hold the board's file lock; reads hold nothing. What a post says is  *)
(* the number of the write that produced it; CommunityBoard says what requests   *)
(* do to a post. Pages, cursors and the rendering of a record are left out.      *)
EXTENDS Naturals, FiniteSets

CONSTANTS
  Posts,
  Processes,   \* processes that opened the store
  Tasks,       \* requests under way, each in one process
  ProcessOf,
  Threads,     \* tasks of the thread pool, which read; the others are event loops
  PostLimit,   \* BOARD_POST_LIMIT
  MaxWrites,   \* bound on the writes of post files
  MaxFaults    \* bound on crashes, failures and rollbacks

ASSUME BoardIndexAssumption ==
  /\ ProcessOf \in [Tasks -> Processes] /\ Threads \subseteq Tasks
  /\ IsFiniteSet(Tasks) /\ IsFiniteSet(Posts)
  /\ PostLimit \in Nat /\ MaxWrites \in Nat /\ MaxFaults \in Nat

VARIABLES
  files,   \* board/<id>.json: the write that produced it, 0 for no file
  table,   \* board-index.sqlite3: "good", "missing" or "corrupt"
  rows,    \* board_posts: the write each row mirrors, 0 for no row
  dirty,   \* board-index.dirty exists
  ready,   \* _board_index_ready of each process
  task,    \* where each request is and what it holds
  writes,  \* writes so far
  faults,  \* faults so far
  (* history of the run, read by no action *)
  during,     \* what each post said at some moment of the task
  undermined  \* the table was emptied under a reader or a process that trusts it

vars == <<files, table, rows, dirty, ready, task, writes, faults, during, undermined>>

---------------------------------------------------------------------------
Nothing == [p \in Posts |-> 0]
NeverRead == [p \in Posts |-> {}]
Idle == [step |-> "idle", op |-> "read", post |-> {}, owns |-> FALSE,
         page |-> Nothing, todo |-> {}]
Changes == {"store", "change", "delete"}
Exist(f) == {p \in Posts : f[p] > 0}

(* A task in one of these steps holds _board_index_lock of its process. *)
IndexSteps == {"wait", "scan", "rescan", "unmark", "trust"}
(* A task in one of these steps holds the board's file lock. *)
LockedSteps == {"scan", "rescan", "unmark", "write", "mirror", "finish"}
InIndexLock(q) == \E t \in Tasks : ProcessOf[t] = q /\ task[t].step \in IndexSteps
LockFree == \A t \in Tasks : task[t].step \notin LockedSteps

Go(t, s) == task' = [task EXCEPT ![t].step = s]
AfterEnsure(t) == IF task[t].op = "read" THEN "query" ELSE "enter"
End(t) == task' = [task EXCEPT ![t] = Idle]
Fault == faults < MaxFaults /\ faults' = faults + 1
Distrust(q) == ready' = [ready EXCEPT ![q] = FALSE]
(* Removing the marker may fail and leave it. *)
Unmark == dirty' \in {FALSE, dirty}

Init ==
  /\ files = Nothing /\ rows = Nothing
  /\ table = "missing" /\ dirty = FALSE
  /\ ready = [q \in Processes |-> FALSE]
  /\ task = [t \in Tasks |-> Idle]
  /\ writes = 0 /\ faults = 0
  /\ during = [t \in Tasks |-> NeverRead]
  /\ undermined = FALSE

---------------------------------------------------------------------------
(* A request arrives: get_board reads the feed on a thread; the handlers that store, *)
(* change or delete a post run on the event loop of their process, one at a time.    *)
Begin(t) ==
  /\ task[t].step = "idle"
  /\ \/ /\ t \in Threads
        /\ task' = [task EXCEPT ![t].step = "ensure"]
        /\ during' = [during EXCEPT ![t] = [p \in Posts |-> {files[p]}]]
     \/ /\ t \notin Threads
        /\ writes + Cardinality({u \in Tasks : task[u].op \in Changes}) < MaxWrites
        /\ \E o \in Changes, p \in Posts :
             task' = [task EXCEPT ![t] = [@ EXCEPT !.step = "ensure", !.op = o, !.post = {p}]]
        /\ UNCHANGED during
  /\ UNCHANGED <<files, table, rows, dirty, ready, writes, faults, undermined>>

(* _ensure_board_index: nothing to do, or this task takes the process's lock. *)

\* Mutant: the marker is not looked at.
Trusts_Ready(q) == ready[q]

Trusts(q) == ready[q] /\ ~dirty

EnsurePasses(t) ==
  /\ task[t].step = "ensure" /\ Trusts(ProcessOf[t])
  /\ Go(t, AfterEnsure(t))
  /\ UNCHANGED <<files, table, rows, dirty, ready, writes, faults, during, undermined>>

EnsureLocks(t) ==
  /\ task[t].step = "ensure" /\ ~Trusts(ProcessOf[t])
  /\ ~InIndexLock(ProcessOf[t])
  /\ Go(t, "wait")
  /\ UNCHANGED <<files, table, rows, dirty, ready, writes, faults, during, undermined>>

Reconcile(t) ==
  /\ task[t].step = "wait" /\ LockFree
  /\ Go(t, "scan")
  /\ UNCHANGED <<files, table, rows, dirty, ready, writes, faults, during, undermined>>

(* CREATE TABLE commits by itself, before the rows are inserted. *)
CreateTable(t) ==
  /\ task[t].step \in {"scan", "rescan"} /\ table = "missing"
  /\ table' = "good" /\ rows' = Nothing
  /\ undermined' = \/ undermined
                    \/ \E u \in Tasks : task[u].step \in {"query", "trust"}
                    \/ /\ ~dirty
                       /\ \E q \in Processes : ready[q]
  /\ UNCHANGED <<files, dirty, ready, task, writes, faults, during>>

(* The scan of the files commits as one transaction. *)
ImportFiles(t) ==
  /\ task[t].step \in {"scan", "rescan"} /\ table = "good"
  /\ rows' = files
  /\ Go(t, "unmark")
  /\ UNCHANGED <<files, table, dirty, ready, writes, faults, during, undermined>>

(* A first failure discards the index and scans once more. *)
Discard(t) ==
  /\ task[t].step = "scan"
  /\ \/ table = "corrupt" /\ UNCHANGED faults
     \/ Fault
  /\ table' = "missing" /\ rows' = Nothing
  /\ Go(t, "rescan")
  /\ UNCHANGED <<files, dirty, ready, writes, during, undermined>>

(* A second failure reaches the caller: a read turns to the files, a change goes on. *)
ReconcileFails(t) ==
  /\ task[t].step = "rescan"
  /\ \/ table = "corrupt" /\ UNCHANGED faults
     \/ Fault
  /\ Distrust(ProcessOf[t])
  /\ task' = [task EXCEPT ![t] =
       IF @.op = "read" THEN [@ EXCEPT !.step = "files", !.todo = Posts]
                        ELSE [@ EXCEPT !.step = "enter"]]
  /\ UNCHANGED <<files, table, rows, dirty, writes, during, undermined>>

ClearAfterReconcile(t) ==
  /\ task[t].step = "unmark"
  /\ Unmark
  /\ Go(t, "trust")
  /\ UNCHANGED <<files, table, rows, ready, writes, faults, during, undermined>>

(* Outside the file lock. *)
BecomeReady(t) ==
  /\ task[t].step = "trust"
  /\ ready' = [ready EXCEPT ![ProcessOf[t]] = TRUE]
  /\ Go(t, AfterEnsure(t))
  /\ UNCHANGED <<files, table, rows, dirty, writes, faults, during, undermined>>

---------------------------------------------------------------------------
(* read_board: a page from the table, or from the files when the index fails. *)
Query(t) ==
  /\ task[t].step = "query" /\ table = "good"
  /\ task' = [task EXCEPT ![t] = [@ EXCEPT !.step = "answer", !.page = rows]]
  /\ UNCHANGED <<files, table, rows, dirty, ready, writes, faults, during, undermined>>

QueryFails(t) ==
  /\ task[t].step = "query"
  /\ \/ table # "good" /\ UNCHANGED faults
     \/ Fault
  /\ Distrust(ProcessOf[t])
  /\ task' = [task EXCEPT ![t] = [@ EXCEPT !.step = "files", !.todo = Posts]]
  /\ UNCHANGED <<files, table, rows, dirty, writes, during, undermined>>

(* _read_board_files reads the files one after the other, without the lock. *)
ReadFile(t) ==
  /\ task[t].step = "files"
  /\ \E p \in task[t].todo :
       LET page == [task[t].page EXCEPT ![p] = files[p]]
           rest == task[t].todo \ {p}
           next == IF rest = {} THEN "answer" ELSE "files"
       IN  task' = [task EXCEPT ![t] = [@ EXCEPT !.page = page, !.todo = rest, !.step = next]]
  /\ UNCHANGED <<files, table, rows, dirty, ready, writes, faults, during, undermined>>

Answer(t) ==
  /\ task[t].step = "answer"
  /\ End(t)
  /\ during' = [during EXCEPT ![t] = NeverRead]
  /\ UNCHANGED <<files, table, rows, dirty, ready, writes, faults, undermined>>

---------------------------------------------------------------------------
\* Mutant: every writer takes the marker for its own.
OwnsMarker_Always == TRUE

(* A marker left by an earlier change is not this one's to remove. *)
OwnsMarker == ~dirty

(* A change takes the file lock, decides, and marks the index before it writes. *)
Mark(t) ==
  /\ task' = [task EXCEPT ![t] = [@ EXCEPT !.step = "write", !.owns = OwnsMarker]]
  /\ dirty' = TRUE

\* Mutant: the marker does not keep the board from counting rows.
Counted_Rows(q) == IF ready[q] /\ table = "good" THEN Cardinality(Exist(rows))
                                                 ELSE Cardinality(Exist(files))

(* _board_count: the table's count is used only while it is trusted. *)
Counted(q) == IF Trusts(q) /\ table = "good" THEN Cardinality(Exist(rows))
                                             ELSE Cardinality(Exist(files))

StoreEnters(t) ==
  /\ task[t].step = "enter" /\ task[t].op = "store" /\ LockFree
  /\ LET q == ProcessOf[t] IN
       IF \E p \in task[t].post : files[p] > 0
       THEN End(t) /\ UNCHANGED <<dirty, ready>>   \* a retry of the stored post
       ELSE /\ IF Trusts(q) /\ table # "good" THEN Distrust(q) ELSE UNCHANGED ready
            /\ IF Counted(q) >= PostLimit THEN End(t) /\ UNCHANGED dirty ELSE Mark(t)
  /\ UNCHANGED <<files, table, rows, writes, faults, during, undermined>>

ChangeEnters(t) ==
  /\ task[t].step = "enter" /\ task[t].op \in {"change", "delete"} /\ LockFree
  /\ IF \A p \in task[t].post : files[p] = 0
     THEN End(t) /\ UNCHANGED dirty
     ELSE Mark(t)
  /\ UNCHANGED <<files, table, rows, ready, writes, faults, during, undermined>>

\* Mutant: the write is counted twice.
Written_Twice(t) == IF task[t].op = "delete" THEN 0 ELSE writes + 2

Written(t) == IF task[t].op = "delete" THEN 0 ELSE writes + 1

WriteFile(t) ==
  /\ task[t].step = "write"
  /\ writes' = writes + 1
  /\ files' = [p \in Posts |-> IF p \in task[t].post THEN Written(t) ELSE files[p]]
  /\ during' = [u \in Tasks |-> [p \in Posts |->
       IF during[u][p] = {} THEN {} ELSE during[u][p] \cup {files'[p]}]]
  /\ Go(t, "mirror")
  /\ UNCHANGED <<table, rows, dirty, ready, faults, undermined>>

WriteFails(t) ==
  /\ task[t].step = "write"
  /\ Fault
  /\ End(t)
  /\ UNCHANGED <<files, table, rows, dirty, ready, writes, during, undermined>>

\* Mutant: a marker of its own goes whether or not the row was mirrored.
EndChange_Unmark(t, mirrored) == IF task[t].owns THEN Go(t, "finish") ELSE End(t)

(* Otherwise the marker stays, and the next request of any process rebuilds the table. *)
EndChange(t, mirrored) == IF mirrored /\ task[t].owns THEN Go(t, "finish") ELSE End(t)

(* _refresh_board_index, _remove_from_board_index *)
Mirror(t) ==
  /\ task[t].step = "mirror" /\ ready[ProcessOf[t]] /\ table = "good"
  /\ rows' = [p \in Posts |-> IF p \in task[t].post THEN files[p] ELSE rows[p]]
  /\ EndChange(t, TRUE)
  /\ UNCHANGED <<files, table, dirty, ready, writes, faults, during, undermined>>

MirrorFails(t) ==
  /\ task[t].step = "mirror"
  /\ \/ (~ready[ProcessOf[t]] \/ table # "good") /\ UNCHANGED faults
     \/ Fault
  /\ Distrust(ProcessOf[t])
  /\ EndChange(t, FALSE)
  /\ UNCHANGED <<files, table, rows, dirty, writes, during, undermined>>

Finish(t) ==
  /\ task[t].step = "finish"
  /\ Unmark
  /\ End(t)
  /\ UNCHANGED <<files, table, rows, ready, writes, faults, during, undermined>>

---------------------------------------------------------------------------
Stop(Q) ==
  /\ task' = [t \in Tasks |-> IF ProcessOf[t] \in Q THEN Idle ELSE task[t]]
  /\ during' = [t \in Tasks |-> IF ProcessOf[t] \in Q THEN NeverRead ELSE during[t]]
  /\ ready' = [q \in Processes |-> q \notin Q /\ ready[q]]

(* A process dies, which releases its locks, and starts again. *)
Crash(q) ==
  /\ Fault
  /\ Stop({q})
  /\ UNCHANGED <<files, table, rows, dirty, writes, undermined>>

(* The container is rolled back to a release without an index, which stores or *)
(* removes a post, and forward again.                                          *)
FileOnlyRelease ==
  /\ Fault /\ writes < MaxWrites
  /\ writes' = writes + 1
  /\ \E p \in Posts, stamp \in {0, writes + 1} : files' = [files EXCEPT ![p] = stamp]
  /\ Cardinality(Exist(files')) <= PostLimit
  /\ Stop(Processes)
  /\ UNCHANGED <<table, rows, dirty, undermined>>

(* The index file is damaged or removed under the service. *)
Damage ==
  /\ Fault
  /\ table = "good" /\ table' \in {"missing", "corrupt"}
  /\ rows' = Nothing
  /\ UNCHANGED <<files, dirty, ready, task, writes, during, undermined>>

---------------------------------------------------------------------------
Ensure(t) == EnsurePasses(t) \/ EnsureLocks(t) \/ Reconcile(t) \/ CreateTable(t) \/ ImportFiles(t)
  \/ Discard(t) \/ ReconcileFails(t) \/ ClearAfterReconcile(t) \/ BecomeReady(t)
Read(t) == Query(t) \/ QueryFails(t) \/ ReadFile(t) \/ Answer(t)
Change(t) == StoreEnters(t) \/ ChangeEnters(t) \/ WriteFile(t) \/ WriteFails(t)
  \/ Mirror(t) \/ MirrorFails(t) \/ Finish(t)
Environment == (\E q \in Processes : Crash(q)) \/ FileOnlyRelease \/ Damage

Next == Environment \/ \E t \in Tasks : Begin(t) \/ Ensure(t) \/ Read(t) \/ Change(t)

Spec == Init /\ [][Next]_vars

---------------------------------------------------------------------------
Stamps == 0..MaxWrites
Steps == IndexSteps \cup LockedSteps \cup {"idle", "ensure", "query", "enter", "files", "answer"}
Request == [step : Steps, op : Changes \cup {"read"}, post : SUBSET Posts, owns : BOOLEAN,
            page : [Posts -> Stamps], todo : SUBSET Posts]
TypeOK ==
  /\ files \in [Posts -> Stamps] /\ rows \in [Posts -> Stamps]
  /\ table \in {"good", "missing", "corrupt"} /\ dirty \in BOOLEAN /\ undermined \in BOOLEAN
  /\ ready \in [Processes -> BOOLEAN]
  /\ writes \in Stamps /\ faults \in 0..MaxFaults
  /\ during \in [Tasks -> [Posts -> SUBSET Stamps]]
  /\ task \in [Tasks -> Request]

(* read_board: every post a reader is shown, or not shown, is as its file was at a   *)
(* moment of the request. A change that was answered before the request is therefore *)
(* in it, whichever process made the change and whatever failed or crashed in between.*)
ReadsAreCurrent == \A t \in Tasks : task[t].step = "answer" =>
  \A p \in Posts : task[t].page[p] \in during[t][p]

(* As above, but for the one gap of the code: a table that is created anew while    *)
(* others still count on the index is visible, empty, before it is filled.          *)
ReadsAreCurrentUnlessUndermined == undermined \/ ReadsAreCurrent

(* _board_index_dirty, _board_index_ready: a row that differs from its file is       *)
(* announced by the marker, or no process trusts the table, or the process that does *)
(* not yet hold it is the one rebuilding it; nothing is forgotten.                   *)
DifferencesAreAnnounced == undermined \/ rows = files \/ dirty \/ table # "good"
  \/ \A q \in Processes : ~ready[q]

(* BOARD_POST_LIMIT is checked against the count of the index when it is trusted and *)
(* of the files otherwise; neither lets the board grow past the limit.               *)
WithinLimit == undermined \/ Cardinality(Exist(files)) <= PostLimit
=============================================================================
