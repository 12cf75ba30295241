-------------------------- MODULE BoardIndexProofs --------------------------
(* What TLAPS proves of BoardIndex, for any posts, processes, requests and       *)
(* bounds: the types, that a stale table is announced, and that the feed is      *)
(* current and the board within its limit unless a table was created under       *)
(* those who trust it.                                                           *)
EXTENDS BoardIndex, FiniteSetTheorems, TLAPS

---------------------------------------------------------------------------
(* What kind of request is at what step.                                        *)
ReaderSteps == {"query", "files", "answer"}
WriterSteps == {"enter", "write", "mirror", "finish"}
Fits(r) ==
  /\ r.step \in ReaderSteps => r.op = "read"
  /\ r.step \in WriterSteps => r.op \in Changes
  /\ r.step = "idle" => r.op = "read"
StepsFit == \A t \in Tasks : Fits(task[t])

(* A change under way counts against the bound until it has written.            *)
Owes(r) == r.op \in Changes /\ r.step \notin {"mirror", "finish"}
Unwritten == {t \in Tasks : Owes(task[t])}
WithinBudget == writes + Cardinality(Unwritten) <= MaxWrites

(* The board's file lock.                                                       *)
MutualExclusion == \A t, u \in Tasks :
  task[t].step \in LockedSteps /\ task[u].step \in LockedSteps => t = u

(* The table counts: a process trusts it, or is about to.                       *)
Relied == (\E q \in Processes : ready[q]) \/ (\E t \in Tasks : task[t].step = "trust")
Sound == rows = files \/ table # "good" \/ ~Relied

(* Where each difference between table and files is remembered.                 *)
Announced == undermined \/ Sound \/ dirty
Remembers(t) ==
  /\ task[t].step \in {"write", "mirror"} => dirty
  /\ task[t].step = "unmark" => undermined \/ rows = files \/ table # "good"
  /\ task[t].step = "finish" => undermined \/ Sound
  /\ task[t].step = "write" /\ task[t].owns => undermined \/ Sound
  /\ task[t].step = "mirror" /\ task[t].owns =>
       \/ undermined \/ table # "good" \/ ~Relied
       \/ \A p \in Posts \ task[t].post : rows[p] = files[p]

(* What a reader has, or is about to read, is as its file was during the request.*)
Reads(t) == task[t].op = "read" /\ task[t].step # "idle"
WasSo(t, f) == \A p \in Posts : f[p] \in during[t][p]
Current(t) ==
  /\ Reads(t) => WasSo(t, files)
  /\ Reads(t) /\ task[t].step \in {"unmark", "trust", "query"} =>
       undermined \/ table # "good" \/ WasSo(t, rows)
  /\ task[t].step = "files" => \A p \in Posts \ task[t].todo : task[t].page[p] \in during[t][p]
  /\ task[t].step = "answer" => undermined \/ WasSo(t, task[t].page)

TInv == TypeOK /\ StepsFit /\ WithinBudget
AInv == TInv /\ MutualExclusion /\ Announced /\ \A t \in Tasks : Remembers(t)
IInv == AInv /\ \A t \in Tasks : Current(t)

---------------------------------------------------------------------------
(* Types.                                                                       *)

LEMMA IdleTyped == Nothing \in [Posts -> Stamps] /\ Idle \in Request
BY BoardIndexAssumption DEF Nothing, Idle, Request, Stamps, Steps

LEMMA AfterEnsureTyped ==
  ASSUME task \in [Tasks -> Request], NEW t \in Tasks
  PROVE  /\ AfterEnsure(t) \in Steps
         /\ task[t].op = "read" => AfterEnsure(t) = "query"
         /\ task[t].op # "read" => AfterEnsure(t) = "enter" /\ task[t].op \in Changes
BY DEF AfterEnsure, Steps, Request

\* A request that moves to another step keeps everything else.
LEMMA GoTyped ==
  ASSUME task \in [Tasks -> Request], NEW t \in Tasks, NEW s \in Steps, Go(t, s)
  PROVE  /\ task' \in [Tasks -> Request]
         /\ task'[t].step = s
         /\ task'[t].op = task[t].op /\ task'[t].post = task[t].post
         /\ task'[t].owns = task[t].owns /\ task'[t].page = task[t].page
         /\ task'[t].todo = task[t].todo
         /\ \A u \in Tasks : u # t => task'[u] = task[u]
BY DEF Go, Request

LEMMA EndTyped ==
  ASSUME task \in [Tasks -> Request], NEW t \in Tasks, End(t)
  PROVE  /\ task' \in [Tasks -> Request]
         /\ task'[t] = Idle
         /\ \A u \in Tasks : u # t => task'[u] = task[u]
BY IdleTyped DEF End

LEMMA PutTyped ==
  ASSUME task \in [Tasks -> Request], NEW t \in Tasks, NEW r \in Request,
         task' = [task EXCEPT ![t] = r]
  PROVE  /\ task' \in [Tasks -> Request] /\ task'[t] = r
         /\ \A u \in Tasks : u # t => task'[u] = task[u]
OBVIOUS

LEMMA StopTyped ==
  ASSUME TypeOK, NEW Q \in SUBSET Processes, Stop(Q)
  PROVE  /\ task' \in [Tasks -> Request]
         /\ during' \in [Tasks -> [Posts -> SUBSET Stamps]]
         /\ ready' \in [Processes -> BOOLEAN]
         /\ \A t \in Tasks : \/ task'[t] = Idle
                             \/ task'[t] = task[t] /\ during'[t] = during[t]
         /\ \A q \in Processes : ready'[q] => ready[q]
<1>1. task' \in [Tasks -> Request]
  BY IdleTyped DEF Stop, TypeOK
<1>2. NeverRead \in [Posts -> SUBSET Stamps]
  BY DEF NeverRead
<1>3. during' \in [Tasks -> [Posts -> SUBSET Stamps]]
  BY <1>2 DEF Stop, TypeOK
<1>4. ready' \in [Processes -> BOOLEAN] /\ \A q \in Processes : ready'[q] => ready[q]
  BY DEF Stop, TypeOK
<1>5. \A t \in Tasks : \/ task'[t] = Idle
                       \/ task'[t] = task[t] /\ during'[t] = during[t]
  BY DEF Stop, TypeOK
<1>6. QED
  BY <1>1, <1>3, <1>4, <1>5

LEMMA FaultTyped == faults \in 0..MaxFaults /\ Fault => faults' \in 0..MaxFaults
BY BoardIndexAssumption DEF Fault


\* Without a write, the bound is kept by a step after which no more changes are due.
LEMMA BudgetKept ==
  ASSUME WithinBudget, task \in [Tasks -> Request], writes \in Nat, writes' = writes,
         \A t \in Tasks : Owes(task'[t]) => Owes(task[t])
  PROVE  WithinBudget'
<1>1. Unwritten' \subseteq Unwritten
  BY DEF Unwritten
<1>2. IsFiniteSet(Unwritten)
  BY BoardIndexAssumption, FS_Subset DEF Unwritten
<1>3. Cardinality(Unwritten') <= Cardinality(Unwritten)
  BY <1>1, <1>2, FS_Subset
<1>4. Cardinality(Unwritten) \in Nat /\ Cardinality(Unwritten') \in Nat
  BY <1>1, <1>2, FS_Subset, FS_CardinalityType
<1>5. QED
  BY <1>3, <1>4, BoardIndexAssumption DEF WithinBudget

\* One request moves.
LEMMA MoveKept ==
  ASSUME TInv, writes' = writes, NEW t \in Tasks,
         \A u \in Tasks : u # t => task'[u] = task[u],
         Fits(task'[t]), Owes(task'[t]) => Owes(task[t])
  PROVE  StepsFit' /\ WithinBudget'
<1>1. StepsFit'
  BY DEF TInv, StepsFit
<1>2. writes \in Nat
  BY BoardIndexAssumption DEF TInv, TypeOK, Stamps
<1>3. QED
  BY <1>1, <1>2, BudgetKept DEF TInv, TypeOK

LEMMA IdleFits == Fits(Idle) /\ ~Owes(Idle) /\ Idle.step = "idle"
BY DEF Fits, Owes, Idle, ReaderSteps, WriterSteps, Changes


(* Every action keeps the types and the bound. *)

LEMMA TypeEnsurePasses ==
  ASSUME TInv, NEW t \in Tasks, EnsurePasses(t)
  PROVE  TInv'
<1> USE DEF TInv
<1>1. AfterEnsure(t) \in Steps /\ Go(t, AfterEnsure(t))
  BY AfterEnsureTyped DEF EnsurePasses, TypeOK
<1>2. /\ task' \in [Tasks -> Request]
      /\ \A u \in Tasks : u # t => task'[u] = task[u]
      /\ task'[t].step = AfterEnsure(t) /\ task'[t].op = task[t].op
  BY <1>1, GoTyped DEF TypeOK
<1>3. Fits(task'[t]) /\ (Owes(task'[t]) => Owes(task[t]))
  BY <1>2, AfterEnsureTyped DEF EnsurePasses, TypeOK, Fits, Owes, ReaderSteps, WriterSteps, Changes
<1>4. TypeOK'
  BY <1>2 DEF EnsurePasses, TypeOK
<1>5. QED
  BY <1>2, <1>3, <1>4, MoveKept DEF EnsurePasses

LEMMA TypeEnsureLocks ==
  ASSUME TInv, NEW t \in Tasks, EnsureLocks(t)
  PROVE  TInv'
<1> USE DEF TInv
<1>1. /\ task' \in [Tasks -> Request]
      /\ \A u \in Tasks : u # t => task'[u] = task[u]
      /\ Fits(task'[t])
      /\ Owes(task'[t]) => Owes(task[t])
  BY GoTyped DEF EnsureLocks, TypeOK, Steps, IndexSteps, LockedSteps, Fits, Owes, ReaderSteps, WriterSteps, Changes, StepsFit
<1>2. TypeOK'
  BY <1>1, GoTyped DEF EnsureLocks, TypeOK
<1>3. QED
  BY <1>1, <1>2, MoveKept DEF EnsureLocks

LEMMA TypeReconcile ==
  ASSUME TInv, NEW t \in Tasks, Reconcile(t)
  PROVE  TInv'
<1> USE DEF TInv
<1>1. /\ task' \in [Tasks -> Request]
      /\ \A u \in Tasks : u # t => task'[u] = task[u]
      /\ Fits(task'[t])
      /\ Owes(task'[t]) => Owes(task[t])
  BY GoTyped DEF Reconcile, TypeOK, Steps, IndexSteps, LockedSteps, Fits, Owes, ReaderSteps, WriterSteps, Changes, StepsFit
<1>2. TypeOK'
  BY <1>1, GoTyped DEF Reconcile, TypeOK
<1>3. QED
  BY <1>1, <1>2, MoveKept DEF Reconcile

LEMMA TypeCreateTable ==
  ASSUME TInv, NEW t \in Tasks, CreateTable(t)
  PROVE  TInv'
<1>1. TypeOK'
  BY IdleTyped DEF TInv, CreateTable, TypeOK
<1>2. QED
  BY <1>1, BudgetKept DEF TInv, CreateTable, TypeOK, StepsFit, WithinBudget, Unwritten

LEMMA TypeImportFiles ==
  ASSUME TInv, NEW t \in Tasks, ImportFiles(t)
  PROVE  TInv'
<1> USE DEF TInv
<1>1. /\ task' \in [Tasks -> Request]
      /\ \A u \in Tasks : u # t => task'[u] = task[u]
      /\ Fits(task'[t])
      /\ Owes(task'[t]) => Owes(task[t])
  BY GoTyped DEF ImportFiles, TypeOK, Steps, IndexSteps, LockedSteps, Fits, Owes, ReaderSteps, WriterSteps, Changes, StepsFit
<1>2. TypeOK'
  BY <1>1, GoTyped DEF ImportFiles, TypeOK
<1>3. QED
  BY <1>1, <1>2, MoveKept DEF ImportFiles

LEMMA TypeDiscard ==
  ASSUME TInv, NEW t \in Tasks, Discard(t)
  PROVE  TInv'
<1> USE DEF TInv
<1>1. /\ task' \in [Tasks -> Request]
      /\ \A u \in Tasks : u # t => task'[u] = task[u]
      /\ Fits(task'[t])
      /\ Owes(task'[t]) => Owes(task[t])
  BY GoTyped, FaultTyped, IdleTyped DEF Discard, TypeOK, Steps, IndexSteps, LockedSteps, Fits, Owes, ReaderSteps, WriterSteps, Changes, StepsFit
<1>2. TypeOK'
  BY <1>1, GoTyped, FaultTyped, IdleTyped DEF Discard, TypeOK
<1>3. QED
  BY <1>1, <1>2, MoveKept DEF Discard

LEMMA TypeReconcileFails ==
  ASSUME TInv, NEW t \in Tasks, ReconcileFails(t)
  PROVE  TInv'
<1> USE DEF TInv
<1> DEFINE r == IF task[t].op = "read" THEN [task[t] EXCEPT !.step = "files", !.todo = Posts]
                                       ELSE [task[t] EXCEPT !.step = "enter"]
<1>1. /\ r \in Request /\ r.op = task[t].op
      /\ r.step = IF task[t].op = "read" THEN "files" ELSE "enter"
  BY DEF TypeOK, Request, Steps
<1>2. task' = [task EXCEPT ![t] = r]
  BY DEF ReconcileFails
<1>3. /\ task' \in [Tasks -> Request] /\ task'[t] = r
      /\ \A u \in Tasks : u # t => task'[u] = task[u]
  BY <1>1, <1>2, PutTyped DEF TypeOK
<1>4. task[t].op \in Changes \cup {"read"}
  BY DEF TypeOK, Request
<1>5. Fits(r) /\ (Owes(r) => Owes(task[t]))
  BY <1>1, <1>4 DEF ReconcileFails, Fits, Owes, ReaderSteps, WriterSteps, Changes
<1>6. TypeOK'
  BY <1>3, FaultTyped DEF ReconcileFails, TypeOK, Distrust
<1>7. QED
  BY <1>3, <1>5, <1>6, MoveKept DEF ReconcileFails

LEMMA TypeClearAfterReconcile ==
  ASSUME TInv, NEW t \in Tasks, ClearAfterReconcile(t)
  PROVE  TInv'
<1> USE DEF TInv
<1>1. /\ task' \in [Tasks -> Request]
      /\ \A u \in Tasks : u # t => task'[u] = task[u]
      /\ Fits(task'[t])
      /\ Owes(task'[t]) => Owes(task[t])
  BY GoTyped DEF ClearAfterReconcile, TypeOK, Steps, IndexSteps, LockedSteps, Fits, Owes, ReaderSteps, WriterSteps, Changes, StepsFit
<1>2. TypeOK'
  BY <1>1, GoTyped DEF ClearAfterReconcile, TypeOK, Unmark
<1>3. QED
  BY <1>1, <1>2, MoveKept DEF ClearAfterReconcile

LEMMA TypeBecomeReady ==
  ASSUME TInv, NEW t \in Tasks, BecomeReady(t)
  PROVE  TInv'
<1> USE DEF TInv
<1>1. AfterEnsure(t) \in Steps /\ Go(t, AfterEnsure(t))
  BY AfterEnsureTyped DEF BecomeReady, TypeOK
<1>2. /\ task' \in [Tasks -> Request]
      /\ \A u \in Tasks : u # t => task'[u] = task[u]
      /\ task'[t].step = AfterEnsure(t) /\ task'[t].op = task[t].op
  BY <1>1, GoTyped DEF TypeOK
<1>3. Fits(task'[t]) /\ (Owes(task'[t]) => Owes(task[t]))
  BY <1>2, AfterEnsureTyped DEF BecomeReady, TypeOK, Fits, Owes, ReaderSteps, WriterSteps, Changes
<1>4. TypeOK'
  BY <1>2 DEF BecomeReady, TypeOK
<1>5. QED
  BY <1>2, <1>3, <1>4, MoveKept DEF BecomeReady

LEMMA TypeQuery ==
  ASSUME TInv, NEW t \in Tasks, Query(t)
  PROVE  TInv'
<1> USE DEF TInv
<1> DEFINE r == [task[t] EXCEPT !.step = "answer", !.page = rows]
<1>1. r \in Request /\ r.step = "answer" /\ r.op = task[t].op
  BY IdleTyped DEF TypeOK, Request, Steps
<1>2. task' = [task EXCEPT ![t] = r]
  BY DEF Query
<1>3. /\ task' \in [Tasks -> Request] /\ task'[t] = r
      /\ \A u \in Tasks : u # t => task'[u] = task[u]
  BY <1>1, <1>2, PutTyped DEF TypeOK
<1>4. Fits(r) /\ (Owes(r) => Owes(task[t]))
  BY <1>1 DEF Query, Fits, Owes, ReaderSteps, WriterSteps, Changes, StepsFit
<1>5. TypeOK'
  BY <1>3 DEF Query, TypeOK
<1>6. QED
  BY <1>3, <1>4, <1>5, MoveKept DEF Query

LEMMA TypeQueryFails ==
  ASSUME TInv, NEW t \in Tasks, QueryFails(t)
  PROVE  TInv'
<1> USE DEF TInv
<1> DEFINE r == [task[t] EXCEPT !.step = "files", !.todo = Posts]
<1>1. r \in Request /\ r.step = "files" /\ r.op = task[t].op
  BY IdleTyped DEF TypeOK, Request, Steps
<1>2. task' = [task EXCEPT ![t] = r]
  BY DEF QueryFails
<1>3. /\ task' \in [Tasks -> Request] /\ task'[t] = r
      /\ \A u \in Tasks : u # t => task'[u] = task[u]
  BY <1>1, <1>2, PutTyped DEF TypeOK
<1>4. Fits(r) /\ (Owes(r) => Owes(task[t]))
  BY <1>1 DEF QueryFails, Fits, Owes, ReaderSteps, WriterSteps, Changes, StepsFit
<1>5. TypeOK'
  BY <1>3, FaultTyped DEF QueryFails, TypeOK, Distrust
<1>6. QED
  BY <1>3, <1>4, <1>5, MoveKept DEF QueryFails

LEMMA TypeReadFile ==
  ASSUME TInv, NEW t \in Tasks, ReadFile(t)
  PROVE  TInv'
<1> USE DEF TInv
<1> DEFINE page(p) == [task[t].page EXCEPT ![p] = files[p]]
           rest(p) == task[t].todo \ {p}
           next(p) == IF rest(p) = {} THEN "answer" ELSE "files"
           r(p) == [task[t] EXCEPT !.page = page(p), !.todo = rest(p), !.step = next(p)]
<1>1. PICK p \in task[t].todo : task' = [task EXCEPT ![t] = r(p)]
  BY DEF ReadFile
<1>2. p \in Posts /\ task[t] \in Request
  BY DEF TypeOK, Request
<1>3. /\ page(p) \in [Posts -> Stamps] /\ rest(p) \in SUBSET Posts
      /\ next(p) \in Steps /\ next(p) \in {"answer", "files"}
  BY <1>2 DEF TypeOK, Request, Steps
<1>4. r(p) \in Request /\ r(p).op = task[t].op /\ r(p).step = next(p)
  <2> HIDE DEF page, rest, next
  <2>1. QED
    BY <1>2, <1>3 DEF Request
<1> HIDE DEF r
<1>5. /\ task' \in [Tasks -> Request] /\ task'[t] = r(p)
      /\ \A u \in Tasks : u # t => task'[u] = task[u]
  BY <1>1, <1>4, PutTyped DEF TypeOK
<1>6. Fits(r(p)) /\ (Owes(r(p)) => Owes(task[t]))
  BY <1>3, <1>4 DEF ReadFile, Fits, Owes, ReaderSteps, WriterSteps, Changes, StepsFit
<1>7. TypeOK'
  BY <1>5 DEF ReadFile, TypeOK
<1>8. QED
  BY <1>5, <1>6, <1>7, MoveKept DEF ReadFile

LEMMA NeverReadTyped == NeverRead \in [Posts -> SUBSET Stamps]
BY DEF NeverRead

LEMMA TypeAnswer ==
  ASSUME TInv, NEW t \in Tasks, Answer(t)
  PROVE  TInv'
<1> USE DEF TInv
<1>1. /\ task' \in [Tasks -> Request] /\ task'[t] = Idle
      /\ \A u \in Tasks : u # t => task'[u] = task[u]
  BY EndTyped DEF Answer, TypeOK
<1>2. TypeOK'
  BY <1>1, NeverReadTyped DEF Answer, TypeOK
<1>3. QED
  BY <1>1, <1>2, IdleFits, MoveKept DEF Answer

LEMMA MarkTyped ==
  ASSUME TInv, NEW t \in Tasks, Mark(t), task[t].step = "enter"
  PROVE  /\ task' \in [Tasks -> Request]
         /\ \A u \in Tasks : u # t => task'[u] = task[u]
         /\ task'[t].step = "write" /\ task'[t].owns = ~dirty
         /\ task'[t].op = task[t].op /\ task'[t].post = task[t].post
         /\ Fits(task'[t]) /\ (Owes(task'[t]) => Owes(task[t]))
<1> USE DEF TInv
<1> DEFINE r == [task[t] EXCEPT !.step = "write", !.owns = OwnsMarker]
<1>1. OwnsMarker \in BOOLEAN /\ OwnsMarker = ~dirty
  BY DEF OwnsMarker, TypeOK
<1>2. /\ r \in Request /\ r.step = "write" /\ r.owns = ~dirty
      /\ r.op = task[t].op /\ r.post = task[t].post
  BY <1>1 DEF TypeOK, Request, Steps, LockedSteps
<1>3. /\ task' \in [Tasks -> Request] /\ task'[t] = r
      /\ \A u \in Tasks : u # t => task'[u] = task[u]
  BY <1>2, PutTyped DEF TypeOK, Mark
<1>4. Fits(r) /\ (Owes(r) => Owes(task[t]))
  BY <1>2 DEF Fits, Owes, ReaderSteps, WriterSteps, Changes, StepsFit
<1>5. QED
  BY <1>2, <1>3, <1>4

LEMMA TypeStoreEnters ==
  ASSUME TInv, NEW t \in Tasks, StoreEnters(t)
  PROVE  TInv'
<1> USE DEF TInv
<1>1. Mark(t) \/ End(t)
  BY DEF StoreEnters
<1>2. dirty' \in BOOLEAN /\ ready' \in [Processes -> BOOLEAN]
  BY DEF StoreEnters, Mark, TypeOK, Distrust
<1>3. /\ task' \in [Tasks -> Request]
      /\ \A u \in Tasks : u # t => task'[u] = task[u]
      /\ Fits(task'[t]) /\ (Owes(task'[t]) => Owes(task[t]))
  BY <1>1, MarkTyped, EndTyped, IdleFits DEF StoreEnters, TypeOK
<1>4. TypeOK'
  BY <1>2, <1>3 DEF StoreEnters, TypeOK
<1>5. QED
  BY <1>3, <1>4, MoveKept DEF StoreEnters

LEMMA TypeChangeEnters ==
  ASSUME TInv, NEW t \in Tasks, ChangeEnters(t)
  PROVE  TInv'
<1> USE DEF TInv
<1>1. Mark(t) \/ End(t)
  BY DEF ChangeEnters
<1>2. dirty' \in BOOLEAN
  BY DEF ChangeEnters, Mark, TypeOK
<1>3. /\ task' \in [Tasks -> Request]
      /\ \A u \in Tasks : u # t => task'[u] = task[u]
      /\ Fits(task'[t]) /\ (Owes(task'[t]) => Owes(task[t]))
  BY <1>1, MarkTyped, EndTyped, IdleFits DEF ChangeEnters, TypeOK
<1>4. TypeOK'
  BY <1>2, <1>3 DEF ChangeEnters, TypeOK
<1>5. QED
  BY <1>3, <1>4, MoveKept DEF ChangeEnters

\* The one write of a change uses up what the change counted for.
LEMMA TypeWriteFile ==
  ASSUME TInv, NEW t \in Tasks, WriteFile(t)
  PROVE  TInv'
<1> USE DEF TInv
<1>1. /\ task' \in [Tasks -> Request]
      /\ task'[t].step = "mirror" /\ task'[t].op = task[t].op
      /\ \A u \in Tasks : u # t => task'[u] = task[u]
  BY GoTyped DEF WriteFile, TypeOK, Steps, LockedSteps
<1>2. Owes(task[t]) /\ ~Owes(task'[t]) /\ Fits(task'[t])
  BY <1>1 DEF WriteFile, Fits, Owes, ReaderSteps, WriterSteps, Changes, StepsFit
<1>3. IsFiniteSet(Unwritten) /\ t \in Unwritten
  BY <1>2, BoardIndexAssumption, FS_Subset DEF Unwritten
<1>4. Unwritten' = Unwritten \ {t}
  BY <1>1, <1>2 DEF Unwritten
<1>5. /\ Cardinality(Unwritten') = Cardinality(Unwritten) - 1
      /\ Cardinality(Unwritten) \in Nat /\ Cardinality(Unwritten') \in Nat
  BY <1>3, <1>4, FS_RemoveElement, FS_CardinalityType, FS_Subset
<1>6. writes \in Nat /\ writes' = writes + 1 /\ MaxWrites \in Nat
  BY BoardIndexAssumption DEF WriteFile, TypeOK, Stamps
<1>7. WithinBudget' /\ writes' \in Stamps
  BY <1>5, <1>6 DEF WithinBudget, Stamps
<1>8. Written(t) \in Stamps
  BY <1>6, <1>7 DEF Written, Stamps
<1>9. files' \in [Posts -> Stamps]
  BY <1>8 DEF WriteFile, TypeOK
<1>10. during' \in [Tasks -> [Posts -> SUBSET Stamps]]
  BY <1>9 DEF WriteFile, TypeOK
<1>11. TypeOK'
  BY <1>1, <1>7, <1>9, <1>10 DEF WriteFile, TypeOK
<1>12. StepsFit'
  BY <1>1, <1>2 DEF StepsFit
<1>13. QED
  BY <1>7, <1>11, <1>12

LEMMA TypeWriteFails ==
  ASSUME TInv, NEW t \in Tasks, WriteFails(t)
  PROVE  TInv'
<1> USE DEF TInv
<1>1. /\ task' \in [Tasks -> Request] /\ task'[t] = Idle
      /\ \A u \in Tasks : u # t => task'[u] = task[u]
  BY EndTyped DEF WriteFails, TypeOK
<1>2. TypeOK'
  BY <1>1, FaultTyped DEF WriteFails, TypeOK
<1>3. QED
  BY <1>1, <1>2, IdleFits, MoveKept DEF WriteFails

LEMMA EndChangeTyped ==
  ASSUME TInv, NEW t \in Tasks, NEW mirrored \in BOOLEAN, EndChange(t, mirrored),
         task[t].step = "mirror"
  PROVE  /\ task' \in [Tasks -> Request]
         /\ \A u \in Tasks : u # t => task'[u] = task[u]
         /\ \/ task'[t] = Idle
            \/ task'[t].step = "finish" /\ task[t].owns /\ mirrored
         /\ Fits(task'[t]) /\ (Owes(task'[t]) => Owes(task[t]))
<1> USE DEF TInv
<1>1. CASE mirrored /\ task[t].owns
  <2>1. Go(t, "finish")
    BY <1>1 DEF EndChange
  <2>2. /\ task' \in [Tasks -> Request] /\ task'[t].step = "finish" /\ task'[t].op = task[t].op
        /\ \A u \in Tasks : u # t => task'[u] = task[u]
    BY <2>1, GoTyped DEF TypeOK, Steps, LockedSteps
  <2>3. QED
    BY <1>1, <2>2 DEF StepsFit, Fits, Owes, ReaderSteps, WriterSteps, Changes
<1>2. CASE ~(mirrored /\ task[t].owns)
  BY <1>2, EndTyped, IdleFits DEF EndChange, TypeOK
<1>3. QED
  BY <1>1, <1>2

LEMMA TypeMirror ==
  ASSUME TInv, NEW t \in Tasks, Mirror(t)
  PROVE  TInv'
<1> USE DEF TInv
<1>1. /\ task' \in [Tasks -> Request]
      /\ \A u \in Tasks : u # t => task'[u] = task[u]
      /\ Fits(task'[t]) /\ (Owes(task'[t]) => Owes(task[t]))
  BY EndChangeTyped DEF Mirror
<1>2. TypeOK'
  BY <1>1 DEF Mirror, TypeOK
<1>3. QED
  BY <1>1, <1>2, MoveKept DEF Mirror

LEMMA TypeMirrorFails ==
  ASSUME TInv, NEW t \in Tasks, MirrorFails(t)
  PROVE  TInv'
<1> USE DEF TInv
<1>1. /\ task' \in [Tasks -> Request]
      /\ \A u \in Tasks : u # t => task'[u] = task[u]
      /\ Fits(task'[t]) /\ (Owes(task'[t]) => Owes(task[t]))
  BY EndChangeTyped DEF MirrorFails
<1>2. TypeOK'
  BY <1>1, FaultTyped DEF MirrorFails, TypeOK, Distrust
<1>3. QED
  BY <1>1, <1>2, MoveKept DEF MirrorFails

LEMMA TypeFinish ==
  ASSUME TInv, NEW t \in Tasks, Finish(t)
  PROVE  TInv'
<1> USE DEF TInv
<1>1. /\ task' \in [Tasks -> Request] /\ task'[t] = Idle
      /\ \A u \in Tasks : u # t => task'[u] = task[u]
  BY EndTyped DEF Finish, TypeOK
<1>2. TypeOK'
  BY <1>1 DEF Finish, TypeOK, Unmark
<1>3. QED
  BY <1>1, <1>2, IdleFits, MoveKept DEF Finish

LEMMA TypeBegin ==
  ASSUME TInv, NEW t \in Tasks, Begin(t)
  PROVE  TInv'
<1> USE DEF TInv
<1>1. CASE t \in Threads
  <2> DEFINE r == [task[t] EXCEPT !.step = "ensure"]
  <2>1. task[t].op = "read" /\ task[t] \in Request
    BY DEF Begin, StepsFit, Fits, TypeOK
  <2>2. r \in Request /\ r.op = "read" /\ r.step = "ensure"
    BY <2>1 DEF Request, Steps
  <2>3. task' = [task EXCEPT ![t] = r]
    BY <1>1 DEF Begin
  <2>4. /\ task' \in [Tasks -> Request] /\ task'[t] = r
        /\ \A u \in Tasks : u # t => task'[u] = task[u]
    BY <2>2, <2>3, PutTyped DEF TypeOK
  <2>5. Fits(r) /\ ~Owes(r)
    BY <2>2 DEF Fits, Owes, ReaderSteps, WriterSteps, Changes
  <2>6. during' \in [Tasks -> [Posts -> SUBSET Stamps]]
    <3>1. during' = [during EXCEPT ![t] = [p \in Posts |-> {files[p]}]]
      BY <1>1 DEF Begin
    <3>2. [p \in Posts |-> {files[p]}] \in [Posts -> SUBSET Stamps]
      BY DEF TypeOK
    <3>3. QED
      BY <3>1, <3>2 DEF TypeOK
  <2>7. TypeOK'
    BY <2>4, <2>6 DEF Begin, TypeOK
  <2>8. QED
    BY <2>4, <2>5, <2>7, MoveKept DEF Begin
<1>2. CASE t \notin Threads
  <2> DEFINE r(o, p) == [task[t] EXCEPT !.step = "ensure", !.op = o, !.post = {p}]
             G == {u \in Tasks : task[u].op \in Changes}
  <2>1. PICK o \in Changes, p \in Posts : task' = [task EXCEPT ![t] = r(o, p)]
    BY <1>2 DEF Begin
  <2>2. r(o, p) \in Request /\ r(o, p).op = o /\ r(o, p).step = "ensure"
    BY DEF TypeOK, Request, Steps
  <2>3. /\ task' \in [Tasks -> Request] /\ task'[t] = r(o, p)
        /\ \A u \in Tasks : u # t => task'[u] = task[u]
    BY <2>1, <2>2, PutTyped DEF TypeOK
  <2>4. Fits(r(o, p))
    BY <2>2 DEF Fits, ReaderSteps, WriterSteps
  <2>5. StepsFit'
    BY <2>3, <2>4 DEF StepsFit
  <2>6. TypeOK'
    BY <1>2, <2>3 DEF Begin, TypeOK
  <2>7. writes \in Nat /\ MaxWrites \in Nat /\ writes' = writes
    <3>1. writes' = writes
      BY DEF Begin
    <3>2. writes \in Nat /\ MaxWrites \in Nat
      BY BoardIndexAssumption DEF TypeOK, Stamps
    <3>3. QED
      BY <3>1, <3>2
  <2>8. IsFiniteSet(G) /\ Cardinality(G) \in Nat /\ writes + Cardinality(G) < MaxWrites
    <3>1. writes + Cardinality(G) < MaxWrites
      BY <1>2 DEF Begin
    <3>2. G \in SUBSET Tasks /\ IsFiniteSet(Tasks)
      BY BoardIndexAssumption
    <3> HIDE DEF G
    <3>3. IsFiniteSet(G)
      BY <3>2, FS_Subset
    <3>4. QED
      BY <3>1, <3>3, FS_CardinalityType
  <2>9. IsFiniteSet(G \cup {t}) /\ Cardinality(G \cup {t}) <= Cardinality(G) + 1
    <3> HIDE DEF G
    <3>1. /\ IsFiniteSet(G \cup {t})
          /\ Cardinality(G \cup {t}) = IF t \in G THEN Cardinality(G) ELSE Cardinality(G) + 1
      BY <2>8, FS_AddElement
    <3>2. QED
      BY <2>8, <3>1
  <2>10. Unwritten' \subseteq G \cup {t}
    BY <2>3 DEF Unwritten, Owes
  <2>11. Cardinality(Unwritten') <= Cardinality(G) + 1 /\ Cardinality(Unwritten') \in Nat
    BY <2>8, <2>9, <2>10, FS_Subset, FS_CardinalityType
  <2>12. WithinBudget'
    <3> HIDE DEF G
    <3>1. QED
      BY <2>7, <2>8, <2>11 DEF WithinBudget
  <2>13. QED
    BY <2>5, <2>6, <2>12
<1>3. QED
  BY <1>1, <1>2

LEMMA TypeCrash ==
  ASSUME TInv, NEW q \in Processes, Crash(q)
  PROVE  TInv'
<1> USE DEF TInv
<1>1. /\ task' \in [Tasks -> Request]
      /\ during' \in [Tasks -> [Posts -> SUBSET Stamps]]
      /\ ready' \in [Processes -> BOOLEAN]
      /\ \A t \in Tasks : task'[t] = Idle \/ task'[t] = task[t]
  BY StopTyped DEF Crash
<1>2. TypeOK'
  BY <1>1, FaultTyped DEF Crash, TypeOK
<1>3. StepsFit'
  BY <1>1, IdleFits DEF StepsFit
<1>4. writes \in Nat
  BY BoardIndexAssumption DEF TypeOK, Stamps
<1>5. WithinBudget'
  BY <1>1, <1>4, IdleFits, BudgetKept DEF Crash, TypeOK
<1>6. QED
  BY <1>2, <1>3, <1>5

\* A rollback ends every request of every process.
LEMMA AllStopped ==
  ASSUME TypeOK, Stop(Processes)
  PROVE  /\ task' = [t \in Tasks |-> Idle]
         /\ ready' = [q \in Processes |-> FALSE]
BY BoardIndexAssumption DEF Stop, TypeOK

LEMMA TypeFileOnlyRelease ==
  ASSUME TInv, FileOnlyRelease
  PROVE  TInv'
<1> USE DEF TInv
<1>1. /\ task' \in [Tasks -> Request]
      /\ during' \in [Tasks -> [Posts -> SUBSET Stamps]]
      /\ ready' \in [Processes -> BOOLEAN]
  BY StopTyped DEF FileOnlyRelease
<1>2. \A t \in Tasks : task'[t] = Idle
  BY AllStopped DEF FileOnlyRelease
<1>3. writes' = writes + 1 /\ writes' \in Stamps /\ 0 \in Stamps
  BY BoardIndexAssumption DEF FileOnlyRelease, TypeOK, Stamps
<1>4. files' \in [Posts -> Stamps]
  BY <1>3 DEF FileOnlyRelease, TypeOK
<1>5. TypeOK'
  BY <1>1, <1>3, <1>4, FaultTyped DEF FileOnlyRelease, TypeOK
<1>6. StepsFit'
  BY <1>2, IdleFits DEF StepsFit
<1>7. Unwritten' = {}
  BY <1>2, IdleFits DEF Unwritten
<1>8. WithinBudget'
  BY <1>3, <1>7, FS_EmptySet, BoardIndexAssumption DEF WithinBudget, Stamps
<1>9. QED
  BY <1>5, <1>6, <1>8

LEMMA TypeDamage ==
  ASSUME TInv, Damage
  PROVE  TInv'
<1> USE DEF TInv
<1>1. TypeOK'
  BY IdleTyped, FaultTyped DEF Damage, TypeOK
<1>2. StepsFit' /\ WithinBudget'
  BY DEF Damage, StepsFit, WithinBudget, Unwritten
<1>3. QED
  BY <1>1, <1>2

LEMMA TypeInit == Init => TInv
<1> SUFFICES ASSUME Init PROVE TInv
  OBVIOUS
<1>1. TypeOK
  <2>1. 0 \in Stamps /\ 0 \in 0..MaxFaults
    BY BoardIndexAssumption DEF Stamps
  <2>2. task \in [Tasks -> Request] /\ during \in [Tasks -> [Posts -> SUBSET Stamps]]
    BY IdleTyped, NeverReadTyped DEF Init
  <2>3. QED
    BY <2>1, <2>2, IdleTyped DEF Init, TypeOK
<1>2. \A t \in Tasks : task[t] = Idle
  BY DEF Init
<1>3. StepsFit
  BY <1>2, IdleFits DEF StepsFit
<1>4. Unwritten = {}
  BY <1>2, IdleFits DEF Unwritten
<1>5. WithinBudget
  BY <1>4, FS_EmptySet, BoardIndexAssumption DEF Init, WithinBudget
<1>6. QED
  BY <1>1, <1>3, <1>5 DEF TInv

LEMMA TypeStep == TInv /\ [Next]_vars => TInv'
<1> SUFFICES ASSUME TInv, [Next]_vars PROVE TInv'
  OBVIOUS
<1>1. ASSUME NEW t \in Tasks, Begin(t) PROVE TInv'
  BY <1>1, TypeBegin
<1>2. ASSUME NEW t \in Tasks, Ensure(t) PROVE TInv'
  BY <1>2, TypeEnsurePasses, TypeEnsureLocks, TypeReconcile, TypeCreateTable, TypeImportFiles,
     TypeDiscard, TypeReconcileFails, TypeClearAfterReconcile, TypeBecomeReady DEF Ensure
<1>3. ASSUME NEW t \in Tasks, Read(t) PROVE TInv'
  BY <1>3, TypeQuery, TypeQueryFails, TypeReadFile, TypeAnswer DEF Read
<1>4. ASSUME NEW t \in Tasks, Change(t) PROVE TInv'
  BY <1>4, TypeStoreEnters, TypeChangeEnters, TypeWriteFile, TypeWriteFails, TypeMirror,
     TypeMirrorFails, TypeFinish DEF Change
<1>5. CASE Environment
  BY <1>5, TypeCrash, TypeFileOnlyRelease, TypeDamage DEF Environment
<1>6. CASE UNCHANGED vars
  BY <1>6 DEF vars, TInv, TypeOK, StepsFit, WithinBudget, Unwritten
<1>7. QED
  BY <1>1, <1>2, <1>3, <1>4, <1>5, <1>6 DEF Next

\* TypeOK of BoardIndex: files, table, marker, processes and requests stay what they
\* are, and no more is written than the bound allows.
THEOREM TypeCorrect == Spec => []TypeOK
<1>1. TInv => TypeOK
  BY DEF TInv
<1>2. QED
  BY <1>1, TypeInit, TypeStep, PTL DEF Spec

---------------------------------------------------------------------------
(* What differs between table and files is announced.                           *)

LEMMA ReliedKept ==
  ASSUME NEW t \in Tasks,
         \A u \in Tasks : u # t => task'[u] = task[u],
         task'[t].step = "trust" => task[t].step \in {"unmark", "trust"},
         \A q \in Processes : ready'[q] => ready[q],
         task[t].step # "unmark"
  PROVE  Relied' => Relied
BY DEF Relied

\* A request moves, and table and files stay: the others remember what they did.
LEMMA RequestMoves ==
  ASSUME AInv, TInv', NEW t \in Tasks,
         \A u \in Tasks : u # t => task'[u] = task[u],
         files' = files, rows' = rows, table' = table, undermined' = undermined,
         dirty => dirty', Relied' => Relied,
         task'[t].step \in LockedSteps => task[t].step \in LockedSteps \/ LockFree,
         Remembers(t)'
  PROVE  AInv'
<1>1. MutualExclusion'
  BY DEF AInv, MutualExclusion, LockFree
<1>2. Sound => Sound'
  BY DEF Sound
<1>3. Announced'
  BY <1>2 DEF AInv, Announced
<1>4. \A u \in Tasks : u # t => Remembers(u)'
  BY <1>2 DEF AInv, Remembers
<1>5. QED
  BY <1>1, <1>3, <1>4 DEF AInv

\* The holder of the file lock moves: nobody else has anything to remember.
LEMMA HolderMoves ==
  ASSUME AInv, TInv', NEW t \in Tasks,
         \A u \in Tasks : u # t => task'[u] = task[u],
         task[t].step \in LockedSteps,
         Announced', Remembers(t)'
  PROVE  AInv'
<1>1. MutualExclusion'
  BY DEF AInv, MutualExclusion
<1>2. \A u \in Tasks : u # t => task'[u].step \notin LockedSteps
  BY DEF AInv, MutualExclusion
<1>3. \A u \in Tasks : u # t => Remembers(u)'
  BY <1>2 DEF Remembers, LockedSteps
<1>4. QED
  BY <1>1, <1>3 DEF AInv

\* Steps at which nothing need be remembered.
Quiet == {"idle", "ensure", "wait", "scan", "rescan", "trust", "query", "enter", "files", "answer"}

LEMMA QuietRemembers ==
  ASSUME NEW t \in Tasks, task'[t].step \in Quiet
  PROVE  Remembers(t)'
BY DEF Quiet, Remembers

LEMMA AnnounceBegin ==
  ASSUME AInv, TInv', NEW t \in Tasks, Begin(t)
  PROVE  AInv'
<1>1. \A u \in Tasks : u # t => task'[u] = task[u]
  BY DEF Begin, AInv, TInv, TypeOK
<1>2. task'[t].step = "ensure" /\ task[t].step = "idle"
  <2>1. task[t] \in Request
    BY DEF AInv, TInv, TypeOK
  <2>2. task[t].step = "idle" /\ task \in [Tasks -> Request]
    BY DEF Begin, AInv, TInv, TypeOK
  <2>3. CASE t \in Threads
    BY <2>1, <2>2, <2>3 DEF Begin, Request
  <2>4. CASE t \notin Threads
    <3>1. PICK o \in Changes, p \in Posts : task'[t] =
            [task[t] EXCEPT !.step = "ensure", !.op = o, !.post = {p}]
      BY <2>2, <2>4 DEF Begin
    <3>2. QED
      BY <2>1, <2>2, <3>1 DEF Request
  <2>5. QED
    BY <2>3, <2>4
<1>3. UNCHANGED <<files, rows, table, dirty, ready, undermined>>
  BY DEF Begin
<1>4. Relied' => Relied
  BY <1>1, <1>2, <1>3, ReliedKept
<1>5. QED
  BY <1>1, <1>2, <1>3, <1>4, QuietRemembers, RequestMoves DEF Quiet, LockedSteps

LEMMA AnnounceEnsurePasses ==
  ASSUME AInv, TInv', NEW t \in Tasks, EnsurePasses(t)
  PROVE  AInv'
<1>1. /\ \A u \in Tasks : u # t => task'[u] = task[u]
      /\ task'[t].step \in {"query", "enter"} /\ task[t].step = "ensure"
  BY GoTyped, AfterEnsureTyped DEF EnsurePasses, AInv, TInv, TypeOK, AfterEnsure
<1>2. UNCHANGED <<files, rows, table, dirty, ready, undermined>>
  BY DEF EnsurePasses
<1>3. Relied' => Relied
  BY <1>1, <1>2, ReliedKept
<1>4. QED
  BY <1>1, <1>2, <1>3, QuietRemembers, RequestMoves DEF Quiet, LockedSteps

LEMMA AnnounceEnsureLocks ==
  ASSUME AInv, TInv', NEW t \in Tasks, EnsureLocks(t)
  PROVE  AInv'
<1>1. /\ \A u \in Tasks : u # t => task'[u] = task[u]
      /\ task'[t].step = "wait" /\ task[t].step = "ensure"
  BY GoTyped DEF EnsureLocks, AInv, TInv, TypeOK, Steps, IndexSteps
<1>2. UNCHANGED <<files, rows, table, dirty, ready, undermined>>
  BY DEF EnsureLocks
<1>3. Relied' => Relied
  BY <1>1, <1>2, ReliedKept
<1>4. QED
  BY <1>1, <1>2, <1>3, QuietRemembers, RequestMoves DEF Quiet, LockedSteps

LEMMA AnnounceReconcile ==
  ASSUME AInv, TInv', NEW t \in Tasks, Reconcile(t)
  PROVE  AInv'
<1>1. /\ \A u \in Tasks : u # t => task'[u] = task[u]
      /\ task'[t].step = "scan" /\ task[t].step = "wait"
  BY GoTyped DEF Reconcile, AInv, TInv, TypeOK, Steps, IndexSteps
<1>2. UNCHANGED <<files, rows, table, dirty, ready, undermined>> /\ LockFree
  BY DEF Reconcile
<1>3. Relied' => Relied
  BY <1>1, <1>2, ReliedKept
<1>4. QED
  BY <1>1, <1>2, <1>3, QuietRemembers, RequestMoves DEF Quiet

\* The table is created under the lock: either the marker stands, or nobody counts on
\* the table, or it is undermined.
LEMMA AnnounceCreateTable ==
  ASSUME AInv, TInv', NEW t \in Tasks, CreateTable(t)
  PROVE  AInv'
<1>1. /\ \A u \in Tasks : u # t => task'[u] = task[u]
      /\ task'[t].step \in {"scan", "rescan"} /\ task[t].step \in LockedSteps
  BY DEF CreateTable, LockedSteps
<1>2. Relied' => undermined' \/ dirty'
  BY DEF CreateTable, Relied
<1>3. Announced'
  BY <1>2 DEF Announced, Sound
<1>4. QED
  BY <1>1, <1>3, QuietRemembers, HolderMoves DEF Quiet

LEMMA AnnounceImportFiles ==
  ASSUME AInv, TInv', NEW t \in Tasks, ImportFiles(t)
  PROVE  AInv'
<1>1. /\ \A u \in Tasks : u # t => task'[u] = task[u]
      /\ task'[t].step = "unmark" /\ task[t].step \in LockedSteps
  BY GoTyped DEF ImportFiles, AInv, TInv, TypeOK, Steps, IndexSteps, LockedSteps
<1>2. rows' = files'
  BY DEF ImportFiles
<1>3. Announced' /\ Remembers(t)'
  BY <1>1, <1>2 DEF Announced, Sound, Remembers
<1>4. QED
  BY <1>1, <1>3, HolderMoves

LEMMA AnnounceDiscard ==
  ASSUME AInv, TInv', NEW t \in Tasks, Discard(t)
  PROVE  AInv'
<1>1. /\ \A u \in Tasks : u # t => task'[u] = task[u]
      /\ task'[t].step = "rescan" /\ task[t].step \in LockedSteps
  BY GoTyped DEF Discard, AInv, TInv, TypeOK, Steps, LockedSteps
<1>2. table' = "missing"
  BY DEF Discard
<1>3. Announced'
  BY <1>2 DEF Announced, Sound
<1>4. QED
  BY <1>1, <1>3, QuietRemembers, HolderMoves DEF Quiet

LEMMA AnnounceReconcileFails ==
  ASSUME AInv, TInv', NEW t \in Tasks, ReconcileFails(t)
  PROVE  AInv'
<1>1. \A u \in Tasks : u # t => task'[u] = task[u]
  BY DEF ReconcileFails, AInv, TInv, TypeOK
<1>2. task'[t].step \in {"files", "enter"} /\ task[t].step = "rescan"
  <2>1. task[t] \in Request
    BY DEF AInv, TInv, TypeOK
  <2>2. QED
    BY <2>1 DEF ReconcileFails, AInv, TInv, TypeOK, Request
<1>3. /\ UNCHANGED <<files, rows, table, dirty, undermined>>
      /\ \A q \in Processes : ready'[q] => ready[q]
  BY DEF ReconcileFails, Distrust, AInv, TInv, TypeOK
<1>4. Relied' => Relied
  BY <1>1, <1>2, <1>3, ReliedKept
<1>5. QED
  BY <1>1, <1>2, <1>3, <1>4, QuietRemembers, RequestMoves DEF Quiet, LockedSteps

\* The rebuilt table is as the files, so the marker may go.
LEMMA AnnounceClearAfterReconcile ==
  ASSUME AInv, TInv', NEW t \in Tasks, ClearAfterReconcile(t)
  PROVE  AInv'
<1>1. /\ \A u \in Tasks : u # t => task'[u] = task[u]
      /\ task'[t].step = "trust" /\ task[t].step \in LockedSteps
  BY GoTyped DEF ClearAfterReconcile, AInv, TInv, TypeOK, Steps, IndexSteps, LockedSteps
<1>2. undermined \/ rows = files \/ table # "good"
  BY DEF ClearAfterReconcile, AInv, Remembers
<1>3. UNCHANGED <<files, rows, table, undermined>>
  BY DEF ClearAfterReconcile
<1>4. Announced'
  BY <1>2, <1>3 DEF Announced, Sound
<1>5. QED
  BY <1>1, <1>4, QuietRemembers, HolderMoves DEF Quiet

LEMMA AnnounceBecomeReady ==
  ASSUME AInv, TInv', NEW t \in Tasks, BecomeReady(t)
  PROVE  AInv'
<1>1. /\ \A u \in Tasks : u # t => task'[u] = task[u]
      /\ task'[t].step \in {"query", "enter"} /\ task[t].step = "trust"
  BY GoTyped, AfterEnsureTyped DEF BecomeReady, AInv, TInv, TypeOK, AfterEnsure
<1>2. UNCHANGED <<files, rows, table, dirty, undermined>>
  BY DEF BecomeReady
<1>3. Relied
  BY <1>1 DEF Relied
<1>4. QED
  BY <1>1, <1>2, <1>3, QuietRemembers, RequestMoves DEF Quiet, LockedSteps

LEMMA AnnounceRead ==
  ASSUME AInv, TInv', NEW t \in Tasks, Read(t)
  PROVE  AInv'
<1>1. task[t] \in Request /\ task \in [Tasks -> Request]
  BY DEF AInv, TInv, TypeOK
<1>2. \A u \in Tasks : u # t => task'[u] = task[u]
  BY <1>1 DEF Read, Query, QueryFails, ReadFile, Answer, End
<1>3. task'[t].step \in {"answer", "files", "idle"}
  <2>1. CASE Query(t) \/ QueryFails(t)
    BY <1>1, <2>1, ZenonT(60) DEF Query, QueryFails, Request
  <2>2. CASE ReadFile(t)
    <3>1. PICK p \in task[t].todo : task'[t] = [task[t] EXCEPT
            !.page = [task[t].page EXCEPT ![p] = files[p]], !.todo = task[t].todo \ {p},
            !.step = IF task[t].todo \ {p} = {} THEN "answer" ELSE "files"]
      BY <1>1, <2>2 DEF ReadFile
    <3>2. QED
      BY <1>1, <3>1 DEF Request
  <2>3. CASE Answer(t)
    BY <1>1, <2>3, EndTyped, IdleFits DEF Answer
  <2>4. QED
    BY <2>1, <2>2, <2>3 DEF Read
<1>4. /\ UNCHANGED <<files, rows, table, dirty, undermined>>
      /\ \A q \in Processes : ready'[q] => ready[q]
  BY DEF Read, Query, QueryFails, ReadFile, Answer, Distrust, AInv, TInv, TypeOK
<1>5. task[t].step \in {"query", "files", "answer"}
  BY DEF Read, Query, QueryFails, ReadFile, Answer
<1>6. Relied' => Relied
  BY <1>2, <1>3, <1>4, <1>5, ReliedKept
<1>7. QED
  BY <1>2, <1>3, <1>4, <1>6, QuietRemembers, RequestMoves DEF Quiet, LockedSteps

\* A change that marks the index owns the marker only if nothing was announced before.
LEMMA AnnounceEnters ==
  ASSUME AInv, TInv', NEW t \in Tasks, StoreEnters(t) \/ ChangeEnters(t)
  PROVE  AInv'
<1>1. /\ task[t].step = "enter" /\ LockFree
      /\ UNCHANGED <<files, rows, table, undermined>>
      /\ \A q \in Processes : ready'[q] => ready[q]
  BY DEF StoreEnters, ChangeEnters, Distrust, AInv, TInv, TypeOK
<1>2. CASE End(t) /\ dirty' = dirty
  <2>1. /\ \A u \in Tasks : u # t => task'[u] = task[u]
        /\ task'[t].step = "idle"
    BY <1>2, EndTyped, IdleFits DEF AInv, TInv, TypeOK
  <2>2. Relied' => Relied
    BY <1>1, <2>1, ReliedKept
  <2>3. QED
    BY <1>1, <1>2, <2>1, <2>2, QuietRemembers, RequestMoves DEF Quiet
<1>3. CASE Mark(t)
  <2>1. /\ \A u \in Tasks : u # t => task'[u] = task[u]
        /\ task'[t].step = "write" /\ task'[t].owns = ~dirty
    BY <1>1, <1>3, MarkTyped DEF AInv
  <2>2. Relied' => Relied
    BY <1>1, <2>1, ReliedKept
  <2>3. Sound => Sound'
    BY <1>1, <2>2 DEF Sound
  <2>4. dirty' /\ (~dirty => undermined' \/ Sound')
    BY <1>1, <1>3, <2>3 DEF Mark, AInv, Announced
  <2>5. Remembers(t)'
    BY <2>1, <2>4 DEF Remembers
  <2>6. QED
    BY <1>1, <2>1, <2>2, <2>4, <2>5, RequestMoves
<1>4. QED
  BY <1>2, <1>3 DEF StoreEnters, ChangeEnters

\* The file differs from its row from here on: the marker was set before.
LEMMA AnnounceWriteFile ==
  ASSUME AInv, TInv', NEW t \in Tasks, WriteFile(t)
  PROVE  AInv'
<1>1. /\ \A u \in Tasks : u # t => task'[u] = task[u]
      /\ task'[t].step = "mirror" /\ task[t].step = "write" /\ task[t].step \in LockedSteps
      /\ task'[t].owns = task[t].owns /\ task'[t].post = task[t].post
  BY GoTyped DEF WriteFile, AInv, TInv, TypeOK, Steps, LockedSteps
<1>2. UNCHANGED <<rows, table, ready, dirty, undermined>>
  BY DEF WriteFile
<1>3. dirty'
  BY <1>1, <1>2 DEF AInv, Remembers
<1>4. Relied' => Relied
  BY <1>1, <1>2, ReliedKept
<1>5. \A p \in Posts \ task[t].post : files'[p] = files[p]
  BY DEF WriteFile
<1>6. ASSUME task[t].owns, ~undermined', table' = "good", Relied'
      PROVE  \A p \in Posts \ task'[t].post : rows'[p] = files'[p]
  <2>1. rows = files
    BY <1>1, <1>2, <1>4, <1>6 DEF AInv, Remembers, Sound
  <2>2. QED
    BY <1>1, <1>2, <1>5, <2>1
<1>7. Remembers(t)'
  BY <1>1, <1>3, <1>6 DEF Remembers
<1>8. QED
  BY <1>1, <1>3, <1>7, HolderMoves DEF Announced

LEMMA AnnounceWriteFails ==
  ASSUME AInv, TInv', NEW t \in Tasks, WriteFails(t)
  PROVE  AInv'
<1>1. /\ \A u \in Tasks : u # t => task'[u] = task[u]
      /\ task'[t].step = "idle" /\ task[t].step = "write"
  BY EndTyped, IdleFits DEF WriteFails, AInv, TInv, TypeOK
<1>2. UNCHANGED <<files, rows, table, ready, dirty, undermined>>
  BY DEF WriteFails
<1>3. Relied' => Relied
  BY <1>1, <1>2, ReliedKept
<1>4. QED
  BY <1>1, <1>2, <1>3, QuietRemembers, RequestMoves DEF Quiet, LockedSteps

\* The row of the change is written; the others were as their files, if the marker is
\* its own.
LEMMA AnnounceMirror ==
  ASSUME AInv, TInv', NEW t \in Tasks, Mirror(t)
  PROVE  AInv'
<1>1. /\ \A u \in Tasks : u # t => task'[u] = task[u]
      /\ task'[t] = Idle \/ (task'[t].step = "finish" /\ task[t].owns)
  <2>1. EndChange(t, TRUE) /\ task[t].step = "mirror" /\ TInv
    BY DEF Mirror, AInv
  <2>2. QED
    BY <2>1, EndChangeTyped
<1>2. task[t].step = "mirror" /\ task[t].step \in LockedSteps
  BY DEF Mirror, LockedSteps
<1>3. dirty'
  BY <1>2 DEF Mirror, AInv, Remembers
<1>4. Relied /\ table = "good" /\ undermined' = undermined
  BY BoardIndexAssumption DEF Mirror, Relied
<1>5. ASSUME task[t].owns, ~undermined PROVE rows' = files'
  <2>1. \A p \in Posts \ task[t].post : rows[p] = files[p]
    BY <1>2, <1>4, <1>5 DEF AInv, Remembers
  <2>2. files \in [Posts -> Stamps]
    BY DEF AInv, TInv, TypeOK
  <2>3. QED
    BY <2>1, <2>2 DEF Mirror
<1>6. Remembers(t)'
  BY <1>1, <1>4, <1>5, IdleFits DEF Remembers, Sound
<1>7. QED
  BY <1>1, <1>2, <1>3, <1>6, HolderMoves DEF Announced

LEMMA AnnounceMirrorFails ==
  ASSUME AInv, TInv', NEW t \in Tasks, MirrorFails(t)
  PROVE  AInv'
<1>1. /\ \A u \in Tasks : u # t => task'[u] = task[u]
      /\ task'[t].step = "idle" /\ task[t].step = "mirror"
  BY EndTyped, IdleFits DEF MirrorFails, EndChange, AInv, TInv, TypeOK
<1>2. /\ UNCHANGED <<files, rows, table, dirty, undermined>>
      /\ \A q \in Processes : ready'[q] => ready[q]
  BY DEF MirrorFails, Distrust, AInv, TInv, TypeOK
<1>3. Relied' => Relied
  BY <1>1, <1>2, ReliedKept
<1>4. QED
  BY <1>1, <1>2, <1>3, QuietRemembers, RequestMoves DEF Quiet, LockedSteps

LEMMA AnnounceFinish ==
  ASSUME AInv, TInv', NEW t \in Tasks, Finish(t)
  PROVE  AInv'
<1>1. /\ \A u \in Tasks : u # t => task'[u] = task[u]
      /\ task'[t].step = "idle" /\ task[t].step = "finish" /\ task[t].step \in LockedSteps
  BY EndTyped, IdleFits DEF Finish, AInv, TInv, TypeOK, LockedSteps
<1>2. UNCHANGED <<files, rows, table, ready, undermined>>
  BY DEF Finish
<1>3. Relied' => Relied
  BY <1>1, <1>2, ReliedKept
<1>4. undermined \/ Sound
  BY <1>1 DEF AInv, Remembers
<1>5. Announced'
  BY <1>2, <1>3, <1>4 DEF Announced, Sound
<1>6. QED
  BY <1>1, <1>5, QuietRemembers, HolderMoves DEF Quiet

\* A stop forgets requests and trust, never the marker.
LEMMA AnnounceCrash ==
  ASSUME AInv, TInv', NEW q \in Processes, Crash(q)
  PROVE  AInv'
<1>1. /\ \A t \in Tasks : task'[t] = Idle \/ task'[t] = task[t]
      /\ \A r \in Processes : ready'[r] => ready[r]
  BY StopTyped DEF Crash, AInv, TInv
<1>2. UNCHANGED <<files, rows, table, dirty, undermined>>
  BY DEF Crash
<1>3. Relied' => Relied
  BY <1>1, IdleFits DEF Relied
<1>4. Sound => Sound'
  BY <1>2, <1>3 DEF Sound
<1>5. Announced'
  BY <1>2, <1>4 DEF AInv, Announced
<1>6. MutualExclusion'
  BY <1>1, IdleFits DEF AInv, MutualExclusion, LockedSteps
<1>7. \A t \in Tasks : Remembers(t)'
  <2> SUFFICES ASSUME NEW t \in Tasks PROVE Remembers(t)'
    OBVIOUS
  <2>1. CASE task'[t] = Idle
    BY <2>1, IdleFits, QuietRemembers DEF Quiet
  <2>2. CASE task'[t] = task[t]
    BY <1>2, <1>3, <1>4, <2>2 DEF AInv, Remembers
  <2>3. QED
    BY <1>1, <2>1, <2>2
<1>8. QED
  BY <1>5, <1>6, <1>7 DEF AInv

LEMMA AnnounceFileOnlyRelease ==
  ASSUME AInv, TInv', FileOnlyRelease
  PROVE  AInv'
<1>1. /\ \A t \in Tasks : task'[t].step = "idle"
      /\ \A q \in Processes : ~ready'[q]
  BY AllStopped, IdleFits DEF FileOnlyRelease, AInv, TInv
<1>2. Announced'
  BY <1>1 DEF Announced, Sound, Relied
<1>3. MutualExclusion'
  BY <1>1 DEF MutualExclusion, LockedSteps
<1>4. \A t \in Tasks : Remembers(t)'
  BY <1>1, QuietRemembers DEF Quiet
<1>5. QED
  BY <1>2, <1>3, <1>4 DEF AInv

LEMMA AnnounceDamage ==
  ASSUME AInv, TInv', Damage
  PROVE  AInv'
<1>1. table' # "good" /\ UNCHANGED <<task, dirty>>
  BY DEF Damage
<1>2. Announced'
  BY <1>1 DEF Announced, Sound
<1>3. MutualExclusion'
  BY <1>1 DEF AInv, MutualExclusion
<1>4. \A t \in Tasks : Remembers(t)'
  BY <1>1 DEF AInv, Remembers, Sound
<1>5. QED
  BY <1>2, <1>3, <1>4 DEF AInv

LEMMA AnnounceInit == Init => AInv
<1> SUFFICES ASSUME Init PROVE AInv
  OBVIOUS
<1>1. \A t \in Tasks : task[t] = Idle
  BY DEF Init
<1>2. Announced
  BY DEF Init, Announced, Sound
<1>3. MutualExclusion
  BY <1>1, IdleFits DEF MutualExclusion, LockedSteps
<1>4. \A t \in Tasks : Remembers(t)
  BY <1>1, IdleFits DEF Remembers
<1>5. QED
  BY <1>2, <1>3, <1>4, TypeInit DEF AInv

LEMMA AnnounceStep == AInv /\ [Next]_vars => AInv'
<1> SUFFICES ASSUME AInv, [Next]_vars PROVE AInv'
  OBVIOUS
<1> TInv'
  BY TypeStep DEF AInv
<1>1. ASSUME NEW t \in Tasks, Begin(t) PROVE AInv'
  BY <1>1, AnnounceBegin
<1>2. ASSUME NEW t \in Tasks, Ensure(t) PROVE AInv'
  BY <1>2, AnnounceEnsurePasses, AnnounceEnsureLocks, AnnounceReconcile, AnnounceCreateTable,
     AnnounceImportFiles, AnnounceDiscard, AnnounceReconcileFails, AnnounceClearAfterReconcile,
     AnnounceBecomeReady DEF Ensure
<1>3. ASSUME NEW t \in Tasks, Read(t) PROVE AInv'
  BY <1>3, AnnounceRead
<1>4. ASSUME NEW t \in Tasks, Change(t) PROVE AInv'
  BY <1>4, AnnounceEnters, AnnounceWriteFile, AnnounceWriteFails, AnnounceMirror,
     AnnounceMirrorFails, AnnounceFinish DEF Change
<1>5. CASE Environment
  BY <1>5, AnnounceCrash, AnnounceFileOnlyRelease, AnnounceDamage DEF Environment
<1>6. CASE UNCHANGED vars
  BY <1>6 DEF vars, AInv, MutualExclusion, Announced, Sound, Relied, Remembers
<1>7. QED
  BY <1>1, <1>2, <1>3, <1>4, <1>5, <1>6 DEF Next

\* DifferencesAreAnnounced of BoardIndex: a row that differs from its file is announced
\* by the marker or by the state of the processes, through every crash and failure.
THEOREM DifferencesStayAnnounced == Spec => []DifferencesAreAnnounced
<1>1. AInv => DifferencesAreAnnounced
  BY DEF AInv, Announced, Sound, Relied, DifferencesAreAnnounced
<1>2. QED
  BY <1>1, AnnounceInit, AnnounceStep, PTL DEF Spec

---------------------------------------------------------------------------
(* What readers are shown was so during their request.                          *)

LEMMA NotReading ==
  ASSUME TInv', NEW t \in Tasks, task'[t].step = "idle" \/ task'[t].op # "read"
  PROVE  Current(t)'
<1>1. Fits(task'[t])
  BY DEF TInv, StepsFit
<1>2. task'[t].step \notin {"files", "answer"}
  BY <1>1 DEF Fits, ReaderSteps
<1>3. QED
  BY <1>2 DEF Current, Reads

\* One request moves while the files stay: the other readers keep what they have.
LEMMA OthersKeep ==
  ASSUME IInv, AInv', NEW t \in Tasks,
         \A u \in Tasks : u # t => task'[u] = task[u] /\ during'[u] = during[u],
         files' = files, undermined => undermined',
         \/ table' # "good" \/ undermined'
         \/ rows' = rows /\ table' = table,
         Current(t)'
  PROVE  IInv'
<1>1. ASSUME NEW u \in Tasks, u # t PROVE Current(u)'
  <2>1. task'[u] = task[u] /\ during'[u] = during[u] /\ Current(u)
    BY <1>1 DEF IInv
  <2>2. Reads(u)' = Reads(u) /\ (WasSo(u, files))' = WasSo(u, files)
    BY <2>1 DEF Reads, WasSo
  <2>3. rows' = rows => (WasSo(u, rows))' = WasSo(u, rows)
    BY <2>1 DEF WasSo
  <2>4. (WasSo(u, task[u].page))' = WasSo(u, task[u].page)
    BY <2>1 DEF WasSo
  <2>5. QED
    BY <2>1, <2>2, <2>3, <2>4 DEF Current
<1>2. QED
  BY <1>1 DEF IInv

LEMMA ReaderBegin ==
  ASSUME IInv, AInv', NEW t \in Tasks, Begin(t)
  PROVE  IInv'
<1>1. UNCHANGED <<files, rows, table, undermined>> /\ task[t] \in Request
  BY DEF Begin, IInv, AInv, TInv, TypeOK
<1>2. task \in [Tasks -> Request] /\ during \in [Tasks -> [Posts -> SUBSET Stamps]] /\ TInv'
  BY DEF IInv, AInv, TInv, TypeOK
<1>3. CASE t \in Threads
  <2>1. /\ task' = [task EXCEPT ![t].step = "ensure"]
        /\ during' = [during EXCEPT ![t] = [p \in Posts |-> {files[p]}]]
    BY <1>3 DEF Begin
  <2>2. task'[t].step = "ensure" /\ \A p \in Posts : during'[t][p] = {files[p]}
    BY <1>1, <1>2, <2>1 DEF Request
  <2>3. Current(t)'
    BY <1>1, <2>2 DEF Current, WasSo
  <2>4. \A u \in Tasks : u # t => task'[u] = task[u] /\ during'[u] = during[u]
    BY <1>2, <2>1
  <2>5. QED
    BY <1>1, <2>3, <2>4, OthersKeep
<1>4. CASE t \notin Threads
  <2>1. PICK o \in Changes, p \in Posts : /\ during' = during
          /\ task' = [task EXCEPT ![t] = [task[t] EXCEPT !.step = "ensure", !.op = o, !.post = {p}]]
    BY <1>4 DEF Begin
  <2>2. task'[t].op = o
    BY <1>1, <1>2, <2>1 DEF Request
  <2>3. Current(t)'
    BY <1>2, <2>2, NotReading DEF Changes
  <2>4. \A u \in Tasks : u # t => task'[u] = task[u] /\ during'[u] = during[u]
    BY <1>2, <2>1
  <2>5. QED
    BY <1>1, <2>3, <2>4, OthersKeep
<1>5. QED
  BY <1>3, <1>4

\* A table that is trusted and not announced as wrong is as the files.
LEMMA TrustedTable ==
  ASSUME AInv, NEW q \in Processes, Trusts(q)
  PROVE  undermined \/ table # "good" \/ rows = files
BY DEF AInv, Announced, Sound, Relied, Trusts

LEMMA ReaderEnsurePasses ==
  ASSUME IInv, AInv', NEW t \in Tasks, EnsurePasses(t)
  PROVE  IInv'
<1>1. /\ task'[t].step \in {"query", "enter"} /\ task[t].step = "ensure"
      /\ task'[t].op = task[t].op
      /\ \A u \in Tasks : u # t => task'[u] = task[u] /\ during'[u] = during[u]
  BY GoTyped, AfterEnsureTyped DEF EnsurePasses, IInv, AInv, TInv, TypeOK, AfterEnsure
<1>2. UNCHANGED <<files, rows, table, undermined, during>>
  BY DEF EnsurePasses
<1>3. undermined \/ table # "good" \/ rows = files
  BY TrustedTable, BoardIndexAssumption DEF EnsurePasses, IInv
<1>4. Reads(t)' => WasSo(t, files)
  BY <1>1 DEF IInv, Current, Reads
<1>5. WasSo(t, files) => (WasSo(t, files))' /\ (rows = files => (WasSo(t, rows))')
  BY <1>2 DEF WasSo
<1>6. Current(t)'
  BY <1>1, <1>2, <1>3, <1>4, <1>5 DEF Current
<1>7. QED
  BY <1>1, <1>2, <1>6, OthersKeep

\* A request moves along, its reader on the way to the same table.
LEMMA ReaderWaits ==
  ASSUME IInv, AInv', NEW t \in Tasks, EnsureLocks(t) \/ Reconcile(t)
  PROVE  IInv'
<1>1. /\ task'[t].step \in {"wait", "scan"} /\ task[t].step \in {"ensure", "wait"}
      /\ task'[t].op = task[t].op
      /\ \A u \in Tasks : u # t => task'[u] = task[u] /\ during'[u] = during[u]
  BY GoTyped DEF EnsureLocks, Reconcile, IInv, AInv, TInv, TypeOK, Steps, IndexSteps
<1>2. UNCHANGED <<files, rows, table, undermined, during>>
  BY DEF EnsureLocks, Reconcile
<1>3. Current(t)'
  BY <1>1, <1>2 DEF IInv, Current, Reads, WasSo
<1>4. QED
  BY <1>1, <1>2, <1>3, OthersKeep

\* A reader who is about to read the new table makes it undermined; no other holds the lock.
LEMMA ReaderCreateTable ==
  ASSUME IInv, AInv', NEW t \in Tasks, CreateTable(t)
  PROVE  IInv'
<1>1. UNCHANGED <<files, task, during>> /\ (undermined => undermined')
  BY DEF CreateTable
<1>2. task[t].step \in {"scan", "rescan"}
  BY DEF CreateTable
<1>3. ASSUME NEW u \in Tasks PROVE Current(u)'
  <2>1. task[u].step \in {"trust", "query"} => undermined'
    BY DEF CreateTable
  <2>2. task[u].step # "unmark"
    BY <1>2 DEF IInv, AInv, MutualExclusion, LockedSteps
  <2>3. QED
    BY <1>1, <2>1, <2>2 DEF IInv, Current, Reads, WasSo
<1>4. QED
  BY <1>3 DEF IInv

LEMMA ReaderImportFiles ==
  ASSUME IInv, AInv', NEW t \in Tasks, ImportFiles(t)
  PROVE  IInv'
<1>1. /\ task'[t].step = "unmark" /\ task[t].step \in {"scan", "rescan"}
      /\ task'[t].op = task[t].op
      /\ \A u \in Tasks : u # t => task'[u] = task[u]
  BY GoTyped DEF ImportFiles, IInv, AInv, TInv, TypeOK, Steps, LockedSteps, IndexSteps
<1>2. UNCHANGED <<files, undermined, during>> /\ rows' = files
  BY DEF ImportFiles
<1>3. ASSUME NEW u \in Tasks PROVE Current(u)'
  <2>1. Reads(u)' => WasSo(u, files)
    BY <1>1, <1>3 DEF IInv, Current, Reads
  <2>2. WasSo(u, files) => (WasSo(u, files))' /\ (WasSo(u, rows))'
    BY <1>2 DEF WasSo
  <2>3. CASE u = t
    BY <1>1, <2>1, <2>2, <2>3 DEF Current
  <2>4. CASE u # t
    BY <1>1, <1>2, <2>1, <2>2, <2>4 DEF IInv, Current, WasSo
  <2>5. QED
    BY <2>3, <2>4
<1>4. QED
  BY <1>3 DEF IInv

LEMMA ReaderDiscard ==
  ASSUME IInv, AInv', NEW t \in Tasks, Discard(t)
  PROVE  IInv'
<1>1. /\ task'[t].step = "rescan" /\ task[t].step = "scan"
      /\ task'[t].op = task[t].op
      /\ \A u \in Tasks : u # t => task'[u] = task[u] /\ during'[u] = during[u]
  BY GoTyped DEF Discard, IInv, AInv, TInv, TypeOK, Steps, LockedSteps
<1>2. UNCHANGED <<files, undermined, during>> /\ table' = "missing"
  BY DEF Discard
<1>3. Current(t)'
  BY <1>1, <1>2 DEF IInv, Current, Reads, WasSo
<1>4. QED
  BY <1>1, <1>2, <1>3, OthersKeep

\* A reader that turns to the files has read none yet.
LEMMA ReaderTurnsToFiles ==
  ASSUME IInv, AInv', NEW t \in Tasks, ReconcileFails(t) \/ QueryFails(t)
  PROVE  IInv'
<1>1. task[t] \in Request /\ task \in [Tasks -> Request] /\ TInv'
  BY DEF IInv, AInv, TInv, TypeOK
<1>2. UNCHANGED <<files, rows, table, undermined, during>>
  BY DEF ReconcileFails, QueryFails
<1>3. \A u \in Tasks : u # t => task'[u] = task[u] /\ during'[u] = during[u]
  BY <1>1, <1>2 DEF ReconcileFails, QueryFails
<1>4. task[t].op = "read" =>
        /\ task'[t].step = "files" /\ task'[t].op = "read" /\ task'[t].todo = Posts
        /\ task[t].step # "idle"
  <2> SUFFICES ASSUME task[t].op = "read"
               PROVE  /\ task'[t].step = "files" /\ task'[t].op = "read" /\ task'[t].todo = Posts
                      /\ task[t].step # "idle"
    OBVIOUS
  <2>1. task'[t] = [task[t] EXCEPT !.step = "files", !.todo = Posts]
    BY <1>1 DEF ReconcileFails, QueryFails
  <2>2. task[t].step \in {"rescan", "query"}
    BY DEF ReconcileFails, QueryFails
  <2>3. QED
    BY <1>1, <2>1, <2>2 DEF Request
<1>5. task[t].op # "read" => task'[t].op # "read"
  <2>1. task[t].step = "query" => task[t].op = "read"
    BY DEF IInv, AInv, TInv, StepsFit, Fits, ReaderSteps
  <2>2. QED
    BY <1>1, <2>1 DEF ReconcileFails, QueryFails, Request
<1>6. CASE task[t].op = "read"
  <2>1. (WasSo(t, files))'
    BY <1>2, <1>4, <1>6 DEF IInv, Current, Reads, WasSo
  <2>2. Current(t)'
    BY <1>4, <1>6, <2>1 DEF Current
  <2>3. QED
    BY <1>2, <1>3, <2>2, OthersKeep
<1>7. CASE task[t].op # "read"
  <2>1. Current(t)'
    BY <1>1, <1>5, <1>7, NotReading
  <2>2. QED
    BY <1>2, <1>3, <2>1, OthersKeep
<1>8. QED
  BY <1>6, <1>7

LEMMA ReaderGoesOn ==
  ASSUME IInv, AInv', NEW t \in Tasks, ClearAfterReconcile(t) \/ BecomeReady(t)
  PROVE  IInv'
<1>1. /\ task'[t].step \in {"trust", "query", "enter"} /\ task[t].step \in {"unmark", "trust"}
      /\ task'[t].op = task[t].op
      /\ \A u \in Tasks : u # t => task'[u] = task[u] /\ during'[u] = during[u]
  BY GoTyped, AfterEnsureTyped
     DEF ClearAfterReconcile, BecomeReady, IInv, AInv, TInv, TypeOK, Steps, IndexSteps, AfterEnsure
<1>2. UNCHANGED <<files, rows, table, undermined, during>>
  BY DEF ClearAfterReconcile, BecomeReady
<1>3. Current(t)'
  BY <1>1, <1>2 DEF IInv, Current, Reads, WasSo
<1>4. QED
  BY <1>1, <1>2, <1>3, OthersKeep

LEMMA ReaderQuery ==
  ASSUME IInv, AInv', NEW t \in Tasks, Query(t)
  PROVE  IInv'
<1>1. task[t] \in Request /\ task \in [Tasks -> Request]
  BY DEF IInv, AInv, TInv, TypeOK
<1>2. UNCHANGED <<files, rows, table, undermined, during>>
  BY DEF Query
<1>3. \A u \in Tasks : u # t => task'[u] = task[u] /\ during'[u] = during[u]
  BY <1>1, <1>2 DEF Query
<1>4. task'[t].step = "answer" /\ task'[t].page = rows /\ task'[t].op = task[t].op
  BY <1>1 DEF Query, Request
<1>5. Reads(t) /\ task[t].step = "query" /\ table = "good"
  BY DEF Query, Reads, IInv, AInv, TInv, StepsFit, Fits, ReaderSteps
<1>6. WasSo(t, files) /\ (undermined \/ WasSo(t, rows))
  BY <1>5 DEF IInv, Current
<1>7. Current(t)'
  BY <1>2, <1>4, <1>6 DEF Current, WasSo
<1>8. QED
  BY <1>2, <1>3, <1>7, OthersKeep

\* Each file is as it is now, and the request is under way now.
LEMMA ReaderReadFile ==
  ASSUME IInv, AInv', NEW t \in Tasks, ReadFile(t)
  PROVE  IInv'
<1>1. task[t] \in Request /\ task \in [Tasks -> Request]
  BY DEF IInv, AInv, TInv, TypeOK
<1>2. UNCHANGED <<files, rows, table, undermined, during>>
  BY DEF ReadFile
<1>3. \A u \in Tasks : u # t => task'[u] = task[u] /\ during'[u] = during[u]
  BY <1>1, <1>2 DEF ReadFile
<1>4. PICK p \in task[t].todo :
        /\ task'[t].page = [task[t].page EXCEPT ![p] = files[p]]
        /\ task'[t].todo = task[t].todo \ {p}
        /\ task'[t].step = IF task[t].todo \ {p} = {} THEN "answer" ELSE "files"
  <2>1. PICK p \in task[t].todo : task'[t] = [task[t] EXCEPT
          !.page = [task[t].page EXCEPT ![p] = files[p]], !.todo = task[t].todo \ {p},
          !.step = IF task[t].todo \ {p} = {} THEN "answer" ELSE "files"]
    BY <1>1 DEF ReadFile
  <2>2. QED
    BY <1>1, <2>1 DEF Request
<1>5. Reads(t) /\ task[t].step = "files"
  BY DEF ReadFile, Reads, IInv, AInv, TInv, StepsFit, Fits, ReaderSteps
<1>6. /\ \A x \in Posts : files[x] \in during[t][x]
      /\ \A x \in Posts \ task[t].todo : task[t].page[x] \in during[t][x]
  BY <1>5 DEF IInv, Current, WasSo
<1>7. \A x \in Posts \ task'[t].todo : task'[t].page[x] \in during'[t][x]
  BY <1>1, <1>2, <1>4, <1>6 DEF Request
<1>8. task'[t].step = "answer" => task'[t].todo = {}
  BY <1>4
<1>9. task'[t].step \in {"files", "answer"}
  BY <1>4
<1>10. Current(t)'
  BY <1>2, <1>6, <1>7, <1>8, <1>9 DEF Current, WasSo
<1>11. QED
  BY <1>2, <1>3, <1>10, OthersKeep

LEMMA ReaderAnswer ==
  ASSUME IInv, AInv', NEW t \in Tasks, Answer(t)
  PROVE  IInv'
<1>1. /\ \A u \in Tasks : u # t => task'[u] = task[u] /\ during'[u] = during[u]
      /\ task'[t].step = "idle" /\ TInv'
  BY EndTyped, IdleFits DEF Answer, IInv, AInv, TInv, TypeOK
<1>2. UNCHANGED <<files, rows, table, undermined>>
  BY DEF Answer
<1>3. QED
  BY <1>1, <1>2, NotReading, OthersKeep

\* What a change does besides writing its file shows readers nothing new.
LEMMA ReaderEnters ==
  ASSUME IInv, AInv', NEW t \in Tasks, StoreEnters(t) \/ ChangeEnters(t)
  PROVE  IInv'
<1>1. task[t].step = "enter" /\ UNCHANGED <<files, rows, table, undermined, during>> /\ TInv'
  BY DEF StoreEnters, ChangeEnters, IInv, AInv
<1>2. task[t].op # "read"
  BY <1>1 DEF IInv, AInv, TInv, StepsFit, Fits, WriterSteps, Changes
<1>3. End(t) \/ Mark(t)
  BY DEF StoreEnters, ChangeEnters
<1>4. /\ \A u \in Tasks : u # t => task'[u] = task[u] /\ during'[u] = during[u]
      /\ task'[t].step = "idle" \/ task'[t].op # "read"
  BY <1>1, <1>2, <1>3, EndTyped, MarkTyped, IdleFits DEF IInv, AInv, TInv, TypeOK
<1>5. QED
  BY <1>1, <1>4, NotReading, OthersKeep

\* A reader under way may be shown the file as it was or as it is now.
LEMMA ReaderWriteFile ==
  ASSUME IInv, AInv', NEW t \in Tasks, WriteFile(t)
  PROVE  IInv'
<1>1. /\ \A u \in Tasks : u # t => task'[u] = task[u]
      /\ task'[t].op = task[t].op /\ task[t].step = "write" /\ TInv'
  BY GoTyped DEF WriteFile, IInv, AInv, TInv, TypeOK, Steps, LockedSteps
<1>2. task[t].op # "read"
  BY <1>1 DEF IInv, AInv, TInv, StepsFit, Fits, WriterSteps, Changes
<1>3. UNCHANGED <<rows, table, undermined>>
  BY DEF WriteFile
<1>4. \A u \in Tasks, p \in Posts :
        /\ during[u][p] \subseteq during'[u][p]
        /\ during[u][p] # {} => files'[p] \in during'[u][p]
  BY DEF WriteFile
<1>5. ASSUME NEW u \in Tasks, u # t PROVE Current(u)'
  <2>1. WasSo(u, files) => (WasSo(u, files))'
    BY <1>4 DEF WasSo
  <2>2. WasSo(u, rows) => (WasSo(u, rows))'
    BY <1>3, <1>4 DEF WasSo
  <2>3. task'[u] = task[u]
    BY <1>1, <1>5
  <2>4. WasSo(u, task[u].page) => (WasSo(u, task[u].page))'
    BY <1>4, <2>3 DEF WasSo
  <2>5. task[u].step = "files" =>
          \A p \in Posts \ task'[u].todo : task'[u].page[p] \in during'[u][p]
    BY <1>4, <2>3 DEF IInv, Current
  <2>6. Current(u) /\ Reads(u)' = Reads(u)
    BY <2>3 DEF IInv, Reads
  <2>7. QED
    BY <1>3, <2>1, <2>2, <2>3, <2>4, <2>5, <2>6 DEF Current
<1>6. Current(t)'
  BY <1>1, <1>2, NotReading
<1>7. QED
  BY <1>5, <1>6 DEF IInv

\* The new row says what the file says, the others what they said.
LEMMA ReaderMirror ==
  ASSUME IInv, AInv', NEW t \in Tasks, Mirror(t)
  PROVE  IInv'
<1>1. /\ \A u \in Tasks : u # t => task'[u] = task[u]
      /\ task'[t].step \in {"idle", "finish"} /\ TInv'
  <2>1. EndChange(t, TRUE) /\ task[t].step = "mirror" /\ TInv /\ TInv'
    BY DEF Mirror, IInv, AInv
  <2>2. QED
    BY <2>1, EndChangeTyped, IdleFits
<1>2. UNCHANGED <<files, table, undermined, during>> /\ table = "good"
  BY DEF Mirror
<1>3. \A p \in Posts : rows'[p] \in {files[p], rows[p]}
  BY DEF Mirror
<1>4. ASSUME NEW u \in Tasks, u # t PROVE Current(u)'
  <2>1. task'[u] = task[u] /\ during'[u] = during[u] /\ Current(u)
    BY <1>1, <1>2, <1>4 DEF IInv
  <2>2. Reads(u)' = Reads(u) /\ (WasSo(u, files))' = WasSo(u, files)
    BY <1>2, <2>1 DEF Reads, WasSo
  <2>3. WasSo(u, files) /\ WasSo(u, rows) => (WasSo(u, rows))'
    BY <1>2, <1>3 DEF WasSo
  <2>4. (WasSo(u, task[u].page))' = WasSo(u, task[u].page)
    BY <2>1 DEF WasSo
  <2>5. QED
    BY <1>2, <2>1, <2>2, <2>3, <2>4 DEF Current
<1>5. Current(t)'
  BY <1>1, NotReading DEF TInv, StepsFit, Fits, WriterSteps, Changes
<1>6. QED
  BY <1>4, <1>5 DEF IInv

LEMMA ReaderChangeEnds ==
  ASSUME IInv, AInv', NEW t \in Tasks, WriteFails(t) \/ MirrorFails(t) \/ Finish(t)
  PROVE  IInv'
<1>1. UNCHANGED <<files, rows, table, undermined, during>> /\ TInv'
  BY DEF WriteFails, MirrorFails, Finish, IInv, AInv
<1>2. End(t)
  BY DEF WriteFails, MirrorFails, Finish, EndChange
<1>3. /\ \A u \in Tasks : u # t => task'[u] = task[u] /\ during'[u] = during[u]
      /\ task'[t].step = "idle"
  BY <1>1, <1>2, EndTyped, IdleFits DEF IInv, AInv, TInv, TypeOK
<1>4. QED
  BY <1>1, <1>3, NotReading, OthersKeep

LEMMA ReaderCrash ==
  ASSUME IInv, AInv', NEW q \in Processes, Crash(q)
  PROVE  IInv'
<1>1. \A t \in Tasks : \/ task'[t] = Idle
                       \/ task'[t] = task[t] /\ during'[t] = during[t]
  BY StopTyped DEF Crash, IInv, AInv, TInv
<1>2. UNCHANGED <<files, rows, table, undermined>> /\ TInv'
  BY DEF Crash, AInv
<1>3. ASSUME NEW t \in Tasks PROVE Current(t)'
  <2>1. CASE task'[t] = Idle
    BY <1>2, <2>1, IdleFits, NotReading
  <2>2. CASE task'[t] = task[t] /\ during'[t] = during[t]
    BY <1>2, <2>2 DEF IInv, Current, Reads, WasSo
  <2>3. QED
    BY <1>1, <2>1, <2>2
<1>4. QED
  BY <1>3 DEF IInv

LEMMA ReaderFileOnlyRelease ==
  ASSUME IInv, AInv', FileOnlyRelease
  PROVE  IInv'
<1>1. TInv' /\ \A t \in Tasks : task'[t].step = "idle"
  BY AllStopped, IdleFits DEF FileOnlyRelease, IInv, AInv, TInv
<1>2. QED
  BY <1>1, NotReading DEF IInv

LEMMA ReaderDamage ==
  ASSUME IInv, AInv', Damage
  PROVE  IInv'
<1>1. UNCHANGED <<files, task, during, undermined>> /\ table' # "good"
  BY DEF Damage
<1>2. \A t \in Tasks : Current(t)'
  BY <1>1 DEF IInv, Current, Reads, WasSo
<1>3. QED
  BY <1>2 DEF IInv

LEMMA ReaderInit == Init => IInv
<1> SUFFICES ASSUME Init PROVE IInv
  OBVIOUS
<1>1. \A t \in Tasks : Current(t)
  BY DEF Init, Idle, Current, Reads
<1>2. QED
  BY <1>1, AnnounceInit DEF IInv

LEMMA ReaderStep == IInv /\ [Next]_vars => IInv'
<1> SUFFICES ASSUME IInv, [Next]_vars PROVE IInv'
  OBVIOUS
<1> AInv'
  BY AnnounceStep DEF IInv
<1>1. ASSUME NEW t \in Tasks, Begin(t) PROVE IInv'
  BY <1>1, ReaderBegin
<1>2. ASSUME NEW t \in Tasks, Ensure(t) PROVE IInv'
  BY <1>2, ReaderEnsurePasses, ReaderWaits, ReaderCreateTable, ReaderImportFiles,
     ReaderDiscard, ReaderTurnsToFiles, ReaderGoesOn DEF Ensure
<1>3. ASSUME NEW t \in Tasks, Read(t) PROVE IInv'
  BY <1>3, ReaderQuery, ReaderTurnsToFiles, ReaderReadFile, ReaderAnswer DEF Read
<1>4. ASSUME NEW t \in Tasks, Change(t) PROVE IInv'
  BY <1>4, ReaderEnters, ReaderWriteFile, ReaderMirror, ReaderChangeEnds DEF Change
<1>5. CASE Environment
  BY <1>5, ReaderCrash, ReaderFileOnlyRelease, ReaderDamage DEF Environment
<1>6. CASE UNCHANGED vars
  BY <1>6 DEF vars, IInv, Current, Reads, WasSo
<1>7. QED
  BY <1>1, <1>2, <1>3, <1>4, <1>5, <1>6 DEF Next

\* ReadsAreCurrentUnlessUndermined of BoardIndex: what read_board answers, from the table
\* or from the files, was so at a moment of the request, with any number of processes,
\* requests and posts.
THEOREM ReadsStayCurrent == Spec => []ReadsAreCurrentUnlessUndermined
<1>1. IInv => ReadsAreCurrentUnlessUndermined
  BY DEF IInv, Current, WasSo, ReadsAreCurrentUnlessUndermined, ReadsAreCurrent
<1>2. QED
  BY <1>1, ReaderInit, ReaderStep, PTL DEF Spec

---------------------------------------------------------------------------
(* The board does not grow past its limit.                                      *)

(* A request is about one post; and the holder of the file lock that is about to  *)
(* write has room for its post.                                                 *)
OnePost(r) == \A p, q \in r.post : p = q
Room(t) == task[t].step = "write" /\ task[t].op # "delete" =>
  undermined \/ Cardinality(Exist(files) \cup task[t].post) <= PostLimit
LInv == AInv /\ WithinLimit /\ \A t \in Tasks : OnePost(task[t]) /\ Room(t)

LEMMA ExistFinite == \A f : IsFiniteSet(Exist(f)) /\ Cardinality(Exist(f)) \in Nat
<1>1. \A f : Exist(f) \subseteq Posts
  BY DEF Exist
<1>2. QED
  BY <1>1, BoardIndexAssumption, FS_Subset, FS_CardinalityType

LEMMA IdleOnePost == OnePost(Idle) /\ Idle.post = {} /\ Idle.step = "idle"
BY DEF OnePost, Idle

\* Steps at which nobody comes to write.
LEMMA RoomKept ==
  ASSUME LInv, AInv', files' = files, undermined => undermined',
         \A t \in Tasks :
           /\ OnePost(task'[t])
           /\ task'[t].step = "write" => /\ task[t].step = "write" /\ task'[t].post = task[t].post
                                         /\ task'[t].op = task[t].op
  PROVE  LInv'
BY DEF LInv, WithinLimit, Room, Exist

LEMMA LimitMoves ==
  ASSUME LInv, AInv', files' = files, undermined => undermined', NEW t \in Tasks,
         \A u \in Tasks : u # t => task'[u] = task[u],
         task'[t].step # "write", task'[t].post \subseteq task[t].post
  PROVE  LInv'
<1>1. OnePost(task'[t])
  BY DEF LInv, OnePost
<1>2. QED
  BY <1>1, RoomKept DEF LInv

LEMMA LimitBegin ==
  ASSUME LInv, AInv', NEW t \in Tasks, Begin(t)
  PROVE  LInv'
<1>1. files' = files /\ undermined' = undermined /\ task[t] \in Request /\ task \in [Tasks -> Request]
  BY DEF Begin, LInv, AInv, TInv, TypeOK
<1>2. /\ \A u \in Tasks : u # t => task'[u] = task[u]
      /\ task'[t].step = "ensure" /\ OnePost(task'[t])
  <2>1. CASE t \in Threads
    <3>1. task' = [task EXCEPT ![t] = [task[t] EXCEPT !.step = "ensure"]]
      BY <2>1 DEF Begin
    <3>2. /\ \A u \in Tasks : u # t => task'[u] = task[u]
          /\ task'[t].step = "ensure" /\ task'[t].post = task[t].post
      BY <1>1, <3>1 DEF Request
    <3>3. QED
      BY <3>2 DEF LInv, OnePost
  <2>2. CASE t \notin Threads
    <3>1. PICK o \in Changes, p \in Posts :
            task' = [task EXCEPT ![t] = [task[t] EXCEPT !.step = "ensure", !.op = o, !.post = {p}]]
      BY <2>2 DEF Begin
    <3>2. /\ \A u \in Tasks : u # t => task'[u] = task[u]
          /\ task'[t].step = "ensure" /\ task'[t].post = {p}
      BY <1>1, <3>1 DEF Request
    <3>3. QED
      BY <3>2 DEF OnePost
  <2>3. QED
    BY <2>1, <2>2
<1>3. QED
  BY <1>1, <1>2, RoomKept DEF LInv

LEMMA LimitEnsure ==
  ASSUME LInv, AInv', NEW t \in Tasks, Ensure(t)
  PROVE  LInv'
<1>1. task \in [Tasks -> Request] /\ task[t] \in Request
  BY DEF LInv, AInv, TInv, TypeOK
<1>2. files' = files /\ (undermined => undermined')
  <2>1. CASE CreateTable(t)
    BY <2>1 DEF CreateTable
  <2>2. CASE EnsurePasses(t) \/ EnsureLocks(t) \/ Reconcile(t) \/ ImportFiles(t)
    BY <2>2 DEF EnsurePasses, EnsureLocks, Reconcile, ImportFiles
  <2>3. CASE Discard(t) \/ ReconcileFails(t) \/ ClearAfterReconcile(t) \/ BecomeReady(t)
    BY <2>3 DEF Discard, ReconcileFails, ClearAfterReconcile, BecomeReady
  <2>4. QED
    BY <2>1, <2>2, <2>3 DEF Ensure
<1>3. CASE task' = task
  BY <1>2, <1>3, RoomKept DEF LInv
<1>4. CASE \E s \in Steps \ {"write"} : Go(t, s)
  <2>1. PICK s \in Steps \ {"write"} : Go(t, s)
    BY <1>4
  <2>2. QED
    BY <1>1, <1>2, <2>1, GoTyped, LimitMoves
<1>5. CASE ReconcileFails(t)
  <2>1. \E s \in {"files", "enter"}, d \in SUBSET Posts :
          task'[t] = [task[t] EXCEPT !.step = s, !.todo = d]
    <3>1. CASE task[t].op = "read"
      <4>1. task' = [task EXCEPT ![t] = [task[t] EXCEPT !.step = "files", !.todo = Posts]]
        BY <1>5, <3>1 DEF ReconcileFails
      <4>2. QED
        BY <1>1, <4>1
    <3>2. CASE task[t].op # "read"
      <4>1. task' = [task EXCEPT ![t] = [task[t] EXCEPT !.step = "enter"]]
        BY <1>5, <3>2 DEF ReconcileFails
      <4>2. task'[t] = [task[t] EXCEPT !.step = "enter", !.todo = task[t].todo]
        BY <1>1, <4>1 DEF Request
      <4>3. QED
        BY <1>1, <4>2 DEF Request
    <3>3. QED
      BY <3>1, <3>2
  <2>2. task'[t].step # "write" /\ task'[t].post = task[t].post
    BY <1>1, <2>1 DEF Request
  <2>3. \A u \in Tasks : u # t => task'[u] = task[u]
    BY <1>1, <1>5 DEF ReconcileFails
  <2>4. QED
    BY <1>2, <2>2, <2>3, LimitMoves
<1>6. AfterEnsure(t) \in Steps \ {"write"}
  BY DEF AfterEnsure, Steps
<1>7. {"wait", "scan", "rescan", "unmark", "trust"} \subseteq Steps \ {"write"}
  BY DEF Steps, IndexSteps
<1>8. QED
  BY <1>3, <1>4, <1>5, <1>6, <1>7 DEF Ensure, EnsurePasses, EnsureLocks, Reconcile, CreateTable,
     ImportFiles, Discard, ClearAfterReconcile, BecomeReady

LEMMA LimitRead ==
  ASSUME LInv, AInv', NEW t \in Tasks, Read(t)
  PROVE  LInv'
<1>1. task \in [Tasks -> Request] /\ task[t] \in Request
  BY DEF LInv, AInv, TInv, TypeOK
<1>2. files' = files /\ undermined' = undermined
  BY DEF Read, Query, QueryFails, ReadFile, Answer
<1>3. CASE Answer(t)
  BY <1>1, <1>2, <1>3, EndTyped, IdleOnePost, LimitMoves DEF Answer
<1>4. CASE Query(t) \/ QueryFails(t) \/ ReadFile(t)
  <2>1. \E s \in {"answer", "files"} : \E page, todo :
          task' = [task EXCEPT ![t] = [task[t] EXCEPT !.step = s, !.page = page, !.todo = todo]]
    <3>1. CASE Query(t)
      <4>1. task' = [task EXCEPT ![t] = [task[t] EXCEPT !.step = "answer", !.page = rows]]
        BY <3>1 DEF Query
      <4>2. [task[t] EXCEPT !.step = "answer", !.page = rows] =
              [task[t] EXCEPT !.step = "answer", !.page = rows, !.todo = task[t].todo]
        BY <1>1 DEF Request
      <4>3. QED
        BY <4>1, <4>2
    <3>2. CASE QueryFails(t)
      <4>1. task' = [task EXCEPT ![t] = [task[t] EXCEPT !.step = "files", !.todo = Posts]]
        BY <3>2 DEF QueryFails
      <4>2. [task[t] EXCEPT !.step = "files", !.todo = Posts] =
              [task[t] EXCEPT !.step = "files", !.page = task[t].page, !.todo = Posts]
        BY <1>1 DEF Request
      <4>3. QED
        BY <4>1, <4>2
    <3>3. CASE ReadFile(t)
      <4>1. PICK p \in task[t].todo : task' = [task EXCEPT ![t] = [task[t] EXCEPT
              !.page = [task[t].page EXCEPT ![p] = files[p]], !.todo = task[t].todo \ {p},
              !.step = IF task[t].todo \ {p} = {} THEN "answer" ELSE "files"]]
        BY <3>3 DEF ReadFile
      <4>2. PICK s \in {"answer", "files"} : s = IF task[t].todo \ {p} = {} THEN "answer" ELSE "files"
        OBVIOUS
      <4>3. task' = [task EXCEPT ![t] = [task[t] EXCEPT
              !.step = s, !.page = [task[t].page EXCEPT ![p] = files[p]],
              !.todo = task[t].todo \ {p}]]
        <5>1. task' = [task EXCEPT ![t] = [task[t] EXCEPT
                !.page = [task[t].page EXCEPT ![p] = files[p]], !.todo = task[t].todo \ {p},
                !.step = s]]
          BY <4>1, <4>2
        <5>2. PICK page, todo : /\ page = [task[t].page EXCEPT ![p] = files[p]]
                                /\ todo = task[t].todo \ {p}
          OBVIOUS
        <5>3. [task[t] EXCEPT !.page = page, !.todo = todo, !.step = s] =
                [task[t] EXCEPT !.step = s, !.page = page, !.todo = todo]
          BY <1>1 DEF Request
        <5>4. QED
          BY <5>1, <5>2, <5>3
      <4>4. QED
        BY <4>3
    <3>4. QED
      BY <1>4, <3>1, <3>2, <3>3
  <2>2. /\ \A u \in Tasks : u # t => task'[u] = task[u]
        /\ task'[t].step # "write" /\ task'[t].post = task[t].post
    BY <1>1, <2>1 DEF Request
  <2>3. QED
    BY <1>2, <2>2, LimitMoves
<1>5. QED
  BY <1>3, <1>4 DEF Read

\* What _board_count answers under the file lock is the number of files.
LEMMA CountedIsSo ==
  ASSUME AInv, ~undermined, NEW q \in Processes
  PROVE  Counted(q) = Cardinality(Exist(files))
<1>1. Trusts(q) /\ table = "good" => rows = files
  BY DEF AInv, Announced, Sound, Relied, Trusts
<1>2. QED
  BY <1>1 DEF Counted

LEMMA LimitEnters ==
  ASSUME LInv, AInv', NEW t \in Tasks, StoreEnters(t) \/ ChangeEnters(t)
  PROVE  LInv'
<1>1. /\ task \in [Tasks -> Request] /\ TInv /\ task[t].step = "enter" /\ task[t].post \subseteq Posts
      /\ ProcessOf[t] \in Processes
  BY BoardIndexAssumption DEF LInv, AInv, TInv, TypeOK, StoreEnters, ChangeEnters, Request
<1>2. UNCHANGED <<files, undermined>>
  BY DEF StoreEnters, ChangeEnters
<1>3. CASE End(t)
  BY <1>1, <1>2, <1>3, EndTyped, IdleOnePost, LimitMoves
<1>4. CASE Mark(t) /\ ~End(t)
  <2>1. /\ \A u \in Tasks : u # t => task'[u] = task[u]
        /\ task'[t].op = task[t].op /\ task'[t].post = task[t].post
    BY <1>1, <1>4, MarkTyped
  <2>2. OnePost(task[t]) /\ (undermined \/ Cardinality(Exist(files)) <= PostLimit)
    BY DEF LInv, WithinLimit
  <2>3. ASSUME task[t].op # "delete", ~undermined
        PROVE  Cardinality(Exist(files) \cup task[t].post) <= PostLimit
    <3>1. CASE StoreEnters(t)
      <4>1. Counted(ProcessOf[t]) < PostLimit
        <5>1. ~(Counted(ProcessOf[t]) >= PostLimit)
          BY <1>4, <3>1 DEF StoreEnters
        <5>2. Counted(ProcessOf[t]) \in Nat
          BY ExistFinite DEF Counted
        <5>3. QED
          BY <5>1, <5>2, BoardIndexAssumption
      <4>2. Cardinality(Exist(files)) < PostLimit
        BY <1>1, <2>3, <4>1, CountedIsSo DEF LInv
      <4>3. CASE task[t].post = {}
        BY <2>2, <2>3, <4>3
      <4>4. CASE task[t].post # {}
        <5>1. PICK p : task[t].post = {p}
          BY <2>2, <4>4 DEF OnePost
        <5>2. PICK E : E = Exist(files) /\ IsFiniteSet(E) /\ Cardinality(E) \in Nat
          BY ExistFinite
        <5>3. Cardinality(E \cup {p}) = IF p \in E THEN Cardinality(E) ELSE Cardinality(E) + 1
          BY <5>2, FS_AddElement
        <5>4. Cardinality(E) < PostLimit /\ Exist(files) \cup task[t].post = E \cup {p}
          BY <4>2, <5>1, <5>2
        <5>5. Cardinality(E \cup {p}) <= PostLimit
          BY <5>2, <5>3, <5>4, BoardIndexAssumption
        <5>6. QED
          BY <5>4, <5>5
      <4>5. QED
        BY <4>3, <4>4
    <3>2. CASE ChangeEnters(t)
      <4>1. PICK p \in task[t].post : files[p] # 0
        BY <1>4, <3>2 DEF ChangeEnters
      <4>2. task[t].post = {p} /\ files[p] > 0
        BY <1>1, <2>2, <4>1, BoardIndexAssumption DEF OnePost, TInv, TypeOK, Stamps
      <4>3. Exist(files) \cup task[t].post = Exist(files)
        BY <1>1, <4>2 DEF Exist
      <4>4. QED
        BY <2>2, <2>3, <4>3
    <3>3. QED
      BY <3>1, <3>2
  <2>4. Room(t)'
    BY <1>2, <2>1, <2>3 DEF Room, Exist
  <2>5. \A u \in Tasks : OnePost(task'[u])
    BY <2>1 DEF LInv, OnePost
  <2>6. \A u \in Tasks : u # t => Room(u)'
    BY <1>2, <2>1 DEF LInv, Room, Exist
  <2>7. QED
    BY <1>2, <2>4, <2>5, <2>6 DEF LInv, WithinLimit, Exist
<1>5. QED
  BY <1>3, <1>4 DEF StoreEnters, ChangeEnters

\* The one that writes has room, and no other is about to write.
LEMMA LimitWriteFile ==
  ASSUME LInv, AInv', NEW t \in Tasks, WriteFile(t)
  PROVE  LInv'
<1>1. /\ \A u \in Tasks : u # t => task'[u] = task[u]
      /\ task'[t].step = "mirror" /\ task'[t].post = task[t].post /\ task[t].step = "write"
      /\ task[t].post \subseteq Posts
  BY GoTyped DEF WriteFile, LInv, AInv, TInv, TypeOK, Steps, LockedSteps, Request
<1>2. undermined' = undermined
  BY DEF WriteFile
<1>3. \A u \in Tasks : task'[u].step # "write"
  BY <1>1 DEF LInv, AInv, MutualExclusion, LockedSteps
<1>4. files' = [p \in Posts |-> IF p \in task[t].post THEN Written(t) ELSE files[p]]
  BY DEF WriteFile
<1>5. WithinLimit'
  <2>1. SUFFICES ASSUME ~undermined PROVE Cardinality(Exist(files')) <= PostLimit
    BY <1>2 DEF WithinLimit, Exist
  <2>2. PICK S : IsFiniteSet(S) /\ Exist(files') \subseteq S /\ Cardinality(S) <= PostLimit
    <3>1. CASE task[t].op = "delete"
      <4>1. Exist(files') \subseteq Exist(files)
        BY <1>4, <3>1 DEF Exist, Written
      <4>2. QED
        BY <2>1, <4>1, ExistFinite DEF LInv, WithinLimit
    <3>2. CASE task[t].op # "delete"
      <4>1. Exist(files') \subseteq Exist(files) \cup task[t].post
        BY <1>4 DEF Exist
      <4>2. IsFiniteSet(Exist(files) \cup task[t].post)
        <5>1. Exist(files) \cup task[t].post \subseteq Posts
          BY <1>1 DEF Exist
        <5>2. QED
          BY <5>1, BoardIndexAssumption, FS_Subset
      <4>3. Cardinality(Exist(files) \cup task[t].post) <= PostLimit
        BY <1>1, <2>1, <3>2 DEF LInv, Room
      <4>4. QED
        BY <4>1, <4>2, <4>3
    <3>3. QED
      BY <3>1, <3>2
  <2>3. Cardinality(Exist(files')) <= Cardinality(S) /\ Cardinality(S) \in Nat
    BY <2>2, FS_Subset, FS_CardinalityType
  <2>4. QED
    BY <2>2, <2>3, ExistFinite, BoardIndexAssumption
<1>6. \A u \in Tasks : OnePost(task'[u])
  BY <1>1 DEF LInv, OnePost
<1>7. QED
  BY <1>3, <1>5, <1>6 DEF LInv, Room

LEMMA LimitChangeEnds ==
  ASSUME LInv, AInv', NEW t \in Tasks,
         WriteFails(t) \/ Mirror(t) \/ MirrorFails(t) \/ Finish(t)
  PROVE  LInv'
<1>1. task \in [Tasks -> Request] /\ UNCHANGED <<files, undermined>>
  BY DEF WriteFails, Mirror, MirrorFails, Finish, LInv, AInv, TInv, TypeOK
<1>2. End(t) \/ Go(t, "finish")
  BY DEF WriteFails, Mirror, MirrorFails, Finish, EndChange
<1>3. CASE End(t)
  BY <1>1, <1>3, EndTyped, IdleOnePost, LimitMoves
<1>4. CASE Go(t, "finish")
  BY <1>1, <1>4, GoTyped, LimitMoves DEF Steps, LockedSteps
<1>5. QED
  BY <1>2, <1>3, <1>4

LEMMA LimitEnvironment ==
  ASSUME LInv, AInv', Environment
  PROVE  LInv'
<1>1. CASE \E q \in Processes : Crash(q)
  <2>1. UNCHANGED <<files, undermined>>
    BY <1>1 DEF Crash
  <2>2. \A t \in Tasks : task'[t] = Idle \/ task'[t] = task[t]
    BY <1>1, StopTyped DEF Crash, LInv, AInv, TInv
  <2>3. QED
    BY <2>1, <2>2, IdleOnePost, RoomKept DEF LInv
<1>2. CASE FileOnlyRelease
  <2>1. \A t \in Tasks : task'[t] = Idle
    BY <1>2, AllStopped DEF FileOnlyRelease, LInv, AInv, TInv
  <2>2. WithinLimit'
    BY <1>2 DEF FileOnlyRelease, WithinLimit, Exist
  <2>3. QED
    BY <2>1, <2>2, IdleOnePost DEF LInv, Room
<1>3. CASE Damage
  BY <1>3, RoomKept DEF Damage, LInv
<1>4. QED
  BY <1>1, <1>2, <1>3 DEF Environment

LEMMA LimitInit == Init => LInv
<1> SUFFICES ASSUME Init PROVE LInv
  OBVIOUS
<1>1. \A t \in Tasks : task[t] = Idle
  BY DEF Init
<1>2. Exist(files) = {}
  BY DEF Init, Nothing, Exist
<1>3. WithinLimit
  BY <1>2, FS_EmptySet, BoardIndexAssumption DEF WithinLimit
<1>4. QED
  BY <1>1, <1>3, IdleOnePost, AnnounceInit DEF LInv, Room

LEMMA LimitStep == LInv /\ [Next]_vars => LInv'
<1> SUFFICES ASSUME LInv, [Next]_vars PROVE LInv'
  OBVIOUS
<1>1. AInv'
  BY AnnounceStep DEF LInv
<1>2. ASSUME NEW t \in Tasks, Change(t) PROVE LInv'
  BY <1>1, <1>2, LimitEnters, LimitWriteFile, LimitChangeEnds DEF Change
<1>3. CASE UNCHANGED vars
  BY <1>1, <1>3, RoomKept DEF vars, LInv
<1>4. QED
  BY <1>1, <1>2, <1>3, LimitBegin, LimitEnsure, LimitRead, LimitEnvironment DEF Next

\* WithinLimit of BoardIndex: _board_count may answer from the table, and several
\* processes store at once, yet the board never holds more than BOARD_POST_LIMIT posts,
\* unless a table was created under a process that trusts it.
THEOREM LimitHolds == Spec => []WithinLimit
<1>1. LInv => WithinLimit
  BY DEF LInv
<1>2. QED
  BY <1>1, LimitInit, LimitStep, PTL DEF Spec
=============================================================================
