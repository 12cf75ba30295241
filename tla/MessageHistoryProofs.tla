----------------------- MODULE MessageHistoryProofs -----------------------
(* What TLAPS proves of MessageHistory, for any conversations, messages and    *)
(* bounds: the types, the inductive invariant DifferencesAreExplained, the     *)
(* soundness of the skipped scan, and the implementation of SavedHistory.      *)
EXTENDS MessageHistory, TLAPS

USE DEF NoVersion

---------------------------------------------------------------------------
\* The state of a request that holds no lock is a Job.
LEMMA IdleIsJob == Idle \in Job /\ Idle.step = "idle"
BY HistoryAssumption DEF Idle, Job, Steps, MutationSteps, Contents, Nothing

\* Recording a covered version keeps the coverage absent or natural.
LEMMA CoverageTyped ==
  ASSUME TypeOK, NEW v \in Nat, MarkVersionCovered(v)
  PROVE  covered_from' \in Nat \cup {NoVersion} /\ covered_through' \in Nat \cup {NoVersion}
BY DEF TypeOK, MarkVersionCovered

\* Moving to another step keeps the rest of the request.
LEMMA GotoTyped ==
  ASSUME job \in Job, NEW s \in Steps, Goto(s)
  PROVE  /\ job' \in Job /\ job'.step = s
         /\ job'.conv = job.conv /\ job'.msg = job.msg /\ job'.owns = job.owns
         /\ job'.page = job.page /\ job'.loading = job.loading
BY DEF Goto, Job

\* One message of one conversation is replaced by a natural number.
LEMMA CellTyped ==
  ASSUME NEW f \in [Conversations -> Contents], NEW c \in Conversations,
         NEW m \in Messages, NEW n \in Nat
  PROVE  [f EXCEPT ![c][m] = n] \in [Conversations -> Contents]
BY DEF Contents

\* Every action keeps the state in its types.
LEMMA TypeStep == TypeOK /\ [Next]_vars => TypeOK'
<1> SUFFICES ASSUME TypeOK, [Next]_vars PROVE TypeOK'
  OBVIOUS
<1> USE IdleIsJob DEF TypeOK, Job, Steps, MutationSteps, index, Goto, Contents, Nothing
<1>1. ASSUME NEW c \in Conversations, NEW m \in Messages, BeginMutation(c, m)
      PROVE  TypeOK'
  <2>1. job' \in Job
    BY <1>1 DEF BeginMutation
  <2>2. dirty' \in [Conversations -> BOOLEAN]
    BY <1>1 DEF BeginMutation
  <2>3. QED
    BY <1>1, <2>1, <2>2 DEF BeginMutation
<1>2. CASE WriteMessage
  <2>1. job' \in Job
    BY <1>2, GotoTyped DEF WriteMessage
  <2>2. files[job.conv][job.msg] + 1 \in Nat
    BY <1>2
  <2>3. files' \in [Conversations -> Contents]
    BY <1>2, <2>2, CellTyped DEF WriteMessage
  <2>4. QED
    BY <1>2, <2>1, <2>3 DEF WriteMessage
<1>3. CASE BumpVersion
  <2>1. version' \in Nat
    BY <1>3 DEF BumpVersion
  <2>2. job' \in Job
    BY <1>3, GotoTyped DEF BumpVersion
  <2>3. QED
    BY <1>3, <2>1, <2>2 DEF BumpVersion
<1>4. CASE MirrorMessage
  BY <1>4, CoverageTyped DEF MirrorMessage
<1>5. CASE MirrorFails
  BY <1>5 DEF MirrorFails
<1>6. CASE FinishMutation
  <2>1. job' \in Job
    BY <1>6, GotoTyped DEF FinishMutation
  <2>2. dirty' \in [Conversations -> BOOLEAN]
    BY <1>6 DEF FinishMutation
  <2>3. QED
    BY <1>6, <2>1, <2>2 DEF FinishMutation
<1>7. CASE BumpMetadataVersion
  <2>1. version' \in Nat
    BY <1>7 DEF BumpMetadataVersion
  <2>2. job' \in Job
    BY <1>7 DEF BumpMetadataVersion
  <2>3. QED
    BY <1>7, <2>1, <2>2 DEF BumpMetadataVersion
<1>8. CASE CoverMetadataVersion
  BY <1>8, CoverageTyped DEF CoverMetadataVersion
<1>9. ASSUME NEW c \in Conversations, BeginLoad(c)
      PROVE  TypeOK'
  BY <1>9 DEF BeginLoad
<1>10. CASE ReconcileBySkipping
  BY <1>10 DEF ReconcileBySkipping
<1>11. CASE ReconcileByScanning
  BY <1>11 DEF ReconcileByScanning
<1>12. CASE ReadPage
  BY <1>12 DEF ReadPage
<1>13. CASE IndexFails
  BY <1>13 DEF IndexFails
<1>14. CASE WriteLatestPage
  BY <1>14 DEF WriteLatestPage
<1>15. CASE Crash
  BY <1>15 DEF Crash
<1>16. CASE LoseIndex
  BY <1>16 DEF LoseIndex
<1>17. ASSUME NEW c \in Conversations, NEW m \in Messages, RollbackWrite(c, m)
       PROVE  TypeOK'
  BY <1>17 DEF RollbackWrite
<1>18. CASE UNCHANGED vars
  BY <1>18 DEF vars
<1>19. QED
  BY <1>1, <1>2, <1>3, <1>4, <1>5, <1>6, <1>7, <1>8, <1>9, <1>10, <1>11, <1>12,
     <1>13, <1>14, <1>15, <1>16, <1>17, <1>18
     DEF Next, Mutation, Reading, External

\* The initial state is typed.
LEMMA TypeInit == Init => TypeOK
BY IdleIsJob, HistoryAssumption DEF Init, TypeOK, Contents, Nothing

\* The state keeps its types in every behaviour.
THEOREM TypeCorrect == Spec => []TypeOK
<1>1. QED BY TypeInit, TypeStep, PTL DEF Spec

---------------------------------------------------------------------------
(* The inductive invariant. A difference between rows and files is tolerated    *)
(* only with a reason (Explained), so the heart of the proof is that a reason    *)
(* lasts until a scan removes the difference.                                    *)

IInv == TypeOK /\ DifferencesAreExplained

\* A step that does not scan conversation c keeps a missed version missed: the
\* coverage either stays or moves to the version being covered, which is newer.
LEMMA MissedPersists ==
  ASSUME TypeOK, TypeOK', VersionsOrdered, NEW c \in Conversations, MissedSince(c),
         indexed_version'[c] = indexed_version[c],
         Settled <= Settled',
         \/ UNCHANGED <<covered_from, covered_through>>
         \/ job.step \in {"mirror", "cover"} /\ MarkVersionCovered(version)
  PROVE  MissedSince(c)'
<1> USE DEF TypeOK
<1>1. PICK v \in (indexed_version[c] + 1)..Settled :
        covered_through = NoVersion \/ v < covered_from \/ v > covered_through
  BY DEF MissedSince
<1>2. Settled \in Int /\ Settled' \in Int
  BY DEF Settled
<1>3. v \in (indexed_version'[c] + 1)..Settled'
  BY <1>1, <1>2
<1>4. CASE UNCHANGED <<covered_from, covered_through>>
  BY <1>1, <1>3, <1>4 DEF MissedSince
<1>5. CASE job.step \in {"mirror", "cover"} /\ MarkVersionCovered(version)
  <2>1. v < version
    BY <1>1, <1>2, <1>5 DEF Settled
  <2>2. covered_through' = NoVersion \/ v < covered_from' \/ v > covered_through'
    BY <1>1, <1>5, <2>1 DEF MarkVersionCovered, VersionsOrdered
  <2>3. QED
    BY <1>3, <2>2 DEF MissedSince
<1>6. QED
  BY <1>4, <1>5

\* A version that covers keeps the versions in order.
LEMMA CoverageOrdered ==
  ASSUME TypeOK, VersionsOrdered, version > 0, MarkVersionCovered(version)
  PROVE  covered_from' <= covered_through' /\ covered_through' <= version
BY DEF TypeOK, VersionsOrdered, MarkVersionCovered, Settled

\* A step that touches neither files nor index nor markers, and does not make the
\* decided versions fewer, keeps every explanation, provided a mutation it ends or
\* moves on was not waiting to mirror a message.
LEMMA ExplainedPersists ==
  ASSUME TypeOK, TypeOK', VersionsOrdered, NEW c \in Conversations, Explained(c),
         UNCHANGED <<files, index, dirty>>, Settled <= Settled',
         \/ InFlight(c)' = InFlight(c) /\ job'.msg = job.msg
            /\ (job.step = "unmark" <=> job'.step = "unmark")
         \/ dirty[c] /\ ~InFlight(c)'
  PROVE  Explained(c)'
<1>1. CASE MissedSince(c)
  BY <1>1, MissedPersists DEF index, Explained
<1>2. CASE ~MissedSince(c)
  BY <1>2 DEF index, Explained
<1>3. QED
  BY <1>1, <1>2

LEMMA ExplainedInit == Init => IInv
<1> SUFFICES ASSUME Init PROVE IInv
  OBVIOUS
<1>1. TypeOK
  BY TypeInit
<1>2. job.step = "idle"
  BY IdleIsJob DEF Init
<1>3. \A c \in Conversations : Explained(c)
  BY DEF Init, Explained
<1>4. VersionsOrdered
  BY <1>2 DEF Init, VersionsOrdered, Settled
<1>5. QED
  BY <1>1, <1>2, <1>3, <1>4
     DEF IInv, DifferencesAreExplained, MutationSteps, PageReadIsCurrent

\* Beginning a mutation: the conversation is marked, and its differences, if the
\* marker is new, have another reason.
LEMMA StepBegin ==
  ASSUME IInv, TypeOK', NEW c0 \in Conversations, NEW m0 \in Messages, BeginMutation(c0, m0)
  PROVE  IInv'
<1> USE DEF IInv, DifferencesAreExplained, BeginMutation, PageReadIsCurrent
<1>1. /\ job'.step = "write" /\ job'.conv = c0 /\ job'.msg = m0
      /\ job'.owns = ~dirty[c0]
  BY IdleIsJob DEF Job
<1>2. Settled' = Settled
  BY <1>1 DEF Settled
<1>3. VersionsOrdered'
  BY <1>2 DEF VersionsOrdered, index
<1>4. ASSUME NEW c \in Conversations PROVE Explained(c)'
  <2>1. MissedSince(c) => MissedSince(c)'
    BY <1>2 DEF MissedSince, index
  <2>2. ~InFlight(c)
    BY DEF InFlight, MutationSteps
  <2>3. Explained(c)
    OBVIOUS
  <2>4. CASE c = c0
    <3>1. dirty'[c]
      BY <2>4 DEF TypeOK
    <3>2. CASE dirty[c]
      BY <1>1, <2>4, <3>1, <3>2 DEF Explained, InFlight, TypeOK, Job
    <3>3. CASE ~dirty[c]
      BY <2>1, <2>2, <2>3, <3>3 DEF Explained, index
    <3>4. QED
      BY <3>2, <3>3
  <2>5. CASE c # c0
    <3>1. dirty'[c] = dirty[c] /\ ~InFlight(c)'
      BY <1>1, <2>5 DEF InFlight, TypeOK
    <3>2. QED
      BY <2>1, <2>2, <2>3, <3>1 DEF Explained, index
  <2>6. QED
    BY <2>4, <2>5
<1>5. dirty'[job'.conv]
  BY <1>1 DEF TypeOK
<1>6. QED
  BY <1>1, <1>3, <1>4, <1>5

\* Writing the message file: only the running request's own message may now differ.
LEMMA StepWrite ==
  ASSUME IInv, TypeOK', WriteMessage
  PROVE  IInv'
<1> USE DEF IInv, DifferencesAreExplained, WriteMessage, PageReadIsCurrent
<1>1. /\ job'.step = "bump" /\ job'.conv = job.conv /\ job'.msg = job.msg
      /\ job'.owns = job.owns
  BY GotoTyped DEF TypeOK, Steps, MutationSteps
<1>2. Settled' = Settled
  BY <1>1 DEF Settled
<1>3. VersionsOrdered'
  BY <1>2 DEF VersionsOrdered, index
<1>4. ASSUME NEW c \in Conversations PROVE Explained(c)'
  <2>1. MissedSince(c) => MissedSince(c)'
    BY <1>2 DEF MissedSince, index
  <2>2. InFlight(c)' = InFlight(c)
    BY <1>1 DEF InFlight, MutationSteps
  <2>3. Explained(c)
    OBVIOUS
  <2>4. \A m \in Messages : (c # job.conv \/ m # job.msg) => files'[c][m] = files[c][m]
    BY DEF TypeOK, Contents
  <2>5. c = job.conv => dirty[c]
    BY DEF MutationSteps
  <2>6. QED
    BY <1>1, <2>1, <2>2, <2>3, <2>4, <2>5 DEF Explained, index, InFlight
<1>5. QED
  BY <1>1, <1>3, <1>4 DEF MutationSteps

\* Committing the version: it is undecided until the mirror has run.
LEMMA StepBump ==
  ASSUME IInv, TypeOK', BumpVersion
  PROVE  IInv'
<1> USE DEF IInv, DifferencesAreExplained, BumpVersion, PageReadIsCurrent
<1>1. /\ job'.step = "mirror" /\ job'.conv = job.conv /\ job'.msg = job.msg
      /\ job'.owns = job.owns
  BY GotoTyped DEF TypeOK, Steps, MutationSteps
<1>2. Settled' = Settled
  BY <1>1 DEF Settled, TypeOK
<1>3. VersionsOrdered'
  BY <1>2 DEF VersionsOrdered, index
<1>4. ASSUME NEW c \in Conversations PROVE Explained(c)'
  <2>1. InFlight(c)' = InFlight(c)
    BY <1>1 DEF InFlight, MutationSteps
  <2>2. Settled <= Settled'
    BY <1>2 DEF Settled, TypeOK
  <2>3. QED
    BY <1>1, <2>1, <2>2, ExplainedPersists DEF index
<1>5. version' > 0
  BY DEF TypeOK
<1>6. QED
  BY <1>1, <1>3, <1>4, <1>5 DEF MutationSteps

\* The mirror: the message is no longer a difference, and the conversation's version
\* moves only when it was complete up to the version before.
LEMMA StepMirror ==
  ASSUME IInv, TypeOK', MirrorMessage
  PROVE  IInv'
<1> USE DEF IInv, DifferencesAreExplained, MirrorMessage, PageReadIsCurrent
<1>1. /\ job'.step = IF job.owns THEN "unmark" ELSE "reconcile"
      /\ job'.conv = job.conv /\ job'.msg = job.msg /\ job'.owns = job.owns
  BY GotoTyped DEF TypeOK, Steps, MutationSteps
<1>2. Settled = version - 1 /\ Settled' = version /\ version > 0 /\ version \in Nat
  BY <1>1 DEF Settled, TypeOK
<1>3. covered_from' <= covered_through' /\ covered_through' <= version
  BY <1>2, CoverageOrdered
<1>4. \A c \in Conversations :
        \/ indexed_version'[c] = indexed_version[c]
        \/ /\ c = job.conv
           /\ indexed_version[c] = version - 1
           /\ indexed_version'[c] = version
  BY DEF TypeOK
<1>5. VersionsOrdered'
  BY <1>2, <1>3, <1>4 DEF VersionsOrdered, TypeOK
<1>6. ASSUME NEW c \in Conversations PROVE Explained(c)'
  <2>1. Explained(c)
    OBVIOUS
  <2>2. MissedSince(c) => indexed_version'[c] = indexed_version[c]
    BY <1>2, <1>4 DEF MissedSince, TypeOK
  <2>3. Settled <= Settled'
    BY <1>2
  <2>4. MissedSince(c) => MissedSince(c)'
    BY <2>2, <2>3, MissedPersists
  <2>5. indexed_version[c] = NoVersion => indexed_version'[c] = NoVersion \/ version = 0
    BY <1>2, <1>4 DEF TypeOK
  <2>6. CASE c # job.conv
    <3>1. rows'[c] = rows[c] /\ ~InFlight(c) /\ ~InFlight(c)'
      BY <1>1, <2>6 DEF InFlight, TypeOK
    <3>2. QED
      BY <1>2, <2>1, <2>4, <2>5, <3>1 DEF Explained
  <2>7. CASE c = job.conv
    <3>1. \A m \in Messages : rows[c][m] = files[c][m] \/ m = job.msg => rows'[c][m] = files'[c][m]
      BY <2>7 DEF TypeOK, Contents
    <3>2. dirty[c]
      BY <2>7 DEF MutationSteps
    <3>3. CASE job.owns
      BY <1>1, <1>2, <2>1, <2>4, <2>5, <2>7, <3>1, <3>2, <3>3
         DEF Explained, InFlight, MutationSteps
    <3>4. CASE ~job.owns
      BY <1>1, <3>2, <3>4 DEF Explained, InFlight, MutationSteps
    <3>5. QED
      BY <3>3, <3>4 DEF TypeOK, Job
  <2>8. QED
    BY <2>6, <2>7
<1>7. QED
  BY <1>1, <1>2, <1>5, <1>6 DEF MutationSteps

\* A mirror that fails leaves the marker, which explains every difference.
LEMMA StepMirrorFails ==
  ASSUME IInv, TypeOK', MirrorFails
  PROVE  IInv'
<1> USE DEF IInv, DifferencesAreExplained, MirrorFails, PageReadIsCurrent
<1>1. /\ job'.step = "reconcile" /\ job'.conv = job.conv /\ job'.msg = job.msg
      /\ job'.owns = job.owns
  BY GotoTyped DEF TypeOK, Steps
<1>2. Settled <= Settled' /\ Settled' \in Int /\ Settled \in Int
  BY <1>1 DEF Settled, TypeOK
<1>3. VersionsOrdered'
  BY <1>2 DEF VersionsOrdered, index, TypeOK
<1>4. ASSUME NEW c \in Conversations PROVE Explained(c)'
  <2>1. ~InFlight(c)'
    BY <1>1 DEF InFlight, MutationSteps
  <2>2. InFlight(c) => dirty[c]
    BY DEF InFlight
  <2>3. job.step # "unmark" /\ job'.step # "unmark"
    BY <1>1
  <2>4. CASE InFlight(c)
    BY <1>2, <2>1, <2>2, <2>4, ExplainedPersists DEF index
  <2>5. CASE ~InFlight(c)
    BY <1>1, <1>2, <2>1, <2>3, <2>5, ExplainedPersists DEF index, InFlight
  <2>6. QED
    BY <2>4, <2>5
<1>5. QED
  BY <1>1, <1>3, <1>4 DEF MutationSteps

\* Removing the marker: the request either owned it and mirrored its message, or has
\* just scanned the whole conversation.
LEMMA StepFinish ==
  ASSUME IInv, TypeOK', FinishMutation
  PROVE  IInv'
<1> USE DEF IInv, DifferencesAreExplained, FinishMutation, PageReadIsCurrent
<1>1. /\ job.step = "unmark" => job'.step = "reconcile"
      /\ job.step = "settle" => job'.step = "read"
      /\ job.step \in {"unmark", "settle"}
      /\ job'.conv = job.conv /\ job'.msg = job.msg /\ job'.owns = job.owns
  BY GotoTyped DEF TypeOK, Steps
<1>2. Settled' = Settled
  BY <1>1 DEF Settled
<1>3. VersionsOrdered'
  BY <1>2 DEF VersionsOrdered, index
<1>4. ASSUME NEW c \in Conversations PROVE Explained(c)'
  <2>1. MissedSince(c) => MissedSince(c)'
    BY <1>2 DEF MissedSince, index
  <2>2. Explained(c)
    OBVIOUS
  <2>3. ~InFlight(c)'
    BY <1>1 DEF InFlight, MutationSteps
  <2>4. CASE c # job.conv
    <3>1. dirty'[c] = dirty[c]
      BY <2>4 DEF TypeOK
    <3>2. ~InFlight(c)
      BY <2>4 DEF InFlight
    <3>3. QED
      BY <2>1, <2>2, <2>3, <3>1, <3>2 DEF Explained, index
  <2>5. CASE c = job.conv /\ job.step = "unmark"
    <3>1. dirty[c]
      BY <2>5 DEF MutationSteps
    <3>2. job.owns
      BY <2>5
    <3>3. QED
      BY <2>1, <2>2, <2>5, <3>1, <3>2 DEF Explained, index, InFlight, MutationSteps
  <2>6. CASE c = job.conv /\ job.step = "settle"
    BY <2>6 DEF Explained, index
  <2>7. QED
    BY <1>1, <2>4, <2>5, <2>6
<1>5. job'.step = "read" => rows'[job'.conv] = files'[job'.conv]
  BY <1>1 DEF index
<1>6. QED
  BY <1>1, <1>3, <1>4, <1>5 DEF MutationSteps

\* A metadata change: nobody is mutating a message, and its version is undecided.
LEMMA StepBumpMetadata ==
  ASSUME IInv, TypeOK', BumpMetadataVersion
  PROVE  IInv'
<1> USE DEF IInv, DifferencesAreExplained, BumpMetadataVersion, PageReadIsCurrent
<1>1. job'.step = "cover"
  BY IdleIsJob DEF Job
<1>2. Settled' = Settled /\ version' > 0
  BY <1>1 DEF Settled, TypeOK
<1>3. VersionsOrdered'
  BY <1>2 DEF VersionsOrdered, index
<1>4. ASSUME NEW c \in Conversations PROVE Explained(c)'
  <2>1. ~InFlight(c) /\ ~InFlight(c)'
    BY <1>1 DEF InFlight, MutationSteps
  <2>2. MissedSince(c) => MissedSince(c)'
    BY <1>2 DEF MissedSince, index
  <2>3. QED
    BY <2>1, <2>2 DEF Explained, index
<1>5. QED
  BY <1>1, <1>2, <1>3, <1>4 DEF MutationSteps

\* Covering a metadata version, or failing to: it has no messages to miss.
LEMMA StepCoverMetadata ==
  ASSUME IInv, TypeOK', CoverMetadataVersion
  PROVE  IInv'
<1> USE DEF IInv, DifferencesAreExplained, CoverMetadataVersion, PageReadIsCurrent
<1>1. job'.step = "idle"
  BY IdleIsJob
<1>2. Settled = version - 1 /\ Settled' = version /\ version > 0 /\ version \in Nat
  BY <1>1 DEF Settled, TypeOK
<1>3. VersionsOrdered'
  BY <1>2, CoverageOrdered DEF VersionsOrdered, TypeOK
<1>4. ASSUME NEW c \in Conversations PROVE Explained(c)'
  <2>1. ~InFlight(c) /\ ~InFlight(c)'
    BY <1>1 DEF InFlight, MutationSteps
  <2>2. Settled <= Settled'
    BY <1>2
  <2>3. MissedSince(c) => MissedSince(c)'
    BY <2>2, MissedPersists
  <2>4. QED
    BY <2>1, <2>3 DEF Explained
<1>5. QED
  BY <1>1, <1>3, <1>4 DEF MutationSteps

\* A history request takes the lock.
LEMMA StepBeginLoad ==
  ASSUME IInv, TypeOK', NEW c0 \in Conversations, BeginLoad(c0)
  PROVE  IInv'
<1> USE DEF IInv, DifferencesAreExplained, BeginLoad, PageReadIsCurrent
<1>1. job'.step = "reconcile"
  BY IdleIsJob DEF Job
<1>2. Settled' = Settled
  BY <1>1 DEF Settled
<1>3. VersionsOrdered'
  BY <1>2 DEF VersionsOrdered, index
<1>4. ASSUME NEW c \in Conversations PROVE Explained(c)'
  <2>1. ~InFlight(c) /\ ~InFlight(c)'
    BY <1>1 DEF InFlight, MutationSteps
  <2>2. MissedSince(c) => MissedSince(c)'
    BY <1>2 DEF MissedSince, index
  <2>3. QED
    BY <2>1, <2>2 DEF Explained, index
<1>5. QED
  BY <1>1, <1>3, <1>4 DEF MutationSteps

\* When the scan is skipped every explanation of a difference is excluded: no marker,
\* a reconciled conversation, and no version missed since.
LEMMA SkipExcludesDifferences ==
  ASSUME IInv, NEW c \in Conversations, CanSkipScan(c)
  PROVE  rows[c] = files[c]
<1> USE DEF IInv, DifferencesAreExplained, TypeOK
<1>1. ~dirty[c] /\ indexed_version[c] # NoVersion
  BY DEF CanSkipScan, IndexedNow, CoveredSince
<1>2. ~MissedSince(c)
  <2>1. Settled <= version /\ Settled \in Int
    BY DEF Settled
  <2>2. CASE indexed_version[c] = version
    BY <2>1, <2>2 DEF MissedSince
  <2>3. CASE CoveredSince(c)
    BY <2>1, <2>3 DEF MissedSince, CoveredSince
  <2>4. QED
    BY <2>2, <2>3 DEF CanSkipScan, IndexedNow
<1>3. ~InFlight(c)
  BY <1>1 DEF InFlight
<1>4. \A m \in Messages : rows[c][m] = files[c][m]
  BY <1>1, <1>2, <1>3 DEF Explained
<1>5. QED
  BY <1>4 DEF Contents

\* Skipping: the conversation moves to the current version with its rows complete.
LEMMA StepSkip ==
  ASSUME IInv, TypeOK', ReconcileBySkipping
  PROVE  IInv'
<1> USE DEF IInv, DifferencesAreExplained, ReconcileBySkipping, PageReadIsCurrent
<1>1. job'.step = "read" /\ job'.conv = job.conv
  BY GotoTyped DEF TypeOK, Steps
<1>2. Settled = version /\ Settled' = version
  BY <1>1 DEF Settled
<1>3. rows[job.conv] = files[job.conv]
  BY SkipExcludesDifferences DEF TypeOK, Job
<1>4. VersionsOrdered'
  BY <1>2 DEF VersionsOrdered, TypeOK
<1>5. ASSUME NEW c \in Conversations PROVE Explained(c)'
  <2>1. ~InFlight(c) /\ ~InFlight(c)'
    BY <1>1 DEF InFlight, MutationSteps
  <2>2. CASE c = job.conv
    BY <1>3, <2>2 DEF Explained
  <2>3. CASE c # job.conv
    <3>1. indexed_version'[c] = indexed_version[c]
      BY <2>3 DEF TypeOK
    <3>2. MissedSince(c) => MissedSince(c)'
      BY <1>2, <3>1 DEF MissedSince
    <3>3. QED
      BY <2>1, <3>1, <3>2 DEF Explained
  <2>4. QED
    BY <2>2, <2>3
<1>6. QED
  BY <1>1, <1>3, <1>4, <1>5 DEF MutationSteps

\* Scanning: the conversation has no difference left.
LEMMA StepScan ==
  ASSUME IInv, TypeOK', ReconcileByScanning
  PROVE  IInv'
<1> USE DEF IInv, DifferencesAreExplained, ReconcileByScanning, PageReadIsCurrent
<1>1. job'.step = "settle" /\ job'.conv = job.conv
  BY GotoTyped DEF TypeOK, Steps
<1>2. Settled = version /\ Settled' = version
  BY <1>1 DEF Settled
<1>3. VersionsOrdered'
  BY <1>2 DEF VersionsOrdered, TypeOK
<1>4. rows'[job.conv] = files'[job.conv]
  BY DEF TypeOK, Job
<1>5. ASSUME NEW c \in Conversations PROVE Explained(c)'
  <2>1. ~InFlight(c) /\ ~InFlight(c)'
    BY <1>1 DEF InFlight, MutationSteps
  <2>2. CASE c = job.conv
    BY <1>4, <2>2 DEF Explained
  <2>3. CASE c # job.conv
    <3>1. indexed_version'[c] = indexed_version[c] /\ rows'[c] = rows[c]
      BY <2>3 DEF TypeOK
    <3>2. MissedSince(c) => MissedSince(c)'
      BY <1>2, <3>1 DEF MissedSince
    <3>3. QED
      BY <2>1, <3>1, <3>2 DEF Explained
  <2>4. QED
    BY <2>2, <2>3
<1>6. QED
  BY <1>1, <1>3, <1>4, <1>5 DEF MutationSteps

\* Reading the page, falling back to the files, painting and answering leave files,
\* index and markers alone and are no part of a mutation.
LEMMA StepRead ==
  ASSUME IInv, TypeOK', ReadPage \/ IndexFails \/ WriteLatestPage
  PROVE  IInv'
<1> USE DEF IInv, DifferencesAreExplained, PageReadIsCurrent
<1>1. UNCHANGED <<files, version, dirty, index>>
  BY DEF ReadPage, IndexFails, WriteLatestPage
<1>2. job.step \in {"reconcile", "read", "paint"} /\ job'.step \in {"idle", "paint"}
  BY IdleIsJob DEF ReadPage, IndexFails, WriteLatestPage, TypeOK, Job
<1>3. Settled' = Settled
  BY <1>1, <1>2 DEF Settled
<1>4. VersionsOrdered'
  BY <1>1, <1>3 DEF VersionsOrdered, index
<1>5. ASSUME NEW c \in Conversations PROVE Explained(c)'
  <2>1. ~InFlight(c) /\ ~InFlight(c)'
    BY <1>2 DEF InFlight, MutationSteps
  <2>2. MissedSince(c) => MissedSince(c)'
    BY <1>1, <1>3 DEF MissedSince, index
  <2>3. QED
    BY <1>1, <2>1, <2>2 DEF Explained, index
<1>6. job'.step = "paint" => job'.page = files'[job'.conv]
  <2>1. CASE ReadPage
    BY <1>1, <2>1 DEF ReadPage, TypeOK, Job
  <2>2. CASE IndexFails
    BY <1>1, <2>2, IdleIsJob DEF IndexFails, TypeOK, Job
  <2>3. CASE WriteLatestPage
    BY <2>3, IdleIsJob DEF WriteLatestPage
  <2>4. QED
    BY <2>1, <2>2, <2>3
<1>7. QED
  BY <1>2, <1>4, <1>5, <1>6 DEF MutationSteps

\* A request that dies inside a mutation leaves its marker; its version, if it
\* committed one, stays uncovered.
LEMMA StepCrash ==
  ASSUME IInv, TypeOK', Crash
  PROVE  IInv'
<1> USE DEF IInv, DifferencesAreExplained, Crash, PageReadIsCurrent
<1>1. job'.step = "idle"
  BY IdleIsJob
<1>2. Settled <= Settled' /\ Settled \in Int /\ Settled' \in Int
  BY <1>1 DEF Settled, TypeOK
<1>3. VersionsOrdered'
  BY <1>2 DEF VersionsOrdered, index, TypeOK
<1>4. ASSUME NEW c \in Conversations PROVE Explained(c)'
  <2>1. ~InFlight(c)'
    BY <1>1 DEF InFlight, MutationSteps
  <2>2. InFlight(c) => dirty[c]
    BY DEF InFlight
  <2>3. MissedSince(c) => MissedSince(c)'
    BY <1>2, MissedPersists DEF index
  <2>4. QED
    BY <2>1, <2>2, <2>3 DEF Explained, index
<1>5. QED
  BY <1>1, <1>3, <1>4 DEF MutationSteps

\* An older release writes: its version is missed by every conversation.
LEMMA StepRollback ==
  ASSUME IInv, TypeOK', NEW c0 \in Conversations, NEW m0 \in Messages, RollbackWrite(c0, m0)
  PROVE  IInv'
<1> USE DEF IInv, DifferencesAreExplained, RollbackWrite, PageReadIsCurrent
<1>1. Settled = version /\ Settled' = version + 1 /\ version \in Nat
  BY DEF Settled, TypeOK
<1>2. VersionsOrdered'
  BY <1>1 DEF VersionsOrdered, index, TypeOK
<1>3. ASSUME NEW c \in Conversations PROVE MissedSince(c)'
  <2>1. Settled' \in (indexed_version'[c] + 1)..Settled'
    BY <1>1 DEF index, VersionsOrdered, TypeOK
  <2>2. Settled' > covered_through'
    BY <1>1 DEF index, VersionsOrdered, TypeOK
  <2>3. QED
    BY <2>1, <2>2 DEF MissedSince
<1>4. QED
  BY <1>2, <1>3 DEF Explained, MutationSteps

\* A lost index has reconciled nothing.
LEMMA StepLoseIndex ==
  ASSUME IInv, TypeOK', LoseIndex
  PROVE  IInv'
<1> USE DEF IInv, DifferencesAreExplained, LoseIndex, PageReadIsCurrent
<1>1. Settled' = version /\ version \in Nat
  BY DEF Settled, TypeOK
<1>2. VersionsOrdered'
  BY <1>1 DEF VersionsOrdered
<1>3. QED
  BY <1>2 DEF Explained, MutationSteps

\* The invariant is inductive: one step per action.
LEMMA InvariantStep == IInv /\ [Next]_vars => IInv'
<1> SUFFICES ASSUME IInv, [Next]_vars PROVE IInv'
  OBVIOUS
<1>1. TypeOK'
  BY TypeStep DEF IInv
<1>2. ASSUME NEW c \in Conversations, NEW m \in Messages, BeginMutation(c, m)
      PROVE  IInv'
  BY <1>1, <1>2, StepBegin
<1>3. CASE WriteMessage
  BY <1>1, <1>3, StepWrite
<1>4. CASE BumpVersion
  BY <1>1, <1>4, StepBump
<1>5. CASE MirrorMessage
  BY <1>1, <1>5, StepMirror
<1>6. CASE MirrorFails
  BY <1>1, <1>6, StepMirrorFails
<1>7. CASE FinishMutation
  BY <1>1, <1>7, StepFinish
<1>8. CASE BumpMetadataVersion
  BY <1>1, <1>8, StepBumpMetadata
<1>9. CASE CoverMetadataVersion
  BY <1>1, <1>9, StepCoverMetadata
<1>10. ASSUME NEW c \in Conversations, BeginLoad(c)
       PROVE  IInv'
  BY <1>1, <1>10, StepBeginLoad
<1>11. CASE ReconcileBySkipping
  BY <1>1, <1>11, StepSkip
<1>12. CASE ReconcileByScanning
  BY <1>1, <1>12, StepScan
<1>13. CASE ReadPage \/ IndexFails \/ WriteLatestPage
  BY <1>1, <1>13, StepRead
<1>14. CASE Crash
  BY <1>1, <1>14, StepCrash
<1>15. CASE LoseIndex
  BY <1>1, <1>15, StepLoseIndex
<1>16. ASSUME NEW c \in Conversations, NEW m \in Messages, RollbackWrite(c, m)
       PROVE  IInv'
  BY <1>1, <1>16, StepRollback
<1>17. CASE UNCHANGED vars
  BY <1>17 DEF vars, index, IInv, TypeOK, DifferencesAreExplained, VersionsOrdered, Settled,
     Explained, InFlight, MissedSince, PageReadIsCurrent
<1>18. QED
  BY <1>2, <1>3, <1>4, <1>5, <1>6, <1>7, <1>8, <1>9, <1>10, <1>11, <1>12, <1>13,
     <1>14, <1>15, <1>16, <1>17 DEF Next, Mutation, Reading, External

\* In every behaviour, every difference between the index and the files has a reason
\* that makes the next reconciliation scan.
THEOREM DifferencesStayExplained == Spec => []DifferencesAreExplained
<1>1. IInv => DifferencesAreExplained
  BY DEF IInv
<1>2. QED
  BY <1>1, ExplainedInit, InvariantStep, PTL DEF Spec

\* A reconciliation that skips the scan serves exactly the saved messages, after any
\* crashes, failed mirrors, file-only writes and lost indexes.
THEOREM SkippingIsSound == Spec => []SkipIsSound
<1>1. IInv => SkipIsSound
  BY SkipExcludesDifferences DEF SkipIsSound
<1>2. QED
  BY <1>1, ExplainedInit, InvariantStep, PTL DEF Spec

---------------------------------------------------------------------------
(* The index implements SavedHistory.                                          *)

\* A page is painted from what is saved, a message is saved by one write, and nothing
\* else touches either.
LEMMA StepImplementsSavedHistory ==
  IInv /\ [Next]_vars => [Saved!Next]_<<files, page>>
<1> SUFFICES ASSUME IInv, [Next]_vars PROVE [Saved!Next]_<<files, page>>
  OBVIOUS
<1> USE DEF IInv
<1>1. CASE WriteMessage
  <2>1. Saved!Save(job.conv, job.msg)
    BY <1>1 DEF WriteMessage, Saved!Save
  <2>2. QED
    BY <2>1 DEF Saved!Next, TypeOK, Job
<1>2. CASE WriteLatestPage
  <2>1. job.page = files[job.conv]
    BY <1>2 DEF WriteLatestPage, DifferencesAreExplained, PageReadIsCurrent
  <2>2. Saved!Show(job.conv) \/ UNCHANGED <<files, page>>
    BY <1>2, <2>1 DEF WriteLatestPage, Saved!Show
  <2>3. QED
    BY <2>2 DEF Saved!Next, TypeOK, Job
<1>3. ASSUME NEW c \in Conversations, NEW m \in Messages, RollbackWrite(c, m)
      PROVE  [Saved!Next]_<<files, page>>
  BY <1>3 DEF RollbackWrite, Saved!Next, Saved!Save
<1>4. CASE UNCHANGED <<files, page>>
  BY <1>4
<1>5. QED
  BY <1>1, <1>2, <1>3, <1>4
     DEF Next, Mutation, Reading, External, vars, BeginMutation, BumpVersion, MirrorMessage,
         MirrorFails, FinishMutation, BumpMetadataVersion, CoverMetadataVersion, BeginLoad,
         ReconcileBySkipping, ReconcileByScanning, ReadPage, IndexFails, Crash, LoseIndex

\* The history a reader is shown is the one that is saved: MessageHistory implements
\* SavedHistory.
THEOREM HistoryImplementsSavedHistory == Spec => ImplementsSavedHistory
<1>1. Init => Saved!Init
  BY DEF Init, Saved!Init, Saved!Empty, Nothing
<1>2. QED
  BY <1>1, ExplainedInit, InvariantStep, StepImplementsSavedHistory, PTL
     DEF Spec, ImplementsSavedHistory, Saved!Spec
============================================================================
