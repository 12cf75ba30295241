----------------------------- MODULE PartsProofs -----------------------------
(* Proofs about the parts of the app's screens, for all values of MCParts' constants. A    *)
(* step of MCParts is a step of one part, and the others stand still, so that an invariant *)
(* of a part is one of the whole: the lemmas ...Run say so for each part.                *)
EXTENDS PartsInvariants, TLAPS, FiniteSetTheorems, SequenceTheorems, WellFoundedInduction

---------------------------------------------------------------------------
(* Requests: the owner's go first. *)

LEMMA PumpWaits ==
  ASSUME NEW q, NEW a, NEW d, NEW o, o # {}, Lanes!Pump(o, q, a, d)
  PROVE  active' = a
BY DEF Lanes!Pump, Lanes!MayStart

LEMMA OwnerWaits ==
  ASSUME Lanes!Next
  PROVE  out # {} /\ active' # active => active' = None \/ out' = {}
<1>1. SUFFICES ASSUME out # {}, active' # active, out' # {} PROVE active' = None
  OBVIOUS
<1>2. CASE \E r \in Owner : Lanes!AskOwner(r)
  BY <1>1, <1>2 DEF Lanes!AskOwner
<1>3. CASE \E r \in Owner : Lanes!EndAny(r)
  BY <1>1, <1>3, PumpWaits DEF Lanes!EndAny, Lanes!EndOwner, Lanes!Goes
<1>4. CASE \E e \in Errands : Lanes!AskErrand(e) \/ Lanes!Abort(e)
  BY <1>1, <1>4, PumpWaits DEF Lanes!AskErrand, Lanes!Abort, Lanes!Enqueue
<1>5. CASE \E j \in Lanes!Upkeep : Lanes!End(j)
  BY <1>1, <1>5, PumpWaits DEF Lanes!End, Lanes!EndErrand, Lanes!EndTick
<1>6. CASE \E p \in Pollers : Lanes!Turn(p)
  BY <1>1, <1>6, PumpWaits DEF Lanes!Turn, Lanes!Enqueue
<1>7. CASE \E v \in BOOLEAN : Lanes!Report(v)
  BY <1>1, <1>7, PumpWaits DEF Lanes!Report
<1>8. QED
  BY <1>2, <1>3, <1>4, <1>5, <1>6, <1>7 DEF Lanes!Next

\* OwnerGoesFirst of MCParts: once the owner waits for a request, no more upkeep goes out
\* before the owner's requests are over (call and pumpBackground of api.js).
THEOREM OwnerHolds == Spec => OwnerGoesFirst
<1>1. [Next]_vars => [out # {} /\ active' # active => active' = None \/ out' = {}]_Lanes!vars
  BY OwnerWaits DEF Next, StandStill, vars, Lanes!vars, Lanes!lanes, Lanes!loops, lanes
<1>2. QED
  BY <1>1, PTL DEF Spec, OwnerGoesFirst, Lanes!OwnerGoesFirst

---------------------------------------------------------------------------
(* Drafts. *)

LEMMA DraftAssumed ==
  Legacy \subseteq Drafts /\ None \notin Drafts /\ DraftTaps \in Nat /\ MaxWrites \in Nat \ {0}
BY PartsAssumption DEF Draft!ParticipationAssumption

LEMMA IdleSlip ==
  Draft!Idle \in Slips /\ \A l : DraftInv => SlipSound(l, Draft!Idle)
BY DEF Draft!Idle, Slips, SlipSound, DraftInv, DraftTypes, MaybeDraft

LEMMA DraftInit == ASSUME Draft!Init PROVE DraftInv
<1>1. DraftTypes
  BY DraftAssumed, IdleSlip DEF Draft!Init, DraftTypes, MaybeDraft
<1>2. \A w \in Windows, l \in Draft!Lanes : draft[w][l] = Draft!Idle
  BY DEF Draft!Init
<1>3. QED
  BY <1>1, <1>2, DraftAssumed DEF DraftInv, DraftTypes, SlipSound, Draft!Idle

(* One slip changes, and the file with it or not. *)
LEMMA SlipChanges ==
  ASSUME DraftInv, NEW w \in Windows, NEW l \in Draft!Lanes, NEW t \in Slips,
         draft' = [draft EXCEPT ![w][l] = t], DraftTypes',
         (stored' = stored /\ version' = version) \/ version' = version + 1,
         SlipSound(l, t)'
  PROVE  DraftInv'
<1>1. \A v \in Windows, k \in Draft!Lanes : draft'[v][k] = IF v = w /\ k = l THEN t ELSE draft[v][k]
  BY DEF DraftInv, DraftTypes
<1>2. \A v \in Windows, k \in Draft!Lanes : draft[v][k] \in Slips
  BY DEF DraftInv, DraftTypes
<1>3. version \in Nat
  BY DraftAssumed DEF DraftInv, DraftTypes
<1>4. ASSUME NEW v \in Windows, NEW k \in Draft!Lanes, ~(v = w /\ k = l)
      PROVE  SlipSound(k, draft[v][k])'
  <2>1. draft'[v][k] = draft[v][k] /\ SlipSound(k, draft[v][k]) /\ draft[v][k] \in Slips
    BY <1>1, <1>2, <1>4 DEF DraftInv
  <2>2. QED
    BY <1>3, <2>1 DEF SlipSound, Slips
<1>5. QED
  BY <1>1, <1>4 DEF DraftInv

LEMMA FileChanges ==
  ASSUME DraftInv, UNCHANGED draft, DraftTypes',
         (stored' = stored /\ version' = version) \/ version' = version + 1
  PROVE  DraftInv'
<1>1. \A v \in Windows, k \in Draft!Lanes : draft[v][k] \in Slips /\ version \in Nat
  BY DraftAssumed DEF DraftInv, DraftTypes
<1>2. ASSUME NEW v \in Windows, NEW k \in Draft!Lanes
      PROVE  SlipSound(k, draft[v][k])'
  <2>1. SlipSound(k, draft[v][k]) /\ draft[v][k] \in Slips
    BY <1>1 DEF DraftInv
  <2>2. QED
    BY <1>1, <2>1 DEF SlipSound, Slips
<1>3. QED
  BY <1>2 DEF DraftInv

(* The ways in which a slip changes. *)
LEMMA SlipTyped ==
  ASSUME DraftInv, NEW w \in Windows, NEW l \in Draft!Lanes
  PROVE  /\ draft[w][l] \in Slips /\ SlipSound(l, draft[w][l])
         /\ draft \in [Windows -> [Draft!Lanes -> Slips]]
         /\ \A t \in Slips : [draft EXCEPT ![w][l] = t] \in [Windows -> [Draft!Lanes -> Slips]]
BY DEF DraftInv, DraftTypes

LEMMA Ending ==
  ASSUME DraftInv, NEW w \in Windows, NEW l \in Draft!Lanes, Draft!Ends(w, l)
  PROVE  /\ draft' = [draft EXCEPT ![w][l] = Draft!Idle]
         /\ draft' \in [Windows -> [Draft!Lanes -> Slips]]
         /\ version' \in Nat => SlipSound(l, Draft!Idle)'
<1>1. draft' = [draft EXCEPT ![w][l] = Draft!Idle]
  BY DEF Draft!Ends
<1>2. Draft!Idle.version = 0 /\ Draft!Idle.at = "idle" /\ Draft!Idle.of = Draft!Idle.shown
  BY DEF Draft!Idle
<1>3. QED
  BY <1>1, <1>2, SlipTyped, IdleSlip DEF SlipSound

LEMMA Going ==
  ASSUME DraftInv, NEW w \in Windows, NEW l \in Draft!Lanes,
         NEW a \in {"read", "write", "load", "join"}, Draft!Goes(w, l, a)
  PROVE  \E t \in Slips :
           /\ draft' = [draft EXCEPT ![w][l] = t]
           /\ draft' \in [Windows -> [Draft!Lanes -> Slips]]
           /\ t.at = a /\ t.of = draft[w][l].of /\ t.shown = draft[w][l].shown
           /\ t.version = version
<1>1. draft[w][l] \in Slips /\ version \in Nat
  BY SlipTyped, DraftAssumed DEF DraftInv, DraftTypes
<1> DEFINE t == [draft[w][l] EXCEPT !.at = a, !.version = version]
<1>2. /\ t \in Slips /\ t.at = a /\ t.of = draft[w][l].of /\ t.shown = draft[w][l].shown
      /\ t.version = version
  BY <1>1 DEF Slips
<1>3. draft' = [draft EXCEPT ![w][l] = t]
  BY SlipTyped DEF Draft!Goes
<1>4. QED
  BY <1>2, <1>3, SlipTyped

LEMMA EndStep ==
  ASSUME DraftInv, NEW w \in Windows, NEW l \in Draft!Lanes, Draft!Ends(w, l), DraftTypes',
         (stored' = stored /\ version' = version) \/ version' = version + 1
  PROVE  DraftInv'
<1>1. version' \in Nat
  BY DraftAssumed DEF DraftTypes
<1>2. QED
  BY <1>1, Ending, IdleSlip, SlipChanges

LEMMA GoStep ==
  ASSUME DraftInv, NEW w \in Windows, NEW l \in Draft!Lanes,
         NEW a \in {"read", "write", "load", "join"}, Draft!Goes(w, l, a), DraftTypes',
         \/ version' = version + 1 /\ a # "write"
         \/ /\ stored' = stored /\ version' = version
            /\ a = "write" => stored = (IF l = "continue" THEN None ELSE draft[w][l].shown)
            /\ a = "write" /\ l = "continue" => draft[w][l].of \notin Legacy,
         l # "continue" /\ a \in {"read", "write"} => draft[w][l].of = draft[w][l].shown,
         l = "continue" => a # "read"
  PROVE  DraftInv'
<1>1. PICK t \in Slips :
        /\ draft' = [draft EXCEPT ![w][l] = t]
        /\ t.at = a /\ t.of = draft[w][l].of /\ t.shown = draft[w][l].shown
        /\ t.version = version
  BY Going
<1>2. version \in Nat /\ SlipSound(l, draft[w][l])
  BY DraftAssumed DEF DraftInv, DraftTypes
<1>3. SlipSound(l, t)'
  BY <1>1, <1>2 DEF SlipSound
<1>4. QED
  BY <1>1, <1>3, SlipChanges

LEMMA NewSlip ==
  ASSUME DraftInv, NEW w \in Windows, NEW l \in Draft!Lanes, NEW t \in Slips,
         draft' = [draft EXCEPT ![w][l] = t], t.version = 0, t.at \in {"read", "sent"},
         UNCHANGED <<stored, version, member, intent, intents>>, draftTaps' \in 0..DraftTaps,
         l # "continue" /\ t.at = "read" => t.of = t.shown, l = "discard" => t.of = t.shown
  PROVE  DraftInv'
<1>1. DraftTypes'
  BY SlipTyped DEF DraftInv, DraftTypes
<1>2. version \in Nat
  BY DraftAssumed DEF DraftInv, DraftTypes
<1>3. SlipSound(l, t)'
  BY <1>2 DEF SlipSound
<1>4. QED
  BY <1>1, <1>3, SlipChanges

LEMMA Tapped == ASSUME DraftInv, Draft!Tap PROVE draftTaps' \in 0..DraftTaps
BY DraftAssumed DEF Draft!Tap, DraftInv, DraftTypes

LEMMA KeepContinue ==
  ASSUME DraftInv, NEW w \in Windows, Draft!Continue(w)
  PROVE  DraftInv'
<1> DEFINE t == [Draft!Idle EXCEPT !.at = "read", !.of = intent[w]]
<1>1. t \in Slips /\ t.version = 0 /\ t.at = "read"
  BY DEF Draft!Idle, Slips, DraftInv, DraftTypes, MaybeDraft
<1>2. draft' = [draft EXCEPT ![w]["continue"] = t]
  BY DEF Draft!Continue
<1>3. "continue" \in Draft!Lanes
  BY DEF Draft!Lanes
<1>4. draftTaps' \in 0..DraftTaps
  BY Tapped DEF Draft!Continue
<1> HIDE DEF t
<1>5. QED
  BY <1>1, <1>2, <1>3, <1>4, NewSlip DEF Draft!Continue

LEMMA KeepSubmit ==
  ASSUME DraftInv, NEW w \in Windows, NEW d \in Drafts, Draft!Submit(w, d)
  PROVE  DraftInv'
<1> DEFINE t == [Draft!Idle EXCEPT !.at = "sent", !.of = d, !.shown = intent[w]]
<1>1. t \in Slips /\ t.version = 0 /\ t.at = "sent"
  BY DEF Draft!Idle, Slips, DraftInv, DraftTypes, MaybeDraft
<1>2. draft' = [draft EXCEPT ![w]["complete"] = t]
  BY DEF Draft!Submit
<1>3. "complete" \in Draft!Lanes
  BY DEF Draft!Lanes
<1>4. draftTaps' \in 0..DraftTaps
  BY Tapped DEF Draft!Submit
<1> HIDE DEF t
<1>5. QED
  BY <1>1, <1>2, <1>3, <1>4, NewSlip DEF Draft!Submit

LEMMA KeepDiscard ==
  ASSUME DraftInv, NEW w \in Windows, Draft!Discard(w)
  PROVE  DraftInv'
<1> DEFINE t == [Draft!Idle EXCEPT !.at = "read", !.of = intent[w], !.shown = intent[w]]
<1>1. t \in Slips /\ t.version = 0 /\ t.at = "read" /\ t.of = t.shown
  BY DEF Draft!Idle, Slips, DraftInv, DraftTypes, MaybeDraft
<1>2. draft' = [draft EXCEPT ![w]["discard"] = t]
  BY DEF Draft!Discard
<1>3. "discard" \in Draft!Lanes
  BY DEF Draft!Lanes
<1>4. draftTaps' \in 0..DraftTaps
  BY Tapped DEF Draft!Discard
<1> HIDE DEF t
<1>5. QED
  BY <1>1, <1>2, <1>3, <1>4, NewSlip DEF Draft!Discard

LEMMA StillTyped ==
  ASSUME DraftInv, NEW w \in Windows, NEW l \in Draft!Lanes,
         \/ Draft!Ends(w, l)
         \/ \E a \in {"read", "write", "load", "join"} : Draft!Goes(w, l, a),
         UNCHANGED <<member, intents, draftTaps>>,
         \/ UNCHANGED <<stored, version>>
         \/ \E d \in MaybeDraft : Draft!Writes(d),
         \/ UNCHANGED intent
         \/ \E d \in MaybeDraft : intent' = [intent EXCEPT ![w] = d]
  PROVE  DraftTypes' /\ ((stored' = stored /\ version' = version) \/ version' = version + 1)
<1>1. draft' \in [Windows -> [Draft!Lanes -> Slips]]
  BY Ending, Going
<1>2. intent' \in [Windows -> MaybeDraft]
  BY DEF DraftInv, DraftTypes
<1>3. /\ stored' \in MaybeDraft /\ version' \in 0..MaxWrites
      /\ (stored' = stored /\ version' = version) \/ version' = version + 1
  BY DraftAssumed DEF Draft!Writes, DraftInv, DraftTypes
<1>4. QED
  BY <1>1, <1>2, <1>3 DEF DraftInv, DraftTypes

LEMMA KeepReadToSave ==
  ASSUME DraftInv, NEW w \in Windows, Draft!ReadToSave(w)
  PROVE  DraftInv'
<1>1. "continue" \in Draft!Lanes /\ draft[w]["continue"].of \in MaybeDraft
  BY SlipTyped DEF Draft!Lanes, Slips
<1>2. UNCHANGED <<stored, version, member, intents, draftTaps>>
  BY DEF Draft!ReadToSave
<1>3. CASE Draft!NotSaved(w)
  BY <1>1, <1>2, <1>3, StillTyped, EndStep DEF Draft!NotSaved
<1>4. CASE Draft!Saved(w)
  <2>1. \E d \in MaybeDraft : intent' = [intent EXCEPT ![w] = d]
    BY <1>1, <1>4 DEF Draft!Saved
  <2>2. CASE Draft!Ends(w, "continue")
    BY <1>1, <1>2, <2>1, <2>2, StillTyped, EndStep
  <2>3. CASE Draft!Goes(w, "continue", "join")
    <3>1. DraftTypes'
      BY <1>1, <1>2, <2>1, <2>3, StillTyped
    <3> QED
      BY <1>1, <1>2, <2>3, <3>1, GoStep
  <2> QED
    BY <1>4, <2>2, <2>3 DEF Draft!Saved
<1>5. CASE Draft!MayWrite(draft[w]["continue"].of) /\ Draft!Goes(w, "continue", "write")
           /\ UNCHANGED intent
  <2>1. DraftTypes'
    BY <1>1, <1>2, <1>5, StillTyped
  <2>2. stored = None /\ draft[w]["continue"].of \notin Legacy
    BY <1>5 DEF Draft!MayWrite, Draft!Writable
  <2> QED
    BY <1>1, <1>2, <1>5, <2>1, <2>2, GoStep
<1>6. QED
  BY <1>3, <1>4, <1>5 DEF Draft!ReadToSave

LEMMA KeepWriteToSave ==
  ASSUME DraftInv, NEW w \in Windows, Draft!WriteToSave(w)
  PROVE  DraftInv'
<1>1. "continue" \in Draft!Lanes /\ draft[w]["continue"].of \in MaybeDraft
  BY SlipTyped DEF Draft!Lanes, Slips
<1>2. UNCHANGED <<member, intents, draftTaps>>
  BY DEF Draft!WriteToSave
<1>3. CASE Draft!NotSaved(w) /\ UNCHANGED <<stored, version>>
  BY <1>1, <1>2, <1>3, StillTyped, EndStep DEF Draft!NotSaved
<1>4. CASE Draft!Writes(draft[w]["continue"].of)
  <2>1. version' = version + 1
    BY <1>4 DEF Draft!Writes
  <2>2. CASE Draft!NotSaved(w)
    BY <1>1, <1>2, <1>4, <2>1, <2>2, StillTyped, EndStep DEF Draft!NotSaved
  <2>3. CASE Draft!Saved(w)
    <3>1. \E d \in MaybeDraft : intent' = [intent EXCEPT ![w] = d]
      BY <1>1, <2>3 DEF Draft!Saved
    <3>2. CASE Draft!Ends(w, "continue")
      BY <1>1, <1>2, <1>4, <2>1, <3>1, <3>2, StillTyped, EndStep
    <3>3. CASE Draft!Goes(w, "continue", "join")
      <4>1. DraftTypes'
        BY <1>1, <1>2, <1>4, <3>1, <3>3, StillTyped
      <4> QED
        BY <1>1, <2>1, <3>3, <4>1, GoStep
    <3> QED
      BY <2>3, <3>2, <3>3 DEF Draft!Saved
  <2> QED
    BY <1>3, <2>2, <2>3 DEF Draft!WriteToSave
<1>5. QED
  BY <1>3, <1>4 DEF Draft!WriteToSave

LEMMA KeepSubmitted ==
  ASSUME DraftInv, NEW w \in Windows, Draft!Submitted(w)
  PROVE  DraftInv'
<1>1. "complete" \in Draft!Lanes
  BY DEF Draft!Lanes
<1>2. UNCHANGED <<stored, version, member, intent, intents, draftTaps>>
  BY DEF Draft!Submitted
<1>3. CASE Draft!Ends(w, "complete")
  BY <1>1, <1>2, <1>3, StillTyped, EndStep
<1>4. CASE Draft!Completes(draft[w]["complete"]) /\ Draft!Goes(w, "complete", "read")
  <2>1. DraftTypes'
    BY <1>1, <1>2, <1>4, StillTyped
  <2> QED
    BY <1>1, <1>2, <1>4, <2>1, GoStep DEF Draft!Completes
<1>5. QED
  BY <1>3, <1>4 DEF Draft!Submitted

LEMMA KeepReadToClear ==
  ASSUME DraftInv, NEW w \in Windows, NEW l \in {"discard", "complete"}, Draft!ReadToClear(w, l)
  PROVE  DraftInv'
<1>1. l \in Draft!Lanes /\ l # "continue"
  BY DEF Draft!Lanes
<1>2. UNCHANGED <<stored, version, member, intent, intents, draftTaps>>
  BY DEF Draft!ReadToClear
<1>3. CASE Draft!Ends(w, l)
  BY <1>1, <1>2, <1>3, StillTyped, EndStep
<1>4. CASE Draft!Goes(w, l, "load")
  <2>1. DraftTypes'
    BY <1>1, <1>2, <1>4, StillTyped
  <2> QED
    BY <1>1, <1>2, <1>4, <2>1, GoStep
<1>5. CASE stored = draft[w][l].shown /\ Draft!Goes(w, l, "write")
  <2>1. DraftTypes'
    BY <1>1, <1>2, <1>5, StillTyped
  <2>2. draft[w][l].of = draft[w][l].shown
    BY <1>1, SlipTyped DEF Draft!ReadToClear, SlipSound
  <2> QED
    BY <1>1, <1>2, <1>5, <2>1, <2>2, GoStep
<1>6. QED
  BY <1>3, <1>4, <1>5 DEF Draft!ReadToClear

LEMMA KeepWriteToClear ==
  ASSUME DraftInv, NEW w \in Windows, NEW l \in {"discard", "complete"}, Draft!WriteToClear(w, l)
  PROVE  DraftInv'
<1>1. l \in Draft!Lanes /\ l # "continue" /\ None \in MaybeDraft
  BY DEF Draft!Lanes, MaybeDraft
<1>2. UNCHANGED <<member, intent, intents, draftTaps>>
  BY DEF Draft!WriteToClear
<1>3. CASE Draft!Ends(w, l) /\ UNCHANGED <<stored, version>>
  BY <1>1, <1>2, <1>3, StillTyped, EndStep
<1>4. CASE Draft!Writes(None) /\ Draft!Ends(w, l)
  BY <1>1, <1>2, <1>4, StillTyped, EndStep
<1>5. CASE Draft!Writes(None) /\ Draft!Goes(w, l, "load")
  <2>1. DraftTypes' /\ version' = version + 1
    BY <1>1, <1>2, <1>5, StillTyped DEF Draft!Writes
  <2> QED
    BY <1>1, <1>5, <2>1, GoStep
<1>6. QED
  BY <1>3, <1>4, <1>5 DEF Draft!WriteToClear

LEMMA KeepReload ==
  ASSUME DraftInv, NEW w \in Windows, NEW l \in {"discard", "complete"}, Draft!Reload(w, l)
  PROVE  DraftInv'
<1>1. l \in Draft!Lanes /\ stored \in MaybeDraft
  BY DEF Draft!Lanes, DraftInv, DraftTypes
<1>2. QED
  BY <1>1, StillTyped, EndStep DEF Draft!Reload

LEMMA KeepDraft ==
  ASSUME DraftInv, Draft!Next
  PROVE  DraftInv'
<1>1. ASSUME NEW w \in Windows, Draft!Learn(w) \/ Draft!Load(w) \/ Draft!RetryLoad(w)
      PROVE  DraftInv'
  <2>1. UNCHANGED <<stored, version, draft>> /\ draftTaps' \in 0..DraftTaps
    BY <1>1, Tapped DEF Draft!Learn, Draft!Load, Draft!RetryLoad, DraftInv, DraftTypes
  <2>2. member' \in [Windows -> BOOLEAN]
    BY <1>1 DEF Draft!Learn, Draft!Load, Draft!RetryLoad, DraftInv, DraftTypes
  <2>3. intent' \in [Windows -> MaybeDraft]
    BY <1>1 DEF Draft!Learn, Draft!Load, Draft!RetryLoad, DraftInv, DraftTypes
  <2>4. intents' \in [Windows -> {"loading", "ready", "error"}]
    BY <1>1 DEF Draft!Learn, Draft!Load, Draft!RetryLoad, DraftInv, DraftTypes
  <2>5. DraftTypes'
    BY <2>1, <2>2, <2>3, <2>4 DEF DraftInv, DraftTypes
  <2> QED
    BY <2>1, <2>5, FileChanges
<1>2. ASSUME NEW w \in Windows, Draft!JoinEnds(w)
      PROVE  DraftInv'
  <2>1. "continue" \in Draft!Lanes
    BY DEF Draft!Lanes
  <2> QED
    BY <1>2, <2>1, StillTyped, EndStep DEF Draft!JoinEnds
<1>3. ASSUME NEW d \in Drafts, Draft!OtherSave(d)
      PROVE  DraftInv'
  <2>1. version' = version + 1 /\ UNCHANGED draft /\ DraftTypes'
    BY <1>3, DraftAssumed DEF Draft!OtherSave, Draft!Writes, DraftInv, DraftTypes, MaybeDraft
  <2> QED
    BY <2>1, FileChanges
<1>4. QED
  BY <1>1, <1>2, <1>3, KeepContinue, KeepReadToSave, KeepWriteToSave, KeepSubmit, KeepSubmitted,
     KeepDiscard, KeepReadToClear, KeepWriteToClear, KeepReload DEF Draft!Next, Draft!Keeps

LEMMA DraftsRun ==
  ASSUME [Next]_vars
  PROVE  Draft!Next \/ UNCHANGED Draft!vars
BY DEF Next, StandStill, vars, drafts, Draft!vars

LEMMA DraftHolds == Spec => []DraftInv
<1>1. Init => DraftInv
  BY DraftInit DEF Init
<1>2. DraftInv /\ UNCHANGED Draft!vars => DraftInv'
  BY DEF Draft!vars, DraftInv, DraftTypes, SlipSound
<1>3. DraftInv /\ [Next]_vars => DraftInv'
  BY <1>2, DraftsRun, KeepDraft
<1>4. QED
  BY <1>1, <1>3, PTL DEF Spec

\* GoesByChoice of MCParts: a saved draft goes only because someone discarded or submitted
\* that very draft, whatever the windows do with the file (participation.js, compareAndSet).
THEOREM DraftsGoByChoice == Spec => GoesByChoice
<1> DEFINE Chosen ==
      /\ stored' = None
      /\ \E w \in Windows, l \in {"discard", "complete"} :
           draft[w][l].at = "write" /\ draft[w][l].of = stored
<1>1. ASSUME DraftInv, Draft!Next, stored # None, stored' # stored
      PROVE  Chosen
  <2>1. \A w \in Windows, l \in Draft!Lanes :
          /\ SlipSound(l, draft[w][l])
          /\ draft[w][l].at = "write" /\ draft[w][l].version = version =>
               stored = IF l = "continue" THEN None ELSE draft[w][l].shown
    BY <1>1 DEF DraftInv, SlipSound
  <2>2. ~\E w \in Windows : Draft!WriteToSave(w)
    BY <1>1, <2>1 DEF Draft!WriteToSave, Draft!Meets, Draft!Lanes
  <2>3. \E w \in Windows, l \in {"discard", "complete"} : Draft!WriteToClear(w, l)
    BY <1>1, <2>2 DEF Draft!Next, Draft!Keeps, Draft!Learn, Draft!Load, Draft!RetryLoad,
       Draft!Continue, Draft!ReadToSave, Draft!JoinEnds, Draft!Submit, Draft!Submitted,
       Draft!Discard, Draft!ReadToClear, Draft!Reload, Draft!OtherSave
  <2>4. PICK w \in Windows, l \in {"discard", "complete"} : Draft!WriteToClear(w, l)
    BY <2>3
  <2>5. draft[w][l].at = "write" /\ draft[w][l].version = version /\ stored' = None
    BY <1>1, <2>4 DEF Draft!WriteToClear, Draft!Meets, Draft!Writes
  <2>6. draft[w][l].of = stored
    BY <2>1, <2>5 DEF Draft!Lanes, SlipSound
  <2> QED
    BY <2>5, <2>6
<1>2. DraftInv /\ [Next]_vars => [stored # None /\ stored' # stored => Chosen]_Draft!vars
  BY <1>1, DraftsRun
<1>3. QED
  BY <1>2, DraftHolds, PTL DEF Spec, GoesByChoice, Draft!GoesByChoice

---------------------------------------------------------------------------
(* Invitations. *)

LEMMA InvitedAssumed ==
  None \notin Objects /\ Skew \in Nat /\ MaxTime \in Nat /\ InvitationLimit \in Nat
BY PartsAssumption DEF Invited!InvitationsAssumption

LEMMA InvitedInit == ASSUME Invited!Init PROVE InvitedInv
<1>1. InvitedTypes
  BY InvitedAssumed DEF Invited!Init, InvitedTypes, Invited!NoRecord, Invitation, Times
<1>2. Admitted /\ Invited!JoinedIsNotInvited
  BY DEF Invited!Init, Admitted, Invited!JoinedIsNotInvited
<1>3. \A o \in Objects : Remembered(received[o], refused[o])
  BY DEF Invited!Init, Remembered, Invited!NoRecord
<1>4. QED
  BY <1>1, <1>2, <1>3 DEF InvitedInv

LEMMA InvitedTyped ==
  ASSUME InvitedInv
  PROVE  /\ now \in Nat /\ Skew \in Nat /\ MaxTime \in Nat
         /\ \A e \in sent : e.of \in Objects /\ e.at \in Nat /\ e.at \in Times /\ e.at >= 1
         /\ lane # Invited!NoEnvelope => lane \in sent
         /\ \A o \in Objects : /\ received[o] \in Invitation /\ refused[o] \in Nat
                               /\ received[o].at \in Nat /\ received[o].declined \in Nat
BY InvitedAssumed DEF InvitedInv, InvitedTypes, Invitation, Times

LEMMA KeepInvite ==
  ASSUME InvitedInv, NEW o \in Objects, Invited!Invite(o)
  PROVE  InvitedInv'
<1>1. UNCHANGED <<now, received, remote, lane, accepting, refused, crossed>>
  BY DEF Invited!Invite
<1>2. PICK t \in {now, now + Skew} : t > 0 /\ sent' = sent \cup {[of |-> o, at |-> t]}
  BY DEF Invited!Invite
<1>3. t \in 1..(MaxTime + Skew)
  BY <1>2, InvitedAssumed DEF InvitedInv, InvitedTypes
<1>4. InvitedTypes'
  BY <1>1, <1>2, <1>3 DEF InvitedInv, InvitedTypes
<1>5. QED
  BY <1>1, <1>4 DEF InvitedInv, Admitted, Invited!JoinedIsNotInvited, Remembered, Invited!NoEnvelope

LEMMA KeepClock ==
  ASSUME InvitedInv, Invited!Tick
  PROVE  InvitedInv'
<1>1. /\ UNCHANGED <<sent, received, remote, lane, accepting, refused, crossed>>
      /\ now' = now + 1 /\ now < MaxTime
  BY DEF Invited!Tick
<1>2. InvitedTypes'
  BY <1>1, InvitedTyped DEF InvitedInv, InvitedTypes, Invited!NoEnvelope
<1>3. \A o \in Objects : Remembered(received[o], refused[o])'
  BY <1>1, InvitedTyped DEF InvitedInv, Remembered
<1>4. Admitted'
  BY <1>1, InvitedTyped DEF InvitedInv, Admitted, Invited!NoEnvelope
<1>5. QED
  BY <1>1, <1>2, <1>3, <1>4 DEF InvitedInv, Invited!JoinedIsNotInvited

(* What was refused is older than what is accepted: a declined invitation is forgotten   *)
(* only when no copy of it is accepted any more.                                        *)
LEMMA AcceptedIsNewer ==
  ASSUME InvitedInv, NEW e \in sent, Invited!Accepted(e), ~Invited!Stale(e)
  PROVE  e.at > refused[e.of] /\ e.at <= now + Skew /\ received[e.of].status # "pending"
<1>1. /\ now <= e.at + Skew /\ e.at <= now + Skew /\ received[e.of].status # "pending"
      /\ ~(received[e.of].status = "declined" /\ e.at <= received[e.of].at)
  BY DEF Invited!Accepted, Invited!Stale
<1>2. Remembered(received[e.of], refused[e.of]) /\ received[e.of].status \in {"none", "pending", "declined"}
  BY InvitedTyped DEF InvitedInv, Invitation
<1>3. QED
  BY <1>1, <1>2, InvitedTyped DEF Remembered

LEMMA KeepReceive ==
  ASSUME InvitedInv, NEW e \in sent, Invited!Receive(e)
  PROVE  InvitedInv'
<1> DEFINE cleared == [o \in Objects |-> IF Invited!Expired(o) THEN Invited!NoRecord ELSE received[o]]
<1>1. /\ UNCHANGED <<now, sent, remote, accepting, refused, crossed>>
      /\ lane' \in {e, Invited!NoEnvelope} /\ received' \in {received, cleared}
      /\ Invited!Accepted(e) /\ ~Invited!Stale(e)
  BY DEF Invited!Receive
<1>2. \A o \in Objects : /\ received'[o] \in {received[o], Invited!NoRecord}
                         /\ received'[o] # received[o] => Invited!Expired(o)
  BY <1>1 DEF InvitedInv, InvitedTypes
<1>3. received' \in [Objects -> Invitation]
  <2>1. Invited!NoRecord \in Invitation
    BY InvitedAssumed DEF Invited!NoRecord, Invitation, Times
  <2> QED
    BY <1>1, <2>1 DEF InvitedInv, InvitedTypes
<1> HIDE DEF cleared
<1>4. InvitedTypes'
  BY <1>1, <1>3 DEF InvitedInv, InvitedTypes, Invited!NoEnvelope
<1>5. ASSUME NEW o \in Objects PROVE Remembered(received[o], refused[o])'
  <2>1. CASE received'[o] = received[o]
    BY <1>1, <2>1 DEF InvitedInv, Remembered
  <2>2. CASE Invited!Expired(o) /\ received'[o] = Invited!NoRecord
    <3>1. refused[o] + Skew < now
      BY <2>2, InvitedTyped DEF InvitedInv, Remembered, Invited!Expired
    <3> QED
      BY <1>1, <2>2, <3>1 DEF Remembered, Invited!NoRecord
  <2> QED
    BY <1>2, <2>1, <2>2
<1>6. Admitted'
  <2>1. e.of \in Objects
    BY InvitedTyped
  <2>2. received'[e.of].status # "pending"
    BY <1>1, <1>2, <2>1, AcceptedIsNewer DEF Invited!NoRecord
  <2> QED
    BY <1>1, <2>2, AcceptedIsNewer DEF Admitted, Invited!NoEnvelope
<1>7. Invited!JoinedIsNotInvited'
  BY <1>1, <1>2 DEF InvitedInv, InvitedTypes, Invited!JoinedIsNotInvited, Invited!NoRecord
<1>8. QED
  BY <1>4, <1>5, <1>6, <1>7 DEF InvitedInv

LEMMA KeepLane ==
  ASSUME InvitedInv, Invited!Write \/ Invited!LaneDies
  PROVE  InvitedInv'
<1>1. /\ UNCHANGED <<now, sent, remote, accepting, refused>> /\ lane # Invited!NoEnvelope
      /\ lane' = Invited!NoEnvelope
  BY DEF Invited!Write, Invited!LaneDies
<1>2. CASE Invited!LaneDies
  BY <1>1, <1>2 DEF Invited!LaneDies, InvitedInv, InvitedTypes, Admitted, Remembered,
     Invited!NoEnvelope, Invited!JoinedIsNotInvited
<1>3. CASE Invited!Write
  <2>1. lane.of \in Objects /\ Invited!Pending(lane.at) \in Invitation
    BY <1>1, InvitedTyped DEF Invited!Pending, Invitation
  <2>2. /\ received' = [received EXCEPT ![lane.of] = Invited!Pending(lane.at)]
        /\ crossed' = IF lane.of \in remote THEN crossed \cup {lane.of} ELSE crossed
    BY <1>3 DEF Invited!Write
  <2>3. InvitedTypes'
    BY <1>1, <2>1, <2>2 DEF InvitedInv, InvitedTypes, Invited!NoEnvelope
  <2>4. lane.at > refused[lane.of] /\ lane.at <= now + Skew
    BY <1>1 DEF InvitedInv, Admitted
  <2>5. \A o \in Objects : received'[o] = IF o = lane.of THEN Invited!Pending(lane.at) ELSE received[o]
    BY <2>2 DEF InvitedInv, InvitedTypes
  <2>6. \A o \in Objects : Remembered(received[o], refused[o])'
    BY <1>1, <2>4, <2>5 DEF InvitedInv, Remembered, Invited!Pending
  <2>7. Admitted'
    BY <1>1 DEF Admitted, Invited!NoEnvelope
  <2>8. Invited!JoinedIsNotInvited'
    BY <1>1, <2>1, <2>2, <2>5 DEF InvitedInv, InvitedTypes, Invited!JoinedIsNotInvited
  <2> QED
    BY <2>3, <2>6, <2>7, <2>8 DEF InvitedInv
<1>4. QED
  BY <1>2, <1>3

LEMMA KeepDecline ==
  ASSUME InvitedInv, NEW o \in Objects, Invited!Decline(o)
  PROVE  InvitedInv'
<1> DEFINE r == Invited!Refusal(o)
<1>1. /\ UNCHANGED <<now, sent, remote, lane, accepting, crossed>> /\ received[o].status = "pending"
      /\ received' = [received EXCEPT ![o] = r] /\ refused' = [refused EXCEPT ![o] = received[o].at]
  BY DEF Invited!Decline
<1>2. r \in Invitation /\ r.status = "declined" /\ r.at = received[o].at /\ r.declined = now
  BY InvitedTyped DEF Invited!Refusal, Invitation, InvitedInv, InvitedTypes
<1>3. received[o].at \in Times /\ received[o].at <= now + Skew
  BY <1>1, InvitedTyped DEF InvitedInv, Remembered, Invitation
<1> HIDE DEF r
<1>4. InvitedTypes'
  BY <1>1, <1>2, <1>3 DEF InvitedInv, InvitedTypes, Invited!NoEnvelope
<1>5. \A k \in Objects : /\ received'[k] = IF k = o THEN r ELSE received[k]
                         /\ refused'[k] = IF k = o THEN received[o].at ELSE refused[k]
  BY <1>1 DEF InvitedInv, InvitedTypes
<1>6. \A k \in Objects : Remembered(received[k], refused[k])'
  BY <1>1, <1>2, <1>3, <1>5, InvitedTyped DEF InvitedInv, Remembered
<1>7. Admitted'
  <2>1. lane # Invited!NoEnvelope => lane.of \in Objects /\ lane.of # o
    BY <1>1, InvitedTyped DEF InvitedInv, Admitted
  <2> QED
    BY <1>1, <1>5, <2>1 DEF InvitedInv, Admitted, Invited!NoEnvelope
<1>8. Invited!JoinedIsNotInvited'
  BY <1>1, <1>2, <1>5 DEF InvitedInv, InvitedTypes, Invited!JoinedIsNotInvited
<1>9. QED
  BY <1>4, <1>6, <1>7, <1>8 DEF InvitedInv

LEMMA KeepConsume ==
  ASSUME InvitedInv, NEW o \in Objects, Invited!Consume(o)
  PROVE  InvitedInv'
<1>1. /\ UNCHANGED <<now, sent, remote, lane>> /\ accepting' = [accepting EXCEPT ![o] = "no"]
      /\ received' = [received EXCEPT ![o] = Invited!NoRecord]
      /\ refused' = [refused EXCEPT ![o] = 0]
      /\ crossed' = IF lane.of = o THEN crossed ELSE crossed \ {o}
  BY DEF Invited!Consume
<1>2. Invited!NoRecord \in Invitation /\ 0 \in Times
  BY InvitedAssumed DEF Invited!NoRecord, Invitation, Times
<1>3. InvitedTypes'
  BY <1>1, <1>2 DEF InvitedInv, InvitedTypes, Invited!NoEnvelope
<1>4. \A k \in Objects : /\ received'[k] = IF k = o THEN Invited!NoRecord ELSE received[k]
                         /\ refused'[k] = IF k = o THEN 0 ELSE refused[k]
                         /\ accepting'[k] = IF k = o THEN "no" ELSE accepting[k]
  BY <1>1 DEF InvitedInv, InvitedTypes
<1>5. \A k \in Objects : Remembered(received[k], refused[k])'
  BY <1>1, <1>4 DEF InvitedInv, Remembered, Invited!NoRecord
<1>6. Admitted'
  <2>1. lane # Invited!NoEnvelope => lane.of \in Objects /\ lane.at > 0
    BY InvitedTyped
  <2> QED
    BY <1>1, <1>4, <2>1 DEF InvitedInv, Admitted, Invited!NoEnvelope, Invited!NoRecord
<1>7. Invited!JoinedIsNotInvited'
  BY <1>1, <1>4 DEF InvitedInv, InvitedTypes, Invited!JoinedIsNotInvited, Invited!NoRecord
<1>8. QED
  BY <1>3, <1>5, <1>6, <1>7 DEF InvitedInv

LEMMA KeepJoin ==
  ASSUME InvitedInv, NEW o \in Objects,
         \/ Invited!Join(o) \/ Invited!JoinFails(o) \/ Invited!SaveRemote(o)
         \/ Invited!JoinDies(o) \/ Invited!Leave(o)
  PROVE  InvitedInv'
<1>1. UNCHANGED <<now, sent, received, lane, refused>>
  BY DEF Invited!Join, Invited!JoinFails, Invited!SaveRemote, Invited!JoinDies, Invited!Leave
<1>2. InvitedTypes'
  BY <1>1 DEF InvitedInv, InvitedTypes, Invited!NoEnvelope, Invited!Join, Invited!JoinFails,
     Invited!SaveRemote, Invited!JoinDies, Invited!Leave
<1>3. Invited!JoinedIsNotInvited'
  BY <1>1 DEF InvitedInv, InvitedTypes, Invited!JoinedIsNotInvited, Invited!Join, Invited!JoinFails,
     Invited!SaveRemote, Invited!JoinDies, Invited!Leave
<1>4. QED
  BY <1>1, <1>2, <1>3 DEF InvitedInv, Admitted, Remembered, Invited!NoEnvelope

LEMMA InvitationsRun ==
  ASSUME [Next]_vars
  PROVE  Invited!Next \/ UNCHANGED Invited!vars
BY DEF Next, StandStill, vars, invitations, Invited!vars

LEMMA InvitedHolds == Spec => []InvitedInv
<1>1. Init => InvitedInv
  BY InvitedInit DEF Init
<1>2. InvitedInv /\ UNCHANGED Invited!vars => InvitedInv'
  BY DEF Invited!vars, InvitedInv, InvitedTypes, Admitted, Remembered, Invited!NoEnvelope,
     Invited!JoinedIsNotInvited
<1>3. InvitedInv /\ Invited!Next => InvitedInv'
  BY KeepInvite, KeepClock, KeepReceive, KeepLane, KeepDecline, KeepConsume, KeepJoin DEF Invited!Next
<1>4. QED
  BY <1>1, <1>2, <1>3, InvitationsRun, PTL DEF Spec

\* DeclineStands and JoinedIsNotInvited of ObjectInvitations: no copy of an invitation undoes
\* its refusal, and none waits for what is joined (receive_invitation, join_object).
THEOREM RefusalsHold == Spec => [](Invited!DeclineStands /\ Invited!JoinedIsNotInvited)
<1>1. InvitedInv => Invited!DeclineStands /\ Invited!JoinedIsNotInvited
  BY DEF InvitedInv, Remembered, Invited!DeclineStands
<1>2. QED
  BY <1>1, InvitedHolds, PTL

---------------------------------------------------------------------------
(* Lemmas about sequences. *)

LEMMA WithoutFacts ==
  ASSUME NEW S, NEW s \in Seq(S), NEW k \in 1..Len(s)
  PROVE  /\ Without(s, k) \in Seq(S)
         /\ Len(Without(s, k)) = Len(s) - 1
         /\ \A j \in 1..(Len(s) - 1) : Without(s, k)[j] = IF j < k THEN s[j] ELSE s[j + 1]
<1> DEFINE a == SubSeq(s, 1, k - 1)
           b == SubSeq(s, k + 1, Len(s))
<1>1. a \in Seq(S) /\ Len(a) = k - 1 /\ \A j \in 1..(k - 1) : a[j] = s[j]
  OBVIOUS
<1>2. b \in Seq(S) /\ Len(b) = Len(s) - k /\ \A j \in 1..(Len(s) - k) : b[j] = s[k + j]
  OBVIOUS
<1>3. Without(s, k) = a \o b
  BY DEF Without
<1> HIDE DEF a, b
<1>4. Len(s) \in Nat
  OBVIOUS
<1>5. /\ (a \o b) \in Seq(S) /\ Len(a \o b) = Len(s) - 1
      /\ \A j \in 1..(Len(s) - 1) : (a \o b)[j] = IF j <= k - 1 THEN a[j] ELSE b[j - (k - 1)]
  <2>1. /\ (a \o b) \in Seq(S) /\ Len(a \o b) = Len(a) + Len(b)
        /\ \A j \in 1..(Len(a) + Len(b)) : (a \o b)[j] = IF j <= Len(a) THEN a[j] ELSE b[j - Len(a)]
    BY <1>1, <1>2, ConcatProperties
  <2>2. Len(a) + Len(b) = Len(s) - 1
    BY <1>1, <1>2, <1>4
  <2> QED
    BY <1>1, <2>1, <2>2
<1>6. ASSUME NEW j \in 1..(Len(s) - 1)
      PROVE  (a \o b)[j] = IF j < k THEN s[j] ELSE s[j + 1]
  <2>1. j <= k - 1 <=> j < k
    OBVIOUS
  <2>2. CASE j < k
    BY <1>1, <1>5, <2>1, <2>2
  <2>3. CASE ~(j < k)
    <3>1. j - (k - 1) \in 1..(Len(s) - k) /\ k + (j - (k - 1)) = j + 1
      BY <1>4, <2>3
    <3> QED
      BY <1>2, <1>5, <2>1, <2>3, <3>1
  <2> QED
    BY <2>2, <2>3
<1>7. QED
  BY <1>3, <1>5, <1>6

LEMMA WithoutOne ==
  ASSUME NEW S, NEW s \in Seq(S), NEW k \in DOMAIN s, Distinct(s)
  PROVE  /\ Without(s, k) \in Seq(S) /\ Distinct(Without(s, k))
         /\ Elements(Without(s, k)) = Elements(s) \ {s[k]}
<1>1. Len(s) \in Nat /\ DOMAIN s = 1..Len(s) /\ k \in 1..Len(s)
  OBVIOUS
<1> DEFINE t == Without(s, k)
<1>2. /\ t \in Seq(S) /\ DOMAIN t = 1..(Len(s) - 1)
      /\ \A j \in 1..(Len(s) - 1) : t[j] = IF j < k THEN s[j] ELSE s[j + 1]
  BY <1>1, WithoutFacts
<1> HIDE DEF t
<1>3. \A j \in DOMAIN t : \E i \in DOMAIN s : i # k /\ t[j] = s[i] /\ i = IF j < k THEN j ELSE j + 1
  BY <1>1, <1>2
<1>4. \A i \in DOMAIN s : i # k => \E j \in DOMAIN t : t[j] = s[i]
  <2> SUFFICES ASSUME NEW i \in DOMAIN s, i # k PROVE \E j \in DOMAIN t : t[j] = s[i]
    OBVIOUS
  <2>1. CASE i < k
    BY <1>1, <1>2, <2>1
  <2>2. CASE i > k
    <3>1. i - 1 \in DOMAIN t /\ ~(i - 1 < k) /\ (i - 1) + 1 = i
      BY <1>1, <1>2, <2>2
    <3> QED
      BY <1>2, <3>1
  <2> QED
    BY <1>1, <2>1, <2>2
<1>5. Distinct(t)
  <2> SUFFICES ASSUME NEW i \in DOMAIN t, NEW j \in DOMAIN t, t[i] = t[j] PROVE i = j
    BY DEF Distinct
  <2>1. (IF i < k THEN i ELSE i + 1) = (IF j < k THEN j ELSE j + 1)
    BY <1>3 DEF Distinct
  <2> QED
    BY <1>1, <1>2, <2>1
<1>6. Elements(t) = Elements(s) \ {s[k]}
  BY <1>3, <1>4 DEF Elements, Distinct
<1>7. QED
  BY <1>2, <1>5, <1>6 DEF t

LEMMA JoinedFacts ==
  ASSUME NEW S, NEW s \in Seq(S), NEW t \in Seq(S), Distinct(s), Distinct(t),
         Elements(s) \cap Elements(t) = {}
  PROVE  /\ s \o t \in Seq(S) /\ Distinct(s \o t)
         /\ Elements(s \o t) = Elements(s) \cup Elements(t)
<1>1. /\ Len(s) \in Nat /\ Len(t) \in Nat /\ DOMAIN s = 1..Len(s) /\ DOMAIN t = 1..Len(t)
  OBVIOUS
<1> DEFINE u == s \o t
<1>2. /\ u \in Seq(S) /\ DOMAIN u = 1..(Len(s) + Len(t))
      /\ \A i \in 1..(Len(s) + Len(t)) : u[i] = IF i <= Len(s) THEN s[i] ELSE t[i - Len(s)]
  BY ConcatProperties, LenProperties
<1> HIDE DEF u
<1>3. \A i \in DOMAIN u : \/ i \in DOMAIN s /\ u[i] = s[i]
                          \/ ~(i <= Len(s)) /\ i - Len(s) \in DOMAIN t /\ u[i] = t[i - Len(s)]
  BY <1>1, <1>2
<1>4. \A i \in DOMAIN s : i \in DOMAIN u /\ u[i] = s[i]
  BY <1>1, <1>2
<1>5. \A i \in DOMAIN t : i + Len(s) \in DOMAIN u /\ u[i + Len(s)] = t[i]
  <2> SUFFICES ASSUME NEW i \in DOMAIN t PROVE i + Len(s) \in DOMAIN u /\ u[i + Len(s)] = t[i]
    OBVIOUS
  <2>1. i + Len(s) \in 1..(Len(s) + Len(t)) /\ ~(i + Len(s) <= Len(s)) /\ (i + Len(s)) - Len(s) = i
    BY <1>1
  <2> QED
    BY <1>2, <2>1
<1>6. Elements(u) = Elements(s) \cup Elements(t)
  BY <1>3, <1>4, <1>5 DEF Elements
<1>7. Distinct(u)
  <2> SUFFICES ASSUME NEW i \in DOMAIN u, NEW j \in DOMAIN u, u[i] = u[j] PROVE i = j
    BY DEF Distinct
  <2>1. i \in DOMAIN s <=> j \in DOMAIN s
    <3>1. \A k \in DOMAIN u : k \in DOMAIN s => u[k] \in Elements(s)
      BY <1>4 DEF Elements
    <3>2. \A k \in DOMAIN u : k \notin DOMAIN s => u[k] \in Elements(t)
      BY <1>3 DEF Elements
    <3> QED
      BY <3>1, <3>2
  <2>2. CASE i \in DOMAIN s
    BY <1>4, <2>1, <2>2 DEF Distinct
  <2>3. CASE i \notin DOMAIN s
    <3>1. i - Len(s) \in DOMAIN t /\ j - Len(s) \in DOMAIN t /\ t[i - Len(s)] = t[j - Len(s)]
      BY <1>3, <2>1, <2>3
    <3>2. i - Len(s) = j - Len(s)
      BY <3>1 DEF Distinct
    <3> QED
      BY <1>1, <1>2, <3>2
  <2> QED
    BY <2>2, <2>3
<1>8. QED
  BY <1>2, <1>6, <1>7 DEF u

LEMMA TailLength ==
  ASSUME NEW m \in Nat, NEW n \in 0..m
  PROVE  (IF n + 1 <= m THEN m - (n + 1) + 1 ELSE 0) = m - n
OBVIOUS

LEMMA TailFacts ==
  ASSUME NEW S, NEW s \in Seq(S), Distinct(s), NEW n \in 0..Len(s)
  PROVE  /\ SubSeq(s, n + 1, Len(s)) \in Seq(S) /\ Distinct(SubSeq(s, n + 1, Len(s)))
         /\ Len(SubSeq(s, n + 1, Len(s))) = Len(s) - n
         /\ Elements(SubSeq(s, n + 1, Len(s))) = Elements(s) \ {s[k] : k \in 1..n}
<1> DEFINE t == SubSeq(s, n + 1, Len(s))
<1>1. Len(s) \in Nat /\ DOMAIN s = 1..Len(s) /\ \A i \in 1..Len(s) : s[i] \in S
  OBVIOUS
<1> HIDE DEF t
<1>2. /\ t \in Seq(S) /\ Len(t) = Len(s) - n
      /\ \A i \in 1..(Len(s) - n) : t[i] = s[n + i]
  <2>1. /\ t \in Seq(S) /\ Len(t) = IF n + 1 <= Len(s) THEN Len(s) - (n + 1) + 1 ELSE 0
        /\ \A i \in 1..(Len(s) - (n + 1) + 1) : t[i] = s[(n + 1) + i - 1]
    BY <1>1, SubSeqProperties DEF t
  <2>2. Len(t) = Len(s) - n
    BY <1>1, <2>1, TailLength
  <2>3. ASSUME NEW i \in 1..(Len(s) - n) PROVE t[i] = s[n + i]
    <3>1. i \in 1..(Len(s) - (n + 1) + 1) /\ (n + 1) + i - 1 = n + i
      BY <1>1
    <3>2. t[i] = s[(n + 1) + i - 1]
      BY <2>1, <3>1
    <3> QED
      BY <3>1, <3>2
  <2> QED
    BY <2>1, <2>2, <2>3
<1>3. DOMAIN t = 1..(Len(s) - n)
  BY <1>2
<1>4. Distinct(t)
  <2> SUFFICES ASSUME NEW i \in DOMAIN t, NEW j \in DOMAIN t, t[i] = t[j] PROVE i = j
    BY DEF Distinct
  <2>1. n + i \in DOMAIN s /\ n + j \in DOMAIN s
    BY <1>1, <1>3
  <2>2. s[n + i] = s[n + j]
    BY <1>2, <1>3
  <2>3. n + i = n + j
    BY <2>1, <2>2 DEF Distinct
  <2> QED
    BY <1>1, <1>3, <2>3
<1>5. Elements(t) = Elements(s) \ {s[k] : k \in 1..n}
  <2>1. ASSUME NEW i \in DOMAIN t
        PROVE  t[i] \in Elements(s) \ {s[k] : k \in 1..n}
    <3>1. n + i \in DOMAIN s /\ t[i] = s[n + i] /\ \A k \in 1..n : k \in DOMAIN s /\ k # n + i
      BY <1>1, <1>2, <1>3
    <3> QED
      BY <3>1 DEF Elements, Distinct
  <2>2. ASSUME NEW i \in DOMAIN s, i \notin 1..n
        PROVE  s[i] \in Elements(t)
    <3>1. i - n \in DOMAIN t /\ n + (i - n) = i
      BY <1>1, <1>3, <2>2
    <3> QED
      BY <1>2, <1>3, <3>1 DEF Elements
  <2> QED
    BY <2>1, <2>2 DEF Elements
<1>6. QED
  BY <1>2, <1>4, <1>5 DEF t

LEMMA LeastIndex ==
  ASSUME NEW S \in SUBSET Nat, S # {}
  PROVE  \E k \in S : \A j \in S : k <= j
<1>1. \E k \in S : \A j \in S : ~(<<j, k>> \in OpToRel(<, Nat))
  BY NatLessThanWellFounded, WFMin, Zenon
<1>2. PICK k \in S : \A j \in S : ~(<<j, k>> \in OpToRel(<, Nat))
  BY <1>1
<1>3. ASSUME NEW j \in S PROVE k <= j
  <2>1. j \in Nat /\ k \in Nat /\ ~(j < k)
    BY <1>2 DEF OpToRel
  <2> QED
    BY <2>1
<1>4. QED
  BY <1>3

---------------------------------------------------------------------------
(* Upkeep. *)

LEMMA LanesAssumed ==
  /\ Pollers \cap Errands = {} /\ None \notin Lanes!Upkeep /\ IsFiniteSet(Pollers)
  /\ Pollers \subseteq Lanes!Upkeep /\ Errands \subseteq Lanes!Upkeep /\ MaxOwner \in Nat /\ MaxHides \in Nat
<1>1. Lanes!LanesAssumption
  BY PartsAssumption
<1>2. Lanes!IsFiniteSet(Pollers) <=> IsFiniteSet(Pollers)
  BY DEF Lanes!IsFiniteSet, IsFiniteSet
<1>3. QED
  BY <1>1, <1>2 DEF Lanes!LanesAssumption, Lanes!Upkeep

LEMMA LanesInit == ASSUME Lanes!Init PROVE LanesInv
<1>1. requests = <<>> /\ requests \in Seq(Lanes!Upkeep) /\ Elements(requests) = {} /\ Distinct(requests)
  BY DEF Lanes!Init, Elements, Distinct
<1>2. LanesTypes
  <2>1. hides \in 0..MaxHides /\ asked \in 0..MaxOwner
    BY LanesAssumed DEF Lanes!Init
  <2>2. {onScreen, started} \subseteq BOOLEAN
    BY DEF Lanes!Init
  <2> QED
    BY <2>1, <2>2 DEF Lanes!Init, LanesTypes
<1>3. QueueTyped(requests, active, dead)
  BY <1>1 DEF Lanes!Init, QueueTyped
<1>4. \A p \in Pollers : p # active /\ p \notin Elements(requests) /\ p \notin running
  BY <1>1, LanesAssumed DEF Lanes!Init
<1>5. QED
  BY <1>1, <1>2, <1>3, <1>4 DEF LanesInv

(* What pumpBackground leaves: every job that was not dead is queued or under way, and    *)
(* none waits for nothing.                                                              *)
LEMMA Pumped ==
  ASSUME NEW o, NEW q, NEW a, NEW d, QueueTyped(q, a, d), Lanes!Pump(o, q, a, d)
  PROVE  /\ QueueTyped(requests, active, dead)'
         /\ requests' # <<>> => o # {} \/ active' # None
         /\ \A p \in Pollers : p = active' \/ p \in Elements(requests') <=> p = a \/ p \in Elements(q)
<1> DEFINE ready == {k \in DOMAIN q : q[k] \notin d}
           n == IF ready = {} THEN Len(q) + 1 ELSE CHOOSE k \in ready : \A j \in ready : k <= j
<1>1. /\ q \in Seq(Lanes!Upkeep) /\ Distinct(q) /\ d \subseteq Elements(q) \cap Errands
      /\ Len(q) \in Nat /\ DOMAIN q = 1..Len(q) /\ \A k \in 1..Len(q) : q[k] \in Lanes!Upkeep
  BY LenProperties, ElementOfSeq DEF QueueTyped
<1>2. CASE ~Lanes!MayStart(a, o)
  <2>1. requests' = q /\ active' = a /\ dead' = d
    BY <1>2 DEF Lanes!Pump
  <2> QED
    BY <1>2, <2>1 DEF QueueTyped, Lanes!MayStart
<1>3. CASE Lanes!MayStart(a, o) /\ ready = {}
  <2>1. requests' = SubSeq(q, Len(q) + 2, Len(q)) /\ active' = None /\ dead' = d \ {q[k] : k \in 1..(n - 1)}
    BY <1>1, <1>3 DEF Lanes!Pump
  <2>2. requests' = <<>>
    BY <1>1, <2>1, SubSeqEmpty
  <2>3. n - 1 = Len(q) /\ Elements(q) = {q[k] : k \in 1..(n - 1)}
    BY <1>1, <1>3 DEF Elements
  <2>4. dead' = {} /\ Elements(q) \subseteq d
    BY <1>1, <1>3, <2>1, <2>3 DEF Elements
  <2>5. Elements(requests') = {} /\ Distinct(requests') /\ requests' \in Seq(Lanes!Upkeep)
    BY <2>2 DEF Elements, Distinct
  <2>6. \A p \in Pollers : p \notin Elements(q) /\ p # None
    BY <1>1, <2>4, LanesAssumed
  <2>7. a = None
    BY <1>3 DEF Lanes!MayStart
  <2> QED
    BY <2>1, <2>2, <2>4, <2>5, <2>6, <2>7 DEF QueueTyped
<1>4. CASE Lanes!MayStart(a, o) /\ ready # {}
  <2>1. ready \in SUBSET Nat
    BY <1>1
  <2>2. n \in ready /\ \A j \in ready : n <= j
    BY <1>4, <2>1, LeastIndex
  <2>3. /\ requests' = SubSeq(q, n + 1, Len(q)) /\ active' = q[n]
        /\ dead' = d \ {q[k] : k \in 1..(n - 1)}
    BY <1>4 DEF Lanes!Pump
  <2> HIDE DEF n
  <2>4. n \in 1..Len(q) /\ q[n] \notin d /\ q[n] \in Lanes!Upkeep
    BY <1>1, <2>2
  <2>5. \A k \in 1..(n - 1) : q[k] \in d
    <3> SUFFICES ASSUME NEW k \in 1..(n - 1) PROVE q[k] \in d
      OBVIOUS
    <3>1. k \in DOMAIN q /\ ~(n <= k)
      BY <1>1, <2>4
    <3> QED
      BY <2>2, <3>1
  <2>6. /\ requests' \in Seq(Lanes!Upkeep) /\ Distinct(requests')
        /\ Elements(requests') = Elements(q) \ {q[k] : k \in 1..n}
    <3>1. n \in 0..Len(q)
      BY <2>4
    <3> QED
      <4>1. /\ SubSeq(q, n + 1, Len(q)) \in Seq(Lanes!Upkeep) /\ Distinct(SubSeq(q, n + 1, Len(q)))
            /\ Elements(SubSeq(q, n + 1, Len(q))) = Elements(q) \ {q[k] : k \in 1..n}
        <5>1. q \in Seq(Lanes!Upkeep) /\ Distinct(q)
          BY <1>1
        <5> QED
          BY <3>1, <5>1, TailFacts
      <4> QED
        BY <2>3, <4>1
  <2>7. {q[k] : k \in 1..n} = {q[k] : k \in 1..(n - 1)} \cup {q[n]}
    BY <2>4
  <2>8. q[n] \in Elements(q)
    BY <1>1, <2>4 DEF Elements
  <2>9. a = None
    BY <1>4 DEF Lanes!MayStart
  <2>10. QueueTyped(requests, active, dead)'
    BY <1>1, <2>3, <2>4, <2>6, <2>7 DEF QueueTyped
  <2>11. ASSUME NEW p \in Pollers
         PROVE  p = active' \/ p \in Elements(requests') <=> p = a \/ p \in Elements(q)
    <3>1. p # None /\ p \notin d
      BY <1>1, LanesAssumed
    <3> QED
      BY <2>3, <2>5, <2>6, <2>7, <2>8, <2>9, <3>1
  <2>12. active' # None
    BY <2>3, <2>4, LanesAssumed
  <2> QED
    BY <2>10, <2>11, <2>12
<1>5. QED
  BY <1>2, <1>3, <1>4

LEMMA Queueing ==
  ASSUME QueueTyped(requests, active, dead), NEW t \in Seq(Lanes!Upkeep), Distinct(t),
         Elements(t) \cap Elements(requests) = {}, active \notin Elements(t)
  PROVE  /\ QueueTyped(requests \o t, active, dead)
         /\ Elements(requests \o t) = Elements(requests) \cup Elements(t)
BY JoinedFacts DEF QueueTyped

LEMMA Enqueueing ==
  ASSUME QueueTyped(requests, active, dead), NEW j \in Lanes!Upkeep,
         j \notin Elements(requests), active # j, NEW aborted \in BOOLEAN, aborted => j \in Errands,
         Lanes!Enqueue(j, aborted)
  PROVE  /\ QueueTyped(requests, active, dead)'
         /\ requests' # <<>> => out # {} \/ active' # None
         /\ \A p \in Pollers : p = active' \/ p \in Elements(requests')
                                 <=> p = active \/ p \in Elements(requests) \/ p = j
<1>1. <<j>> \in Seq(Lanes!Upkeep) /\ Distinct(<<j>>) /\ Elements(<<j>>) = {j}
  BY DEF Distinct, Elements
<1>2. Append(requests, j) = requests \o <<j>>
  BY DEF QueueTyped
<1>3. QueueTyped(Append(requests, j), active, dead) /\ Elements(Append(requests, j)) = Elements(requests) \cup {j}
  BY <1>1, <1>2, Queueing
<1>4. QueueTyped(Append(requests, j), active, IF aborted THEN dead \cup {j} ELSE dead)
  BY <1>3 DEF QueueTyped
<1>5. Lanes!Pump(out, Append(requests, j), active, IF aborted THEN dead \cup {j} ELSE dead)
  BY DEF Lanes!Enqueue
<1>6. QED
  BY <1>3, <1>4, <1>5, Pumped

LEMMA KeepOwner ==
  ASSUME LanesInv, NEW r \in Owner, Lanes!AskOwner(r) \/ Lanes!EndAny(r)
  PROVE  LanesInv'
<1>1. CASE Lanes!AskOwner(r)
  BY <1>1, LanesAssumed DEF Lanes!AskOwner, Lanes!loops, LanesInv, LanesTypes
<1>2. CASE \E ok \in BOOLEAN : Lanes!EndOwner(r, ok)
  <2>1. /\ out' = out \ {r} /\ Lanes!Pump(out', requests, active, dead)
        /\ UNCHANGED <<onScreen, started, hides, timers, running, asked>>
    BY <1>2 DEF Lanes!EndOwner, Lanes!Goes, Lanes!loops
  <2>2. LanesTypes'
    BY <2>1 DEF LanesInv, LanesTypes
  <2> QED
    BY <2>1, <2>2, Pumped DEF LanesInv
<1>3. QED
  BY <1>1, <1>2 DEF Lanes!EndAny

LEMMA KeepErrand ==
  ASSUME LanesInv, NEW e \in Errands, Lanes!AskErrand(e) \/ Lanes!Abort(e)
  PROVE  LanesInv'
<1>1. /\ UNCHANGED <<out, onScreen, started, hides, timers, running, asked>>
      /\ e \in Lanes!Upkeep /\ e \notin Pollers
  BY LanesAssumed DEF Lanes!AskErrand, Lanes!Abort, Lanes!loops
<1>2. LanesTypes'
  BY <1>1 DEF LanesInv, LanesTypes
<1>3. Lanes!Queued = Elements(requests)
  BY DEF Lanes!Queued, Elements
<1>4. CASE Lanes!AskErrand(e)
  <2>1. PICK aborted \in BOOLEAN : Lanes!Enqueue(e, aborted)
    BY <1>4 DEF Lanes!AskErrand
  <2>2. e \notin Elements(requests) /\ active # e
    BY <1>3, <1>4 DEF Lanes!AskErrand
  <2>3. /\ QueueTyped(requests, active, dead)'
        /\ requests' # <<>> => out # {} \/ active' # None
        /\ \A p \in Pollers : p = active' \/ p \in Elements(requests')
                                <=> p = active \/ p \in Elements(requests) \/ p = e
    BY <1>1, <2>1, <2>2, Enqueueing DEF LanesInv
  <2> QED
    BY <1>1, <1>2, <2>3 DEF LanesInv
<1>5. CASE Lanes!Abort(e)
  <2>1. PICK k \in DOMAIN requests : requests[k] = e /\ requests' = Without(requests, k)
    BY <1>5 DEF Lanes!Abort, Lanes!RemoveAt, Without
  <2>2. UNCHANGED <<active, dead>> /\ e \notin dead
    BY <1>5 DEF Lanes!Abort
  <2>3. /\ requests' \in Seq(Lanes!Upkeep) /\ Distinct(requests')
        /\ Elements(requests') = Elements(requests) \ {e}
    BY <2>1, WithoutOne DEF LanesInv, QueueTyped
  <2>4. requests # <<>>
    BY <2>1
  <2>5. QueueTyped(requests, active, dead)'
    BY <2>2, <2>3 DEF LanesInv, QueueTyped
  <2> QED
    BY <1>1, <1>2, <2>2, <2>3, <2>4, <2>5 DEF LanesInv
<1>6. QED
  BY <1>4, <1>5

LEMMA KeepEnd ==
  ASSUME LanesInv, NEW j \in Lanes!Upkeep, Lanes!End(j)
  PROVE  LanesInv'
<1>1. QueueTyped(requests, None, dead) /\ j \notin Elements(requests) /\ None \notin Pollers
  BY LanesAssumed, ElementOfSeq, LenProperties DEF LanesInv, QueueTyped, Elements, Lanes!End,
     Lanes!EndErrand, Lanes!EndTick
<1>2. /\ active = j /\ Lanes!Pump(out, requests, None, dead)
      /\ UNCHANGED <<out, onScreen, started, hides, asked>>
  BY DEF Lanes!End, Lanes!EndErrand, Lanes!EndTick, Lanes!loops
<1>3. /\ QueueTyped(requests, active, dead)'
      /\ requests' # <<>> => out # {} \/ active' # None
      /\ \A p \in Pollers : p = active' \/ p \in Elements(requests') <=> p \in Elements(requests)
  BY <1>1, <1>2, Pumped
<1>4. CASE Lanes!EndErrand(j)
  <2>1. UNCHANGED <<timers, running>> /\ j \notin Pollers
    BY <1>4, LanesAssumed DEF Lanes!EndErrand, Lanes!loops
  <2> QED
    BY <1>2, <1>3, <2>1 DEF LanesInv, LanesTypes
<1>5. CASE \E ok \in BOOLEAN : Lanes!EndTick(j, ok)
  <2>1. running' = running \ {j} /\ timers' \in {timers, timers \cup {j}} /\ j \in Pollers
    BY <1>5 DEF Lanes!EndTick
  <2> QED
    BY <1>1, <1>2, <1>3, <2>1 DEF LanesInv, LanesTypes
<1>6. QED
  BY <1>4, <1>5 DEF Lanes!End

LEMMA KeepTurn ==
  ASSUME LanesInv, NEW p \in Pollers, Lanes!Turn(p)
  PROVE  LanesInv'
<1>1. UNCHANGED <<out, onScreen, started, hides, asked>> /\ timers' = timers \ {p}
  BY DEF Lanes!Turn
<1>2. CASE ~Lanes!MayTick(p)
  BY <1>1, <1>2 DEF Lanes!Turn, LanesInv, LanesTypes
<1>3. CASE Lanes!MayTick(p)
  <2>1. /\ p \notin running /\ running' = running \cup {p} /\ Lanes!Enqueue(p, FALSE)
        /\ p \in Lanes!Upkeep
    BY <1>3, LanesAssumed DEF Lanes!Turn, Lanes!MayTick
  <2>2. p \notin Elements(requests) /\ active # p
    BY <2>1 DEF LanesInv
  <2>3. /\ QueueTyped(requests, active, dead)'
        /\ requests' # <<>> => out # {} \/ active' # None
        /\ \A k \in Pollers : k = active' \/ k \in Elements(requests')
                                <=> k = active \/ k \in Elements(requests) \/ k = p
    BY <2>1, <2>2, Enqueueing DEF LanesInv
  <2> QED
    BY <1>1, <2>1, <2>3 DEF LanesInv, LanesTypes
<1>4. QED
  BY <1>2, <1>3

(* An order in which all of a finite set ask. *)
LEMMA OrderFacts ==
  ASSUME NEW S, IsFiniteSet(S), NEW t \in Lanes!SetToSeqs(S)
  PROVE  t \in Seq(S) /\ Distinct(t) /\ Elements(t) = S
<1> DEFINE n == Cardinality(S)
<1>1. n \in Nat
  BY FS_CardinalityType
<1>2. t \in [1..n -> S] /\ \A i, j \in 1..n : i # j => t[i] # t[j]
  <2>1. Lanes!Cardinality(S) = n
    BY DEF Lanes!Cardinality, Cardinality
  <2> HIDE DEF n
  <2> QED
    BY <2>1 DEF Lanes!SetToSeqs, Lanes!IsInjective
<1>3. t \in Injection(1..n, S)
  BY <1>2 DEF Injection, IsInjective
<1>4. Cardinality(1..n) = n
  BY <1>1, FS_Interval
<1>5. t \in Surjection(1..n, S)
  BY <1>3, <1>4, FS_Injection
<1>6. \A x \in S : \E i \in 1..n : t[i] = x
  BY <1>5 DEF Surjection
<1>7. t \in Seq(S) /\ DOMAIN t = 1..n
  BY <1>1, <1>2
<1>8. QED
  BY <1>2, <1>6, <1>7 DEF Elements, Distinct

LEMMA KeepReport ==
  ASSUME LanesInv, NEW v \in BOOLEAN, Lanes!Report(v)
  PROVE  LanesInv'
<1>1. /\ started' = TRUE /\ onScreen' = v /\ UNCHANGED <<out, asked>>
      /\ hides' = hides \/ (hides < MaxHides /\ hides' = hides + 1)
  BY DEF Lanes!Report
<1>2. hides' \in 0..MaxHides
  BY <1>1, LanesAssumed DEF LanesInv, LanesTypes
<1>3. CASE ~v
  <2>1. timers' = {} /\ UNCHANGED <<running, requests, active, dead>>
    BY <1>3 DEF Lanes!Report
  <2> QED
    BY <1>1, <1>2, <2>1 DEF LanesInv, LanesTypes
<1>4. CASE v
  <2> DEFINE asking == {p \in Pollers : Lanes!Resume(p)}
  <2>1. /\ running' = running \cup asking /\ timers' \in {{}, Pollers}
        /\ \E order \in Lanes!SetToSeqs(asking) : Lanes!Pump(out, requests \o order, active, dead)
    BY <1>4 DEF Lanes!Report
  <2>2. asking \subseteq Pollers /\ asking \cap running = {}
    BY DEF Lanes!Resume
  <2> HIDE DEF asking
  <2>3. PICK t \in Lanes!SetToSeqs(asking) : Lanes!Pump(out, requests \o t, active, dead)
    BY <2>1
  <2>4. IsFiniteSet(asking)
    BY <2>2, LanesAssumed, FS_Subset
  <2>5. t \in Seq(asking) /\ Distinct(t) /\ Elements(t) = asking
    BY <2>4, OrderFacts
  <2>6. t \in Seq(Lanes!Upkeep)
    BY <2>2, <2>5, LanesAssumed, SeqMonotonic
  <2>7. asking \cap Elements(requests) = {} /\ active \notin asking
    BY <2>2 DEF LanesInv
  <2>8. /\ QueueTyped(requests \o t, active, dead)
        /\ Elements(requests \o t) = Elements(requests) \cup asking
    BY <2>5, <2>6, <2>7, Queueing DEF LanesInv
  <2>9. /\ QueueTyped(requests, active, dead)'
        /\ requests' # <<>> => out # {} \/ active' # None
        /\ \A p \in Pollers : p = active' \/ p \in Elements(requests')
                                <=> p = active \/ p \in Elements(requests) \/ p \in asking
    BY <2>3, <2>8, Pumped
  <2> QED
    BY <1>1, <1>2, <2>1, <2>2, <2>9 DEF LanesInv, LanesTypes
<1>5. QED
  BY <1>3, <1>4

LEMMA LanesRun ==
  ASSUME [Next]_vars
  PROVE  Lanes!Next \/ UNCHANGED Lanes!vars
BY DEF Next, StandStill, vars, lanes, Lanes!vars, Lanes!lanes, Lanes!loops

LEMMA LanesHold == Spec => []LanesInv
<1>1. Init => LanesInv
  BY LanesInit DEF Init
<1>2. LanesInv /\ UNCHANGED Lanes!vars => LanesInv'
  BY DEF Lanes!vars, Lanes!lanes, Lanes!loops, LanesInv, LanesTypes, QueueTyped
<1>3. LanesInv /\ Lanes!Next => LanesInv'
  BY KeepOwner, KeepErrand, KeepEnd, KeepTurn, KeepReport DEF Lanes!Next
<1>4. QED
  BY <1>1, <1>2, <1>3, LanesRun, PTL DEF Spec

LEMMA LanesNothingWaits == Spec => []Lanes!NothingWaitsIdle
<1>1. LanesInv => Lanes!NothingWaitsIdle
  BY DEF LanesInv, Lanes!NothingWaitsIdle, Lanes!Queued, Elements
<1>2. QED
  BY <1>1, LanesHold, PTL

---------------------------------------------------------------------------
(* Thumbnails. *)

LEMMA ThumbAssumed ==
  /\ ThumbnailLimit \in Nat \ {0} /\ MaxSaves \in Nat /\ ThumbnailAsks \in Nat
  /\ \A s : Shelf(s) => s # None
BY PartsAssumption DEF Thumbs!ThumbnailsAssumption, Shelf

LEMMA ThumbInit == ASSUME Thumbs!Init PROVE ThumbInv
<1>1. PICK n \in 0..ThumbnailLimit : index \in [1..n -> Paths]
  BY DEF Thumbs!Init
<1>2. n \in Nat /\ n <= ThumbnailLimit
  BY ThumbAssumed
<1>3. Shelf(index)
  <2>1. Distinct(index)
    BY DEF Thumbs!Init, Thumbs!IsInjective, Distinct
  <2> QED
    BY <1>1, <1>2, <2>1 DEF Shelf
<1>4. blobs \subseteq Paths
  BY <1>1 DEF Thumbs!Init, Thumbs!ToSet
<1>5. ThumbTypes
  <2>1. saves = <<>> /\ orphans = {} /\ removes = {} /\ timer = FALSE /\ thumbAsks = 0
    BY DEF Thumbs!Init
  <2>2. saves \in Seq(Paths \X BOOLEAN)
    BY <2>1, EmptySeq
  <2>3. thumbAsks \in 0..ThumbnailAsks
    BY <2>1, ThumbAssumed
  <2> QED
    BY <1>3, <1>4, <2>1, <2>2, <2>3 DEF ThumbTypes
<1>6. QED
  BY <1>5 DEF Thumbs!Init, ThumbInv

LEMMA KeepLoad ==
  ASSUME ThumbInv, Thumbs!LoadIndex
  PROVE  ThumbInv'
<1>1. /\ UNCHANGED <<blobs, index, saves, removes, timer, thumbAsks>> /\ thumbs = None
      /\ \/ thumbs' = index /\ orphans' = orphans \cup (blobs \ Elements(index))
         \/ thumbs' = <<>> /\ orphans' = orphans \cup blobs
  BY DEF Thumbs!LoadIndex, Thumbs!ToSet, Elements
<1>2. Shelf(<<>>)
  BY ThumbAssumed DEF Shelf, Distinct
<1>3. Shelf(thumbs')
  BY <1>1, <1>2 DEF ThumbInv, ThumbTypes
<1>4. ThumbTypes'
  BY <1>1 DEF ThumbInv, ThumbTypes, Shelf
<1>5. blobs \subseteq Elements(thumbs') \cup orphans'
  BY <1>1
<1>6. Shelf(thumbs)'
  BY <1>1, <1>3 DEF Shelf
<1>7. QED
  BY <1>1, <1>4, <1>5, <1>6, ThumbAssumed DEF ThumbInv

LEMMA KeepAsk ==
  ASSUME ThumbInv, NEW p \in Paths, Thumbs!Ask(p)
  PROVE  ThumbInv'
<1>1. /\ UNCHANGED <<blobs, index, thumbs, removes, timer, orphans>> /\ thumbs # None
      /\ thumbAsks' = thumbAsks + 1 /\ thumbAsks < ThumbnailAsks
      /\ saves' = Append(saves, <<p, FALSE>>)
  BY DEF Thumbs!Ask
<1>2. /\ saves \in Seq(Paths \X BOOLEAN) /\ saves' \in Seq(Paths \X BOOLEAN)
      /\ \A i \in DOMAIN saves : i \in DOMAIN saves' /\ saves'[i] = saves[i]
  <2>1. saves \in Seq(Paths \X BOOLEAN) /\ <<p, FALSE>> \in Paths \X BOOLEAN
    BY DEF ThumbInv, ThumbTypes
  <2> HIDE DEF ThumbInv
  <2> DEFINE t == <<p, FALSE>>
             T == Paths \X BOOLEAN
  <2>2. t \in T /\ saves \in Seq(T) /\ saves' = Append(saves, t)
    BY <1>1, <2>1
  <2> HIDE DEF t, T
  <2>3. saves' \in Seq(T) /\ \A i \in DOMAIN saves : i \in DOMAIN saves' /\ saves'[i] = saves[i]
    BY <2>2
  <2> QED
    BY <2>1, <2>3 DEF T
<1>3. StoredNow \subseteq StoredNow'
  BY <1>2 DEF StoredNow
<1>4. ThumbTypes'
  BY <1>1, <1>2, ThumbAssumed DEF ThumbInv, ThumbTypes, Shelf
<1>5. QED
  BY <1>1, <1>3, <1>4 DEF ThumbInv, Shelf

LEMMA SavesTyped ==
  ASSUME ThumbInv, NEW i \in 1..Len(saves)
  PROVE  /\ saves \in Seq(Paths \X BOOLEAN) /\ Len(saves) \in Nat /\ DOMAIN saves = 1..Len(saves)
         /\ \A j \in DOMAIN saves : saves[j] \in Paths \X BOOLEAN /\ saves[j][1] \in Paths /\ saves[j][2] \in BOOLEAN
         /\ thumbs # None
<1>1. saves \in Seq(Paths \X BOOLEAN)
  BY DEF ThumbInv, ThumbTypes
<1>2. /\ Len(saves) \in Nat /\ DOMAIN saves = 1..Len(saves)
      /\ \A j \in DOMAIN saves : saves[j] \in Paths \X BOOLEAN
  BY <1>1, LenProperties, ElementOfSeq
<1>3. saves # <<>>
  BY <1>2
<1>4. QED
  BY <1>1, <1>2, <1>3 DEF ThumbInv

LEMMA KeepStore ==
  ASSUME ThumbInv, NEW i \in 1..Len(saves), Thumbs!Store(i)
  PROVE  ThumbInv'
<1>1. /\ UNCHANGED <<index, thumbs, removes, timer, thumbAsks, orphans>>
      /\ blobs' = blobs \cup {saves[i][1]} /\ saves' = [saves EXCEPT ![i] = <<saves[i][1], TRUE>>]
  BY DEF Thumbs!Store
<1> DEFINE t == <<saves[i][1], TRUE>>
<1>2. t \in Paths \X BOOLEAN
  BY SavesTyped
<1>3. saves' = [saves EXCEPT ![i] = t]
  BY <1>1, <1>2
<1>4. /\ saves' \in Seq(Paths \X BOOLEAN) /\ DOMAIN saves' = DOMAIN saves
      /\ \A j \in DOMAIN saves : saves'[j] = IF j = i THEN t ELSE saves[j]
  BY <1>2, <1>3, SavesTyped, ExceptSeq
<1>5. StoredNow \cup {saves[i][1]} \subseteq StoredNow'
  <2>1. t[1] = saves[i][1] /\ t[2]
    OBVIOUS
  <2> HIDE DEF t
  <2>2. \A j \in DOMAIN saves : saves[j][2] => saves'[j][2] /\ saves'[j][1] = saves[j][1]
    BY <1>4, <2>1
  <2>3. i \in DOMAIN saves' /\ saves'[i] = t
    BY <1>4, SavesTyped
  <2>4. i \in DOMAIN saves' /\ saves'[i][2] /\ saves'[i][1] = saves[i][1]
    BY <2>1, <2>3
  <2> QED
    BY <1>4, <2>2, <2>4 DEF StoredNow
<1>6. ThumbTypes'
  BY <1>1, <1>4, SavesTyped DEF ThumbInv, ThumbTypes, Shelf
<1>7. QED
  BY <1>1, <1>5, <1>6, SavesTyped DEF ThumbInv, Shelf

LEMMA SavedLess ==
  ASSUME ThumbInv, NEW i \in 1..Len(saves), saves' = Thumbs!RemoveAt(saves, i)
  PROVE  /\ saves' \in Seq(Paths \X BOOLEAN)
         /\ \A p \in StoredNow : p \in StoredNow' \/ (p = saves[i][1] /\ saves[i][2])
<1>1. /\ saves' \in Seq(Paths \X BOOLEAN) /\ DOMAIN saves' = 1..(Len(saves) - 1)
      /\ \A j \in 1..(Len(saves) - 1) : saves'[j] = IF j < i THEN saves[j] ELSE saves[j + 1]
  <2>1. saves' = Without(saves, i)
    BY DEF Thumbs!RemoveAt, Without
  <2>2. /\ saves' \in Seq(Paths \X BOOLEAN) /\ Len(saves') = Len(saves) - 1
        /\ \A j \in 1..(Len(saves) - 1) : saves'[j] = IF j < i THEN saves[j] ELSE saves[j + 1]
    <3> DEFINE T == Paths \X BOOLEAN
    <3>1. saves \in Seq(T)
      BY SavesTyped
    <3> HIDE DEF T
    <3>2. /\ saves' \in Seq(T) /\ Len(saves') = Len(saves) - 1
          /\ \A j \in 1..(Len(saves) - 1) : saves'[j] = IF j < i THEN saves[j] ELSE saves[j + 1]
      BY <2>1, <3>1, WithoutFacts
    <3> QED
      BY <3>2 DEF T
  <2> QED
    BY <2>2, LenProperties
<1>2. ASSUME NEW j \in DOMAIN saves, saves[j][2], j # i
      PROVE  saves[j][1] \in StoredNow'
  <2>1. PICK k \in DOMAIN saves' : saves'[k] = saves[j]
    <3>1. CASE j < i
      <4>1. j \in 1..(Len(saves) - 1)
        BY <3>1, SavesTyped
      <4> QED
        BY <1>1, <3>1, <4>1
    <3>2. CASE j > i
      <4>1. j - 1 \in 1..(Len(saves) - 1) /\ ~(j - 1 < i) /\ (j - 1) + 1 = j
        BY <3>2, SavesTyped
      <4> QED
        BY <1>1, <4>1
    <3> QED
      BY <1>2, <3>1, <3>2, SavesTyped
  <2> QED
    BY <1>2, <2>1 DEF StoredNow
<1>3. QED
  BY <1>1, <1>2 DEF StoredNow

LEMMA KeepStoreFails ==
  ASSUME ThumbInv, NEW i \in 1..Len(saves), Thumbs!StoreFails(i)
  PROVE  ThumbInv'
<1>1. /\ UNCHANGED <<blobs, index, thumbs, removes, timer, thumbAsks>>
      /\ orphans' = IF saves[i][2] THEN orphans \cup {saves[i][1]} ELSE orphans
      /\ saves' = Thumbs!RemoveAt(saves, i)
  BY DEF Thumbs!StoreFails
<1>2. ThumbTypes'
  BY <1>1, SavedLess, SavesTyped DEF ThumbInv, ThumbTypes, Shelf
<1>3. StoredNow \subseteq StoredNow' \cup orphans'
  BY <1>1, SavedLess
<1>4. QED
  BY <1>1, <1>2, <1>3, SavesTyped DEF ThumbInv, Shelf

(* The path that is listed is the last of the list, once. *)
LEMMA ListedFacts ==
  ASSUME NEW p \in Paths, Shelf(thumbs)
  PROVE  LET l == Thumbs!Listed(p) IN
         /\ l \in Seq(Paths) /\ Distinct(l) /\ Elements(l) = Elements(thumbs) \cup {p}
         /\ Len(l) <= ThumbnailLimit + 1
<1> DEFINE kept == Thumbs!RemoveFirst(thumbs, p)
<1>1. thumbs \in Seq(Paths) /\ Distinct(thumbs) /\ Len(thumbs) \in Nat /\ DOMAIN thumbs = 1..Len(thumbs)
  BY LenProperties DEF Shelf
<1>2. /\ kept \in Seq(Paths) /\ Distinct(kept) /\ Elements(kept) = Elements(thumbs) \ {p}
      /\ Len(kept) <= Len(thumbs)
  <2>1. CASE ~\E k \in 1..Len(thumbs) : thumbs[k] = p
    <3>1. kept = thumbs
      BY <1>1, <2>1 DEF Thumbs!RemoveFirst, Thumbs!ToSet
    <3> QED
      BY <1>1, <2>1, <3>1 DEF Elements
  <2>2. CASE \E k \in 1..Len(thumbs) : thumbs[k] = p
    <3>1. \E k \in 1..Len(thumbs) : thumbs[k] = p /\ kept = Without(thumbs, k)
      <4> DEFINE at == CHOOSE k \in DOMAIN thumbs : thumbs[k] = p
      <4>1. at \in 1..Len(thumbs) /\ thumbs[at] = p
        BY <1>1, <2>2
      <4>2. kept = Thumbs!RemoveAt(thumbs, at)
        BY <1>1, <2>2 DEF Thumbs!RemoveFirst, Thumbs!ToSet
      <4> QED
        BY <4>1, <4>2 DEF Thumbs!RemoveAt, Without
    <3>2. PICK k \in 1..Len(thumbs) : thumbs[k] = p /\ kept = Without(thumbs, k)
      BY <3>1
    <3>3. Len(Without(thumbs, k)) = Len(thumbs) - 1
      BY <1>1, WithoutFacts
    <3> QED
      BY <1>1, <3>2, <3>3, WithoutOne
  <2> QED
    BY <2>1, <2>2
<1> HIDE DEF kept
<1>3. <<p>> \in Seq(Paths) /\ Distinct(<<p>>) /\ Elements(<<p>>) = {p}
  BY DEF Distinct, Elements
<1>4. Append(kept, p) = kept \o <<p>> /\ Len(Append(kept, p)) = Len(kept) + 1 /\ Len(kept) \in Nat
  BY <1>2
<1>5. /\ Append(kept, p) \in Seq(Paths) /\ Distinct(Append(kept, p))
      /\ Elements(Append(kept, p)) = Elements(thumbs) \cup {p}
  <2>1. Elements(kept) \cap Elements(<<p>>) = {}
    BY <1>2, <1>3
  <2>2. /\ kept \o <<p>> \in Seq(Paths) /\ Distinct(kept \o <<p>>)
        /\ Elements(kept \o <<p>>) = Elements(kept) \cup Elements(<<p>>)
    <3>1. kept \in Seq(Paths) /\ Distinct(kept) /\ <<p>> \in Seq(Paths) /\ Distinct(<<p>>)
      BY <1>2, <1>3
    <3> QED
      BY <2>1, <3>1, JoinedFacts
  <2>3. Elements(kept) \cup Elements(<<p>>) = Elements(thumbs) \cup {p}
    BY <1>2, <1>3
  <2> QED
    BY <1>4, <2>2, <2>3
<1>6. Len(Append(kept, p)) <= ThumbnailLimit + 1
  BY <1>1, <1>2, <1>4, ThumbAssumed DEF Shelf
<1>7. Thumbs!Listed(p) = Append(kept, p)
  BY DEF Thumbs!Listed, kept
<1>8. QED
  BY <1>5, <1>6, <1>7

LEMMA KeepRemember ==
  ASSUME ThumbInv, NEW i \in 1..Len(saves), Thumbs!Remember(i)
  PROVE  ThumbInv'
<1> DEFINE p == saves[i][1]
           l == Thumbs!Listed(p)
           n == Thumbs!Excess(l)
<1>1. /\ UNCHANGED <<blobs, index, thumbAsks>> /\ saves' = Thumbs!RemoveAt(saves, i)
      /\ thumbs' = SubSeq(l, n + 1, Len(l)) /\ timer' = TRUE /\ orphans' = orphans \ {p}
      /\ removes' = removes \cup Elements(SubSeq(l, 1, n))
  BY DEF Thumbs!Remember, Thumbs!ToSet, Elements
<1>2. p \in Paths /\ Shelf(thumbs) /\ thumbs # None
  BY SavesTyped DEF ThumbInv
<1>3. /\ l \in Seq(Paths) /\ Distinct(l) /\ Elements(l) = Elements(thumbs) \cup {p}
      /\ Len(l) <= ThumbnailLimit + 1
  BY <1>2, ListedFacts
<1> HIDE DEF p, l
<1>4. n \in 0..Len(l) /\ Len(l) \in Nat /\ Len(l) - n <= ThumbnailLimit
  BY <1>3, ThumbAssumed DEF Thumbs!Excess
<1> HIDE DEF n
<1>5. /\ thumbs' \in Seq(Paths) /\ Distinct(thumbs') /\ Len(thumbs') = Len(l) - n
      /\ Elements(thumbs') = Elements(l) \ {l[k] : k \in 1..n}
  BY <1>1, <1>3, <1>4, TailFacts
<1>6. Shelf(thumbs)'
  BY <1>4, <1>5 DEF Shelf
<1>7. Elements(SubSeq(l, 1, n)) = {l[k] : k \in 1..n} /\ {l[k] : k \in 1..n} \subseteq Paths
  <2>1. \A k \in 1..n : l[k] \in Paths
    BY <1>3, <1>4
  <2>2. /\ SubSeq(l, 1, n) \in Seq(Paths) /\ Len(SubSeq(l, 1, n)) = n
        /\ \A k \in 1..n : SubSeq(l, 1, n)[k] = l[k]
    BY <1>3, <1>4
  <2> QED
    BY <2>1, <2>2 DEF Elements
<1>8. ThumbTypes'
  BY <1>1, <1>7, SavedLess DEF ThumbInv, ThumbTypes, Shelf
<1>9. blobs' \subseteq Elements(thumbs') \cup removes' \cup orphans' \cup StoredNow'
  <2>1. blobs \subseteq Elements(thumbs) \cup removes \cup orphans \cup StoredNow
    BY <1>2 DEF ThumbInv
  <2>2. Elements(thumbs) \cup {p} \subseteq Elements(thumbs') \cup removes'
    BY <1>1, <1>3, <1>5, <1>7
  <2>3. StoredNow \subseteq StoredNow' \cup {p}
    BY <1>1, SavedLess DEF p
  <2> QED
    BY <1>1, <2>1, <2>2, <2>3
<1>10. thumbs' # None
  BY <1>6, ThumbAssumed DEF Shelf
<1>11. QED
  BY <1>6, <1>8, <1>9, <1>10 DEF ThumbInv

LEMMA KeepOthers ==
  ASSUME ThumbInv, Thumbs!WriteIndex \/ Thumbs!Close \/ \E p \in Paths : Thumbs!Removed(p)
  PROVE  ThumbInv'
<1>1. CASE Thumbs!WriteIndex
  <2>1. /\ UNCHANGED <<blobs, thumbs, saves, removes, thumbAsks, orphans>> /\ timer /\ timer' = FALSE
        /\ index' \in {index, thumbs}
    BY <1>1 DEF Thumbs!WriteIndex
  <2>2. Shelf(index)'
    BY <2>1 DEF ThumbInv, ThumbTypes, Shelf
  <2>3. StoredNow' = StoredNow
    BY <2>1 DEF StoredNow
  <2> QED
    BY <2>1, <2>2, <2>3 DEF ThumbInv, ThumbTypes, Shelf
<1>2. CASE Thumbs!Close
  <2>1. saves' = <<>> /\ saves' \in Seq(Paths \X BOOLEAN)
    BY <1>2 DEF Thumbs!Close
  <2> QED
    BY <1>2, <2>1 DEF Thumbs!Close, ThumbInv, ThumbTypes, Shelf
<1>3. ASSUME NEW p \in Paths, Thumbs!Removed(p) PROVE ThumbInv'
  <2>1. UNCHANGED <<index, thumbs, saves, timer, thumbAsks>> /\ removes' = removes \ {p}
    BY <1>3 DEF Thumbs!Removed
  <2>2. \/ blobs' = blobs \ {p} /\ orphans' = orphans \ {p}
        \/ blobs' = blobs /\ orphans' = IF p \in blobs THEN orphans \cup {p} ELSE orphans
    BY <1>3 DEF Thumbs!Removed
  <2>3. StoredNow' = StoredNow
    BY <2>1 DEF StoredNow
  <2>4. ThumbTypes'
    BY <2>1, <2>2 DEF ThumbInv, ThumbTypes, Shelf
  <2> QED
    BY <2>1, <2>2, <2>3, <2>4 DEF ThumbInv, Shelf
<1>4. QED
  BY <1>1, <1>2, <1>3

LEMMA ThumbsRun ==
  ASSUME [Next]_vars
  PROVE  Thumbs!Next \/ UNCHANGED Thumbs!vars
BY DEF Next, StandStill, vars, thumbnails, Thumbs!vars

LEMMA ThumbsHold == Spec => []ThumbInv
<1>1. Init => ThumbInv
  BY ThumbInit DEF Init
<1>2. ThumbInv /\ UNCHANGED Thumbs!vars => ThumbInv'
  BY DEF Thumbs!vars, ThumbInv, ThumbTypes, Shelf, StoredNow
<1>3. ThumbInv /\ Thumbs!Next => ThumbInv'
  BY KeepLoad, KeepAsk, KeepStore, KeepStoreFails, KeepRemember, KeepOthers DEF Thumbs!Next
<1>4. QED
  BY <1>1, <1>2, <1>3, ThumbsRun, PTL DEF Spec

LEMMA ThumbsNotForgotten == Spec => []Thumbs!NothingIsForgotten
<1>1. ThumbInv => Thumbs!NothingIsForgotten
  <2> SUFFICES ASSUME ThumbInv, thumbs # None
               PROVE  /\ Len(thumbs) <= ThumbnailLimit /\ Thumbs!IsInjective(thumbs)
                      /\ blobs \subseteq Thumbs!ToSet(thumbs) \cup removes \cup orphans
                                           \cup {saves[i][1] : i \in 1..Len(saves)}
    BY DEF Thumbs!NothingIsForgotten
  <2>1. DOMAIN saves = 1..Len(saves)
    BY LenProperties DEF ThumbInv, ThumbTypes
  <2>2. StoredNow \subseteq {saves[i][1] : i \in 1..Len(saves)}
    BY <2>1 DEF StoredNow
  <2> QED
    BY <2>2 DEF ThumbInv, Shelf, Distinct, Thumbs!IsInjective, Thumbs!ToSet, Elements
<1>2. QED
  BY <1>1, ThumbsHold, PTL

---------------------------------------------------------------------------
(* Photos. *)

LEMMA PhotosAssumed ==
  /\ MaxEffects \in Nat \ {0} /\ FullTaps \in Nat /\ MaxItems \in Nat
  /\ None \notin Photo!Urls /\ None \notin Photo!Boxes
BY PartsAssumption DEF Photo!PhotosAssumption

LEMMA UrlFacts ==
  /\ TileUrls \subseteq Photo!Urls
  /\ \A k \in Nat : /\ Photo!Full(k) \in Photo!Urls \ TileUrls /\ Photo!Item(k) \in Photo!Urls \ TileUrls
                    /\ Photo!Poster(k) \in TileUrls /\ Photo!Original(k) \in TileUrls
                    /\ \A j \in Nat : Photo!Full(k) # Photo!Item(j)
BY DEF TileUrls, Photo!Urls, Photo!Full, Photo!Item, Photo!Poster, Photo!Original

(* What the viewer owns is none of the tile's. *)
LEMMA OwnedFacts ==
  ASSUME BoxSound
  PROVE  /\ Photo!Owned(box) \cap TileUrls = {} /\ Photo!Owned(box) \subseteq Photo!Urls
         /\ box # None /\ box.owns => box.url \in Photo!Owned(box)
<1>1. CASE box = None
  BY <1>1 DEF Photo!Owned
<1>2. CASE box # None
  <2>1. Photo!Owned(box) = (IF box.owns THEN {box.url} ELSE {}) \cup (IF box.item = None THEN {} ELSE {box.item})
    BY <1>2 DEF Photo!Owned
  <2> QED
    BY <1>2, <2>1, UrlFacts DEF BoxSound
<1>3. QED
  BY <1>1, <1>2

LEMMA PhotoInit == ASSUME Photo!Init PROVE PhotoInv
<1>1. /\ live = {} /\ tile = [on |-> TRUE, e |-> 1, urls |-> {}, shows |-> None]
      /\ loads = {<<1, "image">>} /\ fulls = {} /\ fullTaps = 0
      /\ box = None /\ items = {} /\ shownItems = 0
  BY DEF Photo!Init
<1>2. TileSound /\ BoxSound
  BY <1>1, PhotosAssumed DEF TileSound, BoxSound
<1>3. live = tile.urls \cup Photo!Owned(box)
  BY <1>1 DEF Photo!Owned
<1>4. loads \subseteq (1..MaxEffects) \X {"image", "still"} /\ fulls \subseteq Nat \X TileUrls
  BY <1>1, PhotosAssumed
<1>5. QED
  BY <1>1, <1>2, <1>3, <1>4, PhotosAssumed DEF PhotoInv

LEMMA KeepChange ==
  ASSUME PhotoInv, NEW on \in BOOLEAN, Photo!Change(on)
  PROVE  PhotoInv'
<1>1. /\ tile.on /\ (on => tile.e < MaxEffects) /\ live' = live \ tile.urls
      /\ tile' = [on |-> on, e |-> tile.e + 1, urls |-> {}, shows |-> None]
      /\ loads' = IF on THEN loads \cup {<<tile.e + 1, "image">>} ELSE loads
      /\ UNCHANGED <<fulls, fullTaps, box, items, shownItems>>
  BY DEF Photo!Change
<1>2. tile.e \in 1..MaxEffects /\ MaxEffects \in Nat
  BY <1>1, PhotosAssumed DEF PhotoInv, TileSound
<1>3. TileSound'
  BY <1>1, <1>2 DEF TileSound
<1>4. loads' \subseteq (1..MaxEffects) \X {"image", "still"}
  BY <1>1, <1>2 DEF PhotoInv
<1>5. live' = Photo!Owned(box)
  BY <1>1, OwnedFacts DEF PhotoInv, TileSound
<1>6. QED
  BY <1>1, <1>3, <1>4, <1>5 DEF PhotoInv, BoxSound, Photo!Owned

LEMMA Showing ==
  ASSUME PhotoInv, NEW e \in Nat, NEW urls \in SUBSET TileUrls, Photo!Poster(e) \in urls,
         Photo!Shows(e, urls)
  PROVE  TileSound' /\ live' = tile.urls' \cup Photo!Owned(box)
<1>1. CASE Photo!Active(e)
  <2>1. live' = live \cup urls /\ tile' = [tile EXCEPT !.urls = @ \cup urls, !.shows = Photo!Poster(e)]
    BY <1>1 DEF Photo!Shows
  <2>2. tile.on /\ tile.e = e
    BY <1>1 DEF Photo!Active
  <2>3. live' = live \cup urls /\ tile'.urls = tile.urls \cup urls /\ tile'.shows = Photo!Poster(e)
        /\ tile'.on = tile.on /\ tile'.e = tile.e
    BY <2>1 DEF PhotoInv, TileSound
  <2> QED
    BY <2>2, <2>3 DEF PhotoInv, TileSound
<1>2. CASE ~Photo!Active(e)
  BY <1>2 DEF Photo!Shows, PhotoInv, TileSound
<1>3. QED
  BY <1>1, <1>2

LEMMA KeepTile ==
  ASSUME PhotoInv, NEW e \in 1..MaxEffects,
         Photo!Arrives(e) \/ Photo!Draws(e) \/ Photo!Fails(e)
  PROVE  PhotoInv'
<1>1. UNCHANGED <<fulls, fullTaps, box, items, shownItems>> /\ e \in Nat
  BY PhotosAssumed DEF Photo!Arrives, Photo!Draws, Photo!Fails
<1>2. loads' \subseteq (1..MaxEffects) \X {"image", "still"}
  BY DEF PhotoInv, Photo!Arrives, Photo!Draws, Photo!Fails
<1>3. \/ UNCHANGED <<live, tile>>
      \/ Photo!Shows(e, {Photo!Poster(e)})
      \/ Photo!Shows(e, {Photo!Poster(e), Photo!Original(e)})
  BY DEF Photo!Arrives, Photo!Draws, Photo!Fails
<1>4. TileSound' /\ live' = tile.urls' \cup Photo!Owned(box)
  BY <1>1, <1>3, Showing, UrlFacts DEF PhotoInv, TileSound
<1>5. QED
  BY <1>1, <1>2, <1>4 DEF PhotoInv, BoxSound, Photo!Owned

LEMMA Opening ==
  ASSUME PhotoInv, NEW url, NEW owns \in BOOLEAN,
         IF owns THEN \E k \in Nat : url = Photo!Full(k) ELSE url \in TileUrls,
         Photo!Opens(url, owns), UNCHANGED tile, 0 \notin items'
  PROVE  BoxSound' /\ live' = tile.urls \cup Photo!Owned(box')
<1> DEFINE b == [url |-> url, owns |-> owns, item |-> None, wants |-> 0]
<1>1. box' = b /\ live' = (live \ Photo!Owned(box)) \cup (IF owns THEN {url} ELSE {})
  BY DEF Photo!Opens
<1>2. url \in Photo!Urls
  BY UrlFacts
<1>3. b \in Photo!Boxes /\ b.url = url /\ b.owns = owns /\ b.item = None /\ b.wants = 0
  BY <1>2 DEF Photo!Boxes
<1> HIDE DEF b
<1>4. b # None
  BY <1>3, PhotosAssumed
<1>5. BoxSound'
  BY <1>1, <1>3 DEF BoxSound
<1>6. Photo!Owned(b) = IF owns THEN {url} ELSE {}
  BY <1>3, <1>4 DEF Photo!Owned
<1>7. live \ Photo!Owned(box) = tile.urls
  BY OwnedFacts DEF PhotoInv, TileSound
<1>8. QED
  BY <1>1, <1>5, <1>6, <1>7

LEMMA KeepOpen ==
  ASSUME PhotoInv, Photo!OpenOwn \/ Photo!AskFull \/ \E f \in fulls : Photo!FullArrives(f)
  PROVE  PhotoInv'
<1>1. UNCHANGED <<tile, loads, items, shownItems>> /\ 0 \notin items
  <2>1. shownItems \in Nat /\ items \subseteq 1..shownItems
    BY PhotosAssumed DEF PhotoInv
  <2>2. 0 \notin items
    BY <2>1
  <2> QED
    BY <2>2 DEF Photo!OpenOwn, Photo!AskFull, Photo!FullArrives
<1>2. TileSound'
  BY <1>1 DEF PhotoInv, TileSound
<1>3. tile.shows # None => tile.shows \in TileUrls
  BY DEF PhotoInv, TileSound
<1>4. CASE Photo!OpenOwn
  <2>1. /\ tile.shows # None /\ fullTaps' \in 0..FullTaps /\ Photo!Opens(tile.shows, FALSE)
        /\ UNCHANGED fulls
    <3>1. fullTaps \in 0..FullTaps /\ FullTaps \in Nat
      BY PhotosAssumed DEF PhotoInv
    <3>2. /\ tile.shows # None /\ fullTaps < FullTaps /\ fullTaps' = fullTaps + 1
          /\ Photo!Opens(tile.shows, FALSE) /\ UNCHANGED fulls
      BY <1>4 DEF Photo!OpenOwn
    <3>3. fullTaps < FullTaps /\ fullTaps' = fullTaps + 1
      BY <3>2
    <3>4. fullTaps' \in 0..FullTaps
      BY <3>1, <3>3
    <3> QED
      BY <3>2, <3>4
  <2>2. BoxSound' /\ live' = tile.urls \cup Photo!Owned(box')
    BY <1>1, <1>3, <2>1, Opening
  <2> QED
    BY <1>1, <1>2, <2>1, <2>2 DEF PhotoInv, Photo!Owned
<1>5. CASE Photo!AskFull
  <2>1. /\ tile.shows # None /\ fullTaps' \in 0..FullTaps /\ fulls' = fulls \cup {<<fullTaps', tile.shows>>}
        /\ UNCHANGED <<live, box>>
    BY <1>5, PhotosAssumed DEF Photo!AskFull, PhotoInv
  <2>2. fulls' \subseteq Nat \X TileUrls
    BY <1>3, <2>1, PhotosAssumed DEF PhotoInv
  <2> QED
    BY <1>1, <1>2, <2>1, <2>2 DEF PhotoInv, BoxSound, Photo!Owned
<1>6. ASSUME NEW f \in fulls, Photo!FullArrives(f) PROVE PhotoInv'
  <2>1. /\ fulls' = fulls \ {f} /\ UNCHANGED fullTaps
        /\ Photo!Opens(Photo!Full(f[1]), TRUE) \/ Photo!Opens(f[2], FALSE) \/ UNCHANGED <<live, box>>
    BY <1>6 DEF Photo!FullArrives
  <2>2. f[1] \in Nat /\ f[2] \in TileUrls
    BY <1>6 DEF PhotoInv
  <2>3. BoxSound' /\ live' = tile.urls \cup Photo!Owned(box')
    <3>1. CASE Photo!Opens(Photo!Full(f[1]), TRUE)
      BY <1>1, <2>2, <3>1, Opening
    <3>2. CASE Photo!Opens(f[2], FALSE)
      BY <1>1, <2>2, <3>2, Opening
    <3>3. CASE UNCHANGED <<live, box>>
      BY <1>1, <3>3 DEF PhotoInv, BoxSound, Photo!Owned
    <3> QED
      BY <2>1, <3>1, <3>2, <3>3
  <2> QED
    BY <1>1, <1>2, <2>1, <2>3 DEF PhotoInv, Photo!Owned
<1>7. QED
  BY <1>4, <1>5, <1>6

LEMMA KeepMove ==
  ASSUME PhotoInv, NEW n \in 0..1, Photo!Move(n)
  PROVE  PhotoInv'
<1>1. /\ box # None /\ (n # 0 => shownItems < MaxItems)
      /\ shownItems' = IF n # 0 THEN shownItems + 1 ELSE shownItems
      /\ live' = live \ (Photo!Owned(box) \ {box.url})
      /\ box' = [box EXCEPT !.item = None, !.wants = IF n # 0 THEN shownItems' ELSE 0]
      /\ items' = IF n # 0 THEN items \cup {shownItems'} ELSE items
      /\ UNCHANGED <<tile, loads, fulls, fullTaps>>
  BY DEF Photo!Move
<1>2. shownItems \in Nat /\ MaxItems \in Nat /\ shownItems' \in 0..MaxItems /\ items' \subseteq 1..shownItems'
  BY <1>1, PhotosAssumed DEF PhotoInv
<1>3. box \in Photo!Boxes
  BY <1>1 DEF PhotoInv, BoxSound
<1>4. /\ box' \in Photo!Boxes /\ box'.url = box.url /\ box'.owns = box.owns /\ box'.item = None
  <2> DEFINE w == IF n # 0 THEN shownItems' ELSE 0
  <2>1. w \in Nat /\ box' = [box EXCEPT !.item = None, !.wants = w]
    BY <1>1, <1>2, PhotosAssumed
  <2> HIDE DEF w
  <2> QED
    BY <1>3, <2>1 DEF Photo!Boxes
<1>5. box' # None
  BY <1>4, PhotosAssumed
<1>6. BoxSound'
  BY <1>1, <1>4 DEF PhotoInv, BoxSound
<1>7. Photo!Owned(box') = Photo!Owned(box) \cap {box.url}
  <2>1. Photo!Owned(box') = IF box.owns THEN {box.url} ELSE {}
    BY <1>4, <1>5 DEF Photo!Owned
  <2>2. CASE box.owns
    BY <1>1, <2>1, <2>2, OwnedFacts DEF PhotoInv
  <2>3. CASE ~box.owns
    <3>1. box.url \in TileUrls
      BY <1>1, <2>3 DEF PhotoInv, BoxSound
    <3> QED
      BY <2>1, <2>3, <3>1, OwnedFacts DEF PhotoInv
  <2> QED
    BY <2>2, <2>3
<1>8. live' = tile.urls \cup Photo!Owned(box')
  BY <1>1, <1>7, OwnedFacts DEF PhotoInv, TileSound
<1>9. QED
  BY <1>1, <1>2, <1>6, <1>8 DEF PhotoInv, TileSound, Photo!Owned

LEMMA KeepItem ==
  ASSUME PhotoInv, NEW k \in items, Photo!ItemArrives(k)
  PROVE  PhotoInv'
<1>1. /\ items' = items \ {k} /\ UNCHANGED <<tile, loads, fulls, fullTaps, shownItems>>
      /\ \/ /\ box # None /\ box.wants = k /\ live' = live \cup {Photo!Item(k)}
            /\ box' = [box EXCEPT !.item = Photo!Item(k)]
         \/ UNCHANGED <<live, box>>
  BY DEF Photo!ItemArrives, Photo!TooLate
<1>2. TileSound' /\ items' \subseteq 1..shownItems
  BY <1>1 DEF PhotoInv, TileSound
<1>3. CASE UNCHANGED <<live, box>>
  BY <1>1, <1>2, <1>3 DEF PhotoInv, BoxSound, Photo!Owned
<1>4. CASE /\ box # None /\ box.wants = k /\ live' = live \cup {Photo!Item(k)}
           /\ box' = [box EXCEPT !.item = Photo!Item(k)]
  <2>1. box \in Photo!Boxes /\ box.item = None /\ k \in Nat
    BY <1>4, PhotosAssumed DEF PhotoInv, BoxSound
  <2>2. Photo!Item(k) \in Photo!Urls /\ Photo!Item(k) # None
    BY <2>1, UrlFacts, PhotosAssumed
  <2>3. /\ box' \in Photo!Boxes /\ box'.url = box.url /\ box'.owns = box.owns
        /\ box'.item = Photo!Item(k) /\ box'.wants = k
    BY <1>4, <2>1, <2>2 DEF Photo!Boxes
  <2>4. box' # None
    BY <2>3, PhotosAssumed
  <2>5. BoxSound'
    BY <1>1, <1>4, <2>1, <2>3 DEF PhotoInv, BoxSound
  <2>6. Photo!Owned(box') = Photo!Owned(box) \cup {Photo!Item(k)}
    BY <1>4, <2>1, <2>2, <2>3, <2>4 DEF Photo!Owned
  <2> QED
    BY <1>1, <1>2, <1>4, <2>5, <2>6 DEF PhotoInv
<1>5. QED
  BY <1>1, <1>3, <1>4

LEMMA KeepClose ==
  ASSUME PhotoInv, Photo!Close
  PROVE  PhotoInv'
<1>1. /\ box' = None /\ live' = live \ Photo!Owned(box)
      /\ UNCHANGED <<tile, loads, fulls, fullTaps, items, shownItems>>
  BY DEF Photo!Close
<1>2. live' = tile.urls
  BY <1>1, OwnedFacts DEF PhotoInv, TileSound
<1>3. QED
  BY <1>1, <1>2 DEF PhotoInv, TileSound, BoxSound, Photo!Owned

LEMMA PhotosRun ==
  ASSUME [Next]_vars
  PROVE  Photo!Next \/ UNCHANGED Photo!vars
BY DEF Next, StandStill, vars, photos, Photo!vars

LEMMA PhotosHold == Spec => []PhotoInv
<1>1. Init => PhotoInv
  BY PhotoInit DEF Init
<1>2. PhotoInv /\ UNCHANGED Photo!vars => PhotoInv'
  BY DEF Photo!vars, PhotoInv, TileSound, BoxSound, Photo!Owned
<1>3. PhotoInv /\ Photo!Next => PhotoInv'
  BY KeepChange, KeepTile, KeepOpen, KeepMove, KeepItem, KeepClose DEF Photo!Next
<1>4. QED
  BY <1>1, <1>2, <1>3, PhotosRun, PTL DEF Spec

LEMMA PhotosAreOwned == Spec => []Photo!UrlsAreOwned
<1>1. PhotoInv => Photo!UrlsAreOwned
  <2> SUFFICES ASSUME PhotoInv
               PROVE  /\ live = tile.urls \cup Photo!Owned(box)
                      /\ tile.shows # None => tile.shows \in live
                      /\ box # None => (box.url \in live \/ ~box.owns)
    BY DEF Photo!UrlsAreOwned
  <2> QED
    BY OwnedFacts DEF PhotoInv, TileSound
<1>2. QED
  BY <1>1, PhotosHold, PTL

---------------------------------------------------------------------------
\* NothingIsForgotten of MCParts: every thumbnail on the device is accounted for, every object
\* URL has someone to revoke it, no upkeep waits while nothing is under way and no invitation
\* for what is joined (boardMediaCache.js, ui/Media.jsx, pumpBackground, join_object).
THEOREM NothingIsForgottenHolds == Spec => []NothingIsForgotten
<1>1. /\ Thumbs!NothingIsForgotten /\ Photo!UrlsAreOwned /\ Lanes!NothingWaitsIdle
      /\ Invited!DeclineStands /\ Invited!JoinedIsNotInvited
      => NothingIsForgotten
  BY DEF NothingIsForgotten
<1>2. QED
  BY <1>1, ThumbsNotForgotten, PhotosAreOwned, LanesNothingWaits, RefusalsHold, PTL

---------------------------------------------------------------------------
(* The open thread. *)

LEMMA ThreadAssumed ==
  MaxReads \in Nat /\ ThreadBudget \in Nat /\ IsFiniteSet(Thread!Replies) /\ Own \subseteq Thread!Replies
<1>1. Thread!BoardThreadAssumption
  BY PartsAssumption
<1>2. Thread!IsFiniteSet(Thread!Replies) <=> IsFiniteSet(Thread!Replies)
  BY DEF Thread!IsFiniteSet, IsFiniteSet
<1>3. QED
  BY <1>1, <1>2 DEF Thread!BoardThreadAssumption, Thread!Replies

LEMMA Counted ==
  \A S \in Rows : Thread!Cardinality(S) \in 0..Cardinality(Thread!Replies)
<1>1. SUFFICES ASSUME NEW S \in Rows PROVE Cardinality(S) \in 0..Cardinality(Thread!Replies)
  BY DEF Thread!Cardinality, Cardinality
<1>2. S \in SUBSET Thread!Replies
  BY DEF Rows
<1>3. IsFiniteSet(S) /\ Cardinality(S) <= Cardinality(Thread!Replies)
  BY <1>2, ThreadAssumed, FS_Subset
<1>4. Cardinality(S) \in Nat /\ Cardinality(Thread!Replies) \in Nat
  BY <1>3, ThreadAssumed, FS_CardinalityType
<1>5. QED
  BY <1>3, <1>4

LEMMA ThreadInit == ASSUME Thread!Init PROVE ThreadInv
<1>1. /\ host \in Rows /\ buried = {} /\ replyCache = Thread!NoEntry
      /\ reads = [n \in 1..MaxReads |-> Thread!Free]
      /\ open = FALSE /\ rows = {} /\ pending = {} /\ state = "idle" /\ awaited = Thread!NoRead
      /\ posting = Thread!NotPosting /\ deleting = [o \in Own |-> "no"]
      /\ threadLeft = ThreadBudget /\ done = Own \cap host /\ gone = {}
      /\ count = 0 \/ count = Thread!Cardinality(host)
  BY DEF Thread!Init, Rows
<1>2. count \in 0..Cardinality(Thread!Replies)
  <2>1. {} \in Rows
    BY DEF Rows
  <2>2. Thread!Cardinality({}) \in 0..Cardinality(Thread!Replies) /\ Thread!Cardinality(host) \in 0..Cardinality(Thread!Replies)
    BY <1>1, <2>1, Counted
  <2>3. 0 \in 0..Cardinality(Thread!Replies)
    <3>1. Cardinality(Thread!Replies) \in Nat
      BY ThreadAssumed, FS_CardinalityType
    <3> QED
      BY <3>1
  <2> QED
    BY <1>1, <2>2, <2>3
<1>3. replyCache \in Entries /\ awaited \in [read : 0..MaxReads, quiet : BOOLEAN] /\ posting \in Posts
  BY <1>1, ThreadAssumed DEF Thread!NoEntry, Thread!NoRead, Thread!NotPosting, Entries, Posts, Rows
<1>4. reads \in [1..MaxReads -> Answers]
  BY <1>1 DEF Thread!Free, Answers, Rows
<1>5. threadLeft \in 0..ThreadBudget
  BY <1>1, ThreadAssumed
<1>6. ThreadTypes
  BY <1>1, <1>2, <1>3, <1>4, <1>5 DEF ThreadTypes, Rows
<1>7. ChangesSound /\ EntrySound /\ ScreenSound
  BY <1>1 DEF ChangesSound, EntrySound, ScreenSound, Thread!NoEntry, Thread!NoRead, Thread!NotPosting
<1>8. ReadsSound
  BY <1>1 DEF ReadsSound, Thread!NoEntry, Thread!Free
<1>9. QED
  BY <1>6, <1>7, <1>8 DEF ThreadInv

LEMMA Spent == ASSUME ThreadTypes, Thread!Spend PROVE threadLeft' \in 0..ThreadBudget
BY ThreadAssumed DEF ThreadTypes, Thread!Spend

(* A read is shared, or it is a new one, of which nothing is known yet. *)
LEMMA Reading ==
  ASSUME ThreadTypes, NEW c \in Entries, NEW after \in BOOLEAN, NEW quiet \in BOOLEAN,
         Thread!Read(c, after, quiet)
  PROVE  /\ replyCache' \in Entries /\ reads' \in [1..MaxReads -> Answers]
         /\ replyCache'.rows = c.rows /\ replyCache'.has = c.has
         /\ \/ ~after /\ replyCache' = c /\ reads' = reads
            \/ /\ replyCache'.read \in 1..MaxReads /\ reads'[replyCache'.read] = Thread!Asked
               /\ \A n \in 1..MaxReads : n # replyCache'.read => reads'[n] = reads[n]
<1>1. CASE Thread!Shares(c, after, quiet)
  BY <1>1 DEF Thread!Read, Thread!Shares, ThreadTypes
<1>2. CASE ~Thread!Shares(c, after, quiet)
  <2> DEFINE unused == {k \in DOMAIN reads : reads[k].is = "free"}
             n == CHOOSE k \in unused : \A j \in unused : k <= j
  <2>1. /\ unused # {} /\ reads' = [reads EXCEPT ![n] = Thread!Asked]
        /\ replyCache' = [c EXCEPT !.read = n, !.quiet = quiet]
    BY <1>2 DEF Thread!Read
  <2>2. unused \in SUBSET Nat /\ DOMAIN reads = 1..MaxReads
    BY ThreadAssumed DEF ThreadTypes
  <2>3. n \in 1..MaxReads
    BY <2>1, <2>2, LeastIndex
  <2> HIDE DEF n
  <2>4. Thread!Asked \in Answers
    BY DEF Thread!Asked, Thread!Free, Answers, Rows
  <2>5. n \in 0..MaxReads
    BY <2>3
  <2>6. replyCache' \in Entries /\ replyCache'.rows = c.rows /\ replyCache'.has = c.has /\ replyCache'.read = n
    BY <2>1, <2>5 DEF Entries
  <2> QED
    BY <2>1, <2>3, <2>4, <2>6 DEF ThreadTypes
<1>3. QED
  BY <1>1, <1>2

LEMMA EntryFacts ==
  /\ Thread!NoEntry \in Entries /\ Thread!NoEntry.rows = {} /\ Thread!NoEntry.read = 0
  /\ ~Thread!NoEntry.has
  /\ \A r \in Rows : /\ Thread!Remembered(r) \in Entries /\ Thread!Remembered(r).rows = r
                     /\ Thread!Remembered(r).has /\ Thread!Remembered(r).read = 0
  /\ Thread!NoRead \in [read : 0..MaxReads, quiet : BOOLEAN] /\ Thread!NoRead.read = 0
  /\ Thread!NotPosting \in Posts /\ Thread!NotPosting.is = "none"
  /\ Thread!Asked \in Answers /\ Thread!Free \in Answers
  /\ Thread!Asked.rows = {} /\ Thread!Asked.is = "asked" /\ Thread!Free.rows = {} /\ Thread!Free.is = "free"
<1>1. 0 \in 0..MaxReads /\ {} \in Rows
  BY ThreadAssumed DEF Rows
<1>2. /\ Thread!NoEntry \in Entries /\ Thread!NoEntry.rows = {} /\ Thread!NoEntry.read = 0
      /\ ~Thread!NoEntry.has
  BY <1>1 DEF Thread!NoEntry, Entries
<1>3. ASSUME NEW r \in Rows
      PROVE  /\ Thread!Remembered(r) \in Entries /\ Thread!Remembered(r).rows = r
             /\ Thread!Remembered(r).has /\ Thread!Remembered(r).read = 0
  BY <1>1, <1>3 DEF Thread!NoEntry, Thread!Remembered, Entries
<1>4. Thread!NoRead \in [read : 0..MaxReads, quiet : BOOLEAN] /\ Thread!NoRead.read = 0
  BY <1>1 DEF Thread!NoRead
<1>5. Thread!NotPosting \in Posts /\ Thread!NotPosting.is = "none"
  BY <1>1 DEF Thread!NotPosting, Posts
<1>6. /\ Thread!Asked \in Answers /\ Thread!Free \in Answers
      /\ Thread!Asked.rows = {} /\ Thread!Asked.is = "asked" /\ Thread!Free.rows = {} /\ Thread!Free.is = "free"
  BY <1>1 DEF Thread!Asked, Thread!Free, Answers
<1>7. QED
  BY <1>2, <1>3, <1>4, <1>5, <1>6

(* The entry that a read is to replace keeps its rows, and what is known of the read   *)
(* holds of the one that is shared and of the new one.                                *)
LEMMA ReadKeeps ==
  ASSUME ThreadInv, NEW c \in Entries, NEW after \in BOOLEAN, NEW quiet \in BOOLEAN,
         Thread!Read(c, after, quiet), UNCHANGED <<host, buried>>,
         c.rows \subseteq host \cup buried, c.rows \cap gone' = {}, ~c.has => c.rows = {},
         ~after /\ c.read # 0 =>
           /\ reads[c.read].rows \cap gone' = {}
           /\ reads[c.read].is = "rows" => c.rows \cap host \subseteq reads[c.read].rows \cup Thread!Deleting'
  PROVE  EntrySound' /\ ReadsSound'
<1>1. /\ replyCache' \in Entries /\ reads' \in [1..MaxReads -> Answers]
      /\ replyCache'.rows = c.rows /\ replyCache'.has = c.has
      /\ \/ ~after /\ replyCache' = c /\ reads' = reads
         \/ /\ replyCache'.read \in 1..MaxReads /\ reads'[replyCache'.read] = Thread!Asked
            /\ \A n \in 1..MaxReads : n # replyCache'.read => reads'[n] = reads[n]
  BY Reading DEF ThreadInv
<1>2. EntrySound'
  BY <1>1 DEF EntrySound
<1>3. \A n \in 1..MaxReads : reads[n].rows \subseteq host \cup buried
  BY DEF ThreadInv, ReadsSound
<1>4. CASE ~after /\ replyCache' = c /\ reads' = reads
  <2>1. c.read # 0 =>
          /\ reads[c.read].rows \cap gone' = {}
          /\ reads[c.read].is = "rows" => c.rows \cap host \subseteq reads[c.read].rows \cup Thread!Deleting'
    BY <1>4
  <2> QED
    BY <1>2, <1>3, <1>4, <2>1 DEF ReadsSound
<1>5. CASE /\ replyCache'.read \in 1..MaxReads /\ reads'[replyCache'.read] = Thread!Asked
           /\ \A n \in 1..MaxReads : n # replyCache'.read => reads'[n] = reads[n]
  <2>1. ASSUME NEW n \in 1..MaxReads PROVE reads'[n].rows \subseteq host' \cup buried'
    BY <1>3, <1>5, EntryFacts
  <2>2. reads'[replyCache'.read].rows = {} /\ reads'[replyCache'.read].is # "rows"
    BY <1>5, EntryFacts
  <2>3. /\ reads'[replyCache'.read].rows \cap gone' = {}
        /\ reads'[replyCache'.read].is = "rows" =>
             replyCache'.rows \cap host' \subseteq reads'[replyCache'.read].rows \cup Thread!Deleting'
    BY <2>2
  <2> QED
    BY <1>2, <2>1, <2>3 DEF ReadsSound
<1>6. QED
  BY <1>1, <1>4, <1>5

LEMMA LoadKeeps ==
  ASSUME ThreadInv, NEW after \in BOOLEAN, NEW quiet \in BOOLEAN,
         Thread!Read(replyCache, after, quiet), UNCHANGED <<host, buried, gone, deleting>>
  PROVE  /\ EntrySound' /\ ReadsSound'
         /\ replyCache' \in Entries /\ reads' \in [1..MaxReads -> Answers]
         /\ replyCache'.rows = replyCache.rows /\ replyCache'.has = replyCache.has
<1>1. replyCache \in Entries /\ Thread!Deleting' = Thread!Deleting
  BY DEF ThreadInv, ThreadTypes, Thread!Deleting
<1>2. /\ replyCache.rows \subseteq host \cup buried /\ replyCache.rows \cap gone' = {}
      /\ ~replyCache.has => replyCache.rows = {}
  BY DEF ThreadInv, EntrySound
<1>3. replyCache.read # 0 =>
        /\ reads[replyCache.read].rows \cap gone' = {}
        /\ reads[replyCache.read].is = "rows" =>
             replyCache.rows \cap host \subseteq reads[replyCache.read].rows \cup Thread!Deleting'
  BY <1>1 DEF ThreadInv, ReadsSound
<1>4. EntrySound' /\ ReadsSound'
  BY <1>1, <1>2, <1>3, ReadKeeps
<1>5. QED
  BY <1>1, <1>4, Reading DEF ThreadInv

(* A step of the host, or of an answer of its, where rows and reads stay as they are.    *)
LEMMA HostKeeps ==
  ASSUME ThreadInv, host' \in Rows, buried' \in Rows, host' \cap buried' = {},
         buried \subseteq buried', host \cup buried \subseteq host' \cup buried',
         host' \cap (host \cup buried) \subseteq host,
         Thread!Deleting' = Thread!Deleting, threadLeft' \in 0..ThreadBudget,
         posting' \in Posts, deleting' \in [Own -> {"no", "asked", "ok", "failed"}], ChangesSound',
         UNCHANGED <<count, replyCache, reads, open, rows, pending, state, awaited, done, gone>>
  PROVE  ThreadInv'
<1>1. ThreadTypes'
  BY DEF ThreadInv, ThreadTypes
<1>2. EntrySound'
  BY DEF ThreadInv, EntrySound
<1>3. ReadsSound'
  <2>1. ASSUME NEW n \in 1..MaxReads PROVE reads'[n].rows \subseteq host' \cup buried'
    <3>1. reads[n].rows \subseteq host \cup buried
      BY DEF ThreadInv, ReadsSound
    <3> QED
      BY <3>1
  <2>2. ASSUME replyCache'.read # 0
        PROVE  /\ reads'[replyCache'.read].rows \cap gone' = {}
               /\ reads'[replyCache'.read].is = "rows" =>
                    replyCache'.rows \cap host' \subseteq reads'[replyCache'.read].rows \cup Thread!Deleting'
    <3>1. /\ reads[replyCache.read].rows \cap gone = {}
          /\ reads[replyCache.read].is = "rows" =>
               replyCache.rows \cap host \subseteq reads[replyCache.read].rows \cup Thread!Deleting
      BY <2>2 DEF ThreadInv, ReadsSound
    <3>2. replyCache.rows \cap host' \subseteq host
      BY DEF ThreadInv, EntrySound
    <3> QED
      BY <3>1, <3>2
  <2> QED
    BY <2>1, <2>2 DEF ReadsSound
<1>4. ScreenSound'
  <2>1. rows \cap host' \subseteq host
    BY DEF ThreadInv, ScreenSound
  <2> QED
    BY <2>1 DEF ThreadInv, ScreenSound
<1>5. QED
  BY <1>1, <1>2, <1>3, <1>4 DEF ThreadInv

LEMMA AnswerPostKeeps == ASSUME ThreadInv, Thread!AnswerPost PROVE ThreadInv'
<1> DEFINE o == posting.id
           with == host \cup ({o} \ buried)
<1>1. /\ posting \in Posts /\ posting.is = "asked" /\ o \in Own /\ o \notin gone
      /\ host \in Rows /\ buried \in Rows /\ host \cap buried = {} /\ threadLeft \in 0..ThreadBudget
  BY DEF ThreadInv, ThreadTypes, ChangesSound, Thread!AnswerPost
<1>2. /\ UNCHANGED <<buried, count, replyCache, reads, open, rows, pending, state, awaited, deleting, done, gone>>
      /\ host' = host \/ host' = with
      /\ threadLeft' \in 0..ThreadBudget
  BY Spent DEF ThreadInv, ThreadTypes, Thread!AnswerPost, Thread!thread
<1>3. /\ posting' \in Posts /\ posting'.id = o
      /\ posting'.is = "ok" => host' = with
  <2>1. CASE /\ posting' = [posting EXCEPT !.is = IF posting.id \in buried THEN "gone" ELSE "ok"]
             /\ host' = with
    BY <1>1, <2>1 DEF Posts
  <2>2. CASE posting' = [posting EXCEPT !.is = "failed"]
    BY <1>1, <2>2 DEF Posts
  <2> QED
    BY <2>1, <2>2 DEF Thread!AnswerPost
<1>4. /\ host' \in Rows /\ host' \cap buried' = {} /\ host \subseteq host'
      /\ host' \cap (host \cup buried) \subseteq host
  BY <1>1, <1>2, ThreadAssumed DEF Rows
<1>5. ChangesSound'
  <2>1. posting'.is = "ok" => o \in host' \cup buried'
    BY <1>2, <1>3
  <2>2. /\ gone \subseteq buried \cap done
        /\ \A r \in Own : deleting[r] # "no" =>
             r \in done /\ r \in host \cup buried /\ r \notin gone /\ replyCache.has
        /\ \A r \in Own : deleting[r] = "ok" => r \in buried
    BY DEF ThreadInv, ChangesSound
  <2> HIDE DEF with
  <2> QED
    BY <1>1, <1>2, <1>3, <1>4, <2>1, <2>2 DEF ChangesSound
<1>6. Thread!Deleting' = Thread!Deleting /\ deleting' \in [Own -> {"no", "asked", "ok", "failed"}]
  BY <1>2 DEF Thread!Deleting, ThreadInv, ThreadTypes
<1> HIDE DEF with, o
<1>7. QED
  BY <1>1, <1>2, <1>3, <1>4, <1>5, <1>6, HostKeeps

LEMMA AnswerDeleteKeeps ==
  ASSUME NEW r \in Own, ThreadInv, Thread!AnswerDelete(r) PROVE ThreadInv'
<1>1. /\ deleting \in [Own -> {"no", "asked", "ok", "failed"}] /\ deleting[r] = "asked"
      /\ host \in Rows /\ buried \in Rows /\ host \cap buried = {} /\ threadLeft \in 0..ThreadBudget
      /\ r \in host \cup buried /\ posting \in Posts
  BY DEF ThreadInv, ThreadTypes, ChangesSound, Thread!AnswerDelete
<1>2. /\ UNCHANGED <<count, replyCache, reads, open, rows, pending, state, awaited, posting, done, gone>>
      /\ threadLeft' \in 0..ThreadBudget
      /\ Thread!Bury(r) \/ UNCHANGED <<host, buried>>
  BY Spent DEF ThreadInv, ThreadTypes, Thread!AnswerDelete, Thread!thread, Thread!service
<1>3. /\ deleting' = [deleting EXCEPT ![r] = "ok"] /\ Thread!Bury(r)
      \/ deleting' = [deleting EXCEPT ![r] = "failed"]
  BY DEF Thread!AnswerDelete
<1>4. /\ host' \in Rows /\ buried' \in Rows /\ host' \cap buried' = {} /\ buried \subseteq buried'
      /\ host \cup buried \subseteq host' \cup buried' /\ host' \cap (host \cup buried) \subseteq host
  BY <1>1, <1>2, ThreadAssumed DEF Thread!Bury, Rows
<1>5. /\ deleting' \in [Own -> {"no", "asked", "ok", "failed"}]
      /\ \A q \in Own : deleting'[q] # "no" <=> deleting[q] # "no"
      /\ \A q \in Own : deleting'[q] = "ok" => deleting[q] = "ok" \/ (q = r /\ Thread!Bury(r))
  BY <1>1, <1>3
<1>6. Thread!Deleting' = Thread!Deleting
  BY <1>5 DEF Thread!Deleting
<1>7. ChangesSound'
  <2>1. /\ gone \subseteq buried \cap done
        /\ \A q \in Own : deleting[q] # "no" =>
             q \in done /\ q \in host \cup buried /\ q \notin gone /\ replyCache.has
        /\ \A q \in Own : deleting[q] = "ok" => q \in buried
        /\ posting.is # "none" => posting.id \in Own /\ posting.id \notin gone
        /\ posting.is = "ok" => posting.id \in host \cup buried
    BY DEF ThreadInv, ChangesSound
  <2>2. Thread!Bury(r) => r \in buried'
    BY DEF Thread!Bury
  <2> QED
    BY <1>2, <1>4, <1>5, <2>1, <2>2 DEF ChangesSound
<1>8. QED
  BY <1>1, <1>2, <1>4, <1>5, <1>6, <1>7, HostKeeps

LEMMA HostChangesKeeps == ASSUME ThreadInv, Thread!HostChanges PROVE ThreadInv'
<1>1. /\ deleting \in [Own -> {"no", "asked", "ok", "failed"}] /\ posting \in Posts
      /\ host \in Rows /\ buried \in Rows /\ host \cap buried = {}
  BY DEF ThreadInv, ThreadTypes
<1>2. /\ UNCHANGED <<count, replyCache, reads, open, rows, pending, state, awaited, posting, deleting, done, gone>>
      /\ threadLeft' \in 0..ThreadBudget
  BY Spent DEF ThreadInv, Thread!HostChanges, Thread!thread
<1>3. /\ host' \in Rows /\ buried' \in Rows /\ host' \cap buried' = {} /\ buried \subseteq buried'
      /\ host \cup buried \subseteq host' \cup buried' /\ host' \cap (host \cup buried) \subseteq host
  <2>1. CASE \E r \in Others \ (host \cup buried) : host' = host \cup {r} /\ UNCHANGED buried
    BY <1>1, <2>1 DEF Rows, Thread!Replies
  <2>2. CASE \E r \in host : Thread!Bury(r)
    BY <1>1, <2>2 DEF Rows, Thread!Bury
  <2> QED
    BY <2>1, <2>2 DEF Thread!HostChanges
<1>4. ChangesSound'
  BY <1>2, <1>3 DEF ThreadInv, ChangesSound
<1>5. Thread!Deleting' = Thread!Deleting
  BY <1>2 DEF Thread!Deleting
<1>6. QED
  BY <1>1, <1>2, <1>3, <1>4, <1>5, HostKeeps

(* What a step leaves that neither changes the host nor what the owner has under way.   *)
LEMMA ChangesKept ==
  ASSUME ThreadInv, UNCHANGED <<host, buried, gone, deleting, posting>>, done \subseteq done',
         replyCache.has => replyCache'.has
  PROVE  ChangesSound'
BY DEF ThreadInv, ChangesSound

LEMMA ShownFacts ==
  ASSUME ThreadInv, Thread!Shown, rows' \in Rows
  PROVE  done' \subseteq Own /\ done \subseteq done' /\ rows' \cap Own \subseteq done'
BY DEF ThreadInv, ThreadTypes, Thread!Shown

LEMMA OpenKeeps == ASSUME ThreadInv, Thread!Open PROVE ThreadInv'
<1>1. /\ UNCHANGED <<host, buried, count, posting, deleting, gone>> /\ open' = TRUE /\ pending' = {}
      /\ threadLeft' \in 0..ThreadBudget /\ Thread!Shown
  BY Spent DEF ThreadInv, Thread!Open, Thread!service
<1>2. replyCache \in Entries /\ reads \in [1..MaxReads -> Answers] /\ {} \in Rows /\ Thread!Deleting' = Thread!Deleting
  BY <1>1 DEF ThreadInv, ThreadTypes, Rows, Thread!Deleting
<1>3. CASE Thread!NothingToRead
  <2>1. /\ rows' = {} /\ state' = "ready" /\ awaited' = Thread!NoRead /\ reads' = reads
        /\ replyCache' = Thread!Remembered({})
    BY <1>3 DEF Thread!Open, Thread!LoadAtOnce
  <2>2. /\ replyCache' \in Entries /\ replyCache'.rows = {} /\ replyCache'.has /\ replyCache'.read = 0
        /\ awaited' \in [read : 0..MaxReads, quiet : BOOLEAN] /\ awaited'.read = 0
    BY <1>2, <2>1, EntryFacts
  <2>3. done' \subseteq Own /\ done \subseteq done' /\ rows' \cap Own \subseteq done'
    BY <1>1, <1>2, <2>1, ShownFacts
  <2>4. ChangesSound'
    BY <1>1, <2>2, <2>3, ChangesKept
  <2>5. ThreadTypes'
    BY <1>1, <1>2, <2>1, <2>2, <2>3 DEF ThreadInv, ThreadTypes
  <2>6. EntrySound' /\ ReadsSound'
    BY <1>1, <2>1, <2>2 DEF ThreadInv, EntrySound, ReadsSound
  <2>7. ScreenSound'
    BY <1>1, <2>1, <2>2 DEF ScreenSound
  <2> QED
    BY <2>4, <2>5, <2>6, <2>7 DEF ThreadInv
<1>4. CASE ~Thread!NothingToRead
  <2>1. /\ rows' = replyCache.rows /\ state' = (IF replyCache.has THEN "ready" ELSE "loading")
        /\ Thread!Read(replyCache, FALSE, replyCache.has)
        /\ awaited' = [read |-> replyCache'.read, quiet |-> replyCache.has]
    BY <1>4 DEF Thread!Open, Thread!Load
  <2>2. replyCache.has \in BOOLEAN /\ replyCache.rows \in Rows
    BY <1>2 DEF Entries
  <2>3. /\ EntrySound' /\ ReadsSound' /\ replyCache' \in Entries /\ reads' \in [1..MaxReads -> Answers]
        /\ replyCache'.rows = replyCache.rows /\ replyCache'.has = replyCache.has
    BY <1>1, <2>1, <2>2, LoadKeeps
  <2>4. awaited' \in [read : 0..MaxReads, quiet : BOOLEAN] /\ awaited'.read = replyCache'.read
    BY <2>1, <2>2, <2>3 DEF Entries
  <2>5. done' \subseteq Own /\ done \subseteq done' /\ rows' \cap Own \subseteq done'
    BY <1>1, <2>1, <2>2, ShownFacts
  <2>6. ChangesSound'
    BY <1>1, <2>3, <2>5, ChangesKept
  <2>7. state' \in {"idle", "loading", "ready", "error"}
    BY <2>1
  <2>8. ThreadTypes'
    BY <1>1, <1>2, <2>1, <2>2, <2>3, <2>4, <2>5, <2>7 DEF ThreadInv, ThreadTypes
  <2>9. ScreenSound'
    BY <1>1, <2>1, <2>3, <2>4, <2>5 DEF ThreadInv, EntrySound, ScreenSound
  <2> QED
    BY <2>3, <2>6, <2>8, <2>9 DEF ThreadInv
<1>5. QED
  BY <1>3, <1>4

LEMMA OpenTargetKeeps == ASSUME ThreadInv, Thread!OpenTarget PROVE ThreadInv'
<1>1. /\ UNCHANGED <<host, buried, count, posting, deleting, done, gone>> /\ open' = TRUE /\ rows' = {} /\ pending' = {}
      /\ state' = "loading" /\ threadLeft' \in 0..ThreadBudget
      /\ Thread!Read(replyCache, TRUE, FALSE) /\ awaited' = [read |-> replyCache'.read, quiet |-> FALSE]
  BY Spent DEF ThreadInv, Thread!OpenTarget, Thread!service, Thread!Load
<1>2. /\ EntrySound' /\ ReadsSound' /\ replyCache' \in Entries /\ reads' \in [1..MaxReads -> Answers]
      /\ replyCache'.rows = replyCache.rows /\ replyCache'.has = replyCache.has
  BY <1>1, LoadKeeps
<1>3. awaited' \in [read : 0..MaxReads, quiet : BOOLEAN] /\ awaited'.read = replyCache'.read
  BY <1>1, <1>2 DEF Entries
<1>4. ChangesSound'
  BY <1>1, <1>2, ChangesKept
<1>5. ThreadTypes'
  BY <1>1, <1>2, <1>3 DEF ThreadInv, ThreadTypes, Rows
<1>6. ScreenSound'
  BY <1>1, <1>3 DEF ScreenSound
<1>7. QED
  BY <1>2, <1>4, <1>5, <1>6 DEF ThreadInv

LEMMA CloseKeeps == ASSUME ThreadInv, Thread!Close PROVE ThreadInv'
<1>1. /\ UNCHANGED <<host, buried, count, replyCache, reads, rows, pending, posting, deleting, threadLeft, done, gone>>
      /\ open' = FALSE /\ state' = "idle" /\ awaited' = Thread!NoRead
  BY DEF Thread!Close, Thread!service
<1>2. awaited' \in [read : 0..MaxReads, quiet : BOOLEAN] /\ awaited'.read = 0
  BY <1>1, EntryFacts
<1>3. ThreadTypes'
  BY <1>1, <1>2 DEF ThreadInv, ThreadTypes
<1>4. ChangesSound'
  BY <1>1, ChangesKept
<1>5. EntrySound' /\ ReadsSound'
  BY <1>1 DEF ThreadInv, EntrySound, ReadsSound, Thread!Deleting
<1>6. ScreenSound'
  BY <1>1, <1>2 DEF ThreadInv, ScreenSound
<1>7. QED
  BY <1>3, <1>4, <1>5, <1>6 DEF ThreadInv

LEMMA RetryLoadKeeps == ASSUME ThreadInv, Thread!RetryLoad PROVE ThreadInv'
<1>1. /\ UNCHANGED <<host, buried, count, open, posting, deleting, gone>> /\ open
      /\ threadLeft' \in 0..ThreadBudget /\ Thread!Shown
  BY Spent DEF ThreadInv, Thread!RetryLoad, Thread!service
<1>2. /\ replyCache \in Entries /\ reads \in [1..MaxReads -> Answers] /\ {} \in Rows /\ rows \in Rows /\ pending \in Rows
      /\ replyCache.rows \in Rows /\ Thread!Deleting' = Thread!Deleting
  BY <1>1 DEF ThreadInv, ThreadTypes, Rows, Entries, Thread!Deleting
<1>3. CASE /\ rows' = {} /\ state' = "ready" /\ awaited' = Thread!NoRead /\ reads' = reads
           /\ replyCache' = Thread!Remembered({}) /\ pending' = {}
  <2>2. /\ replyCache' \in Entries /\ replyCache'.rows = {} /\ replyCache'.has /\ replyCache'.read = 0
        /\ awaited' \in [read : 0..MaxReads, quiet : BOOLEAN] /\ awaited'.read = 0
    BY <1>2, <1>3, EntryFacts
  <2>3. done' \subseteq Own /\ done \subseteq done' /\ rows' \cap Own \subseteq done'
    BY <1>1, <1>2, <1>3, ShownFacts
  <2>4. ChangesSound'
    BY <1>1, <2>2, <2>3, ChangesKept
  <2>5. ThreadTypes'
    BY <1>1, <1>2, <1>3, <2>2, <2>3 DEF ThreadInv, ThreadTypes
  <2>6. EntrySound' /\ ReadsSound'
    BY <1>1, <1>3, <2>2 DEF ThreadInv, EntrySound, ReadsSound
  <2>7. ScreenSound'
    BY <1>1, <1>3, <2>2 DEF ScreenSound
  <2> QED
    BY <2>4, <2>5, <2>6, <2>7 DEF ThreadInv
<1>4. CASE /\ rows' = replyCache.rows /\ state' = "ready" /\ awaited' = Thread!NoRead /\ reads' = reads
           /\ pending' = pending \ replyCache.rows /\ replyCache' = replyCache /\ replyCache.has
  <2>1. awaited' \in [read : 0..MaxReads, quiet : BOOLEAN] /\ awaited'.read = 0
    BY <1>4, EntryFacts
  <2>2. pending' \in Rows
    BY <1>2, <1>4 DEF Rows
  <2>3. done' \subseteq Own /\ done \subseteq done' /\ rows' \cap Own \subseteq done'
    BY <1>1, <1>2, <1>4, ShownFacts
  <2>4. ChangesSound'
    BY <1>1, <1>4, <2>3, ChangesKept
  <2>5. ThreadTypes'
    BY <1>1, <1>2, <1>4, <2>1, <2>2, <2>3 DEF ThreadInv, ThreadTypes
  <2>6. EntrySound' /\ ReadsSound'
    BY <1>1, <1>2, <1>4 DEF ThreadInv, EntrySound, ReadsSound
  <2>7. ScreenSound'
    BY <1>1, <1>2, <1>4, <2>1, <2>3 DEF ThreadInv, EntrySound, ScreenSound
  <2> QED
    BY <2>4, <2>5, <2>6, <2>7 DEF ThreadInv
<1>5. CASE /\ Thread!Read(replyCache, FALSE, FALSE) /\ awaited' = [read |-> replyCache'.read, quiet |-> FALSE]
           /\ state' = "loading" /\ UNCHANGED <<rows, pending>>
  <2>1. /\ EntrySound' /\ ReadsSound' /\ replyCache' \in Entries /\ reads' \in [1..MaxReads -> Answers]
        /\ replyCache'.rows = replyCache.rows /\ replyCache'.has = replyCache.has
    BY <1>1, <1>5, LoadKeeps
  <2>2. awaited' \in [read : 0..MaxReads, quiet : BOOLEAN] /\ awaited'.read = replyCache'.read
    BY <1>5, <2>1 DEF Entries
  <2>3. done' \subseteq Own /\ done \subseteq done' /\ rows' \cap Own \subseteq done'
    BY <1>1, <1>2, <1>5, ShownFacts
  <2>4. ChangesSound'
    BY <1>1, <2>1, <2>3, ChangesKept
  <2>5. ThreadTypes'
    BY <1>1, <1>2, <1>5, <2>1, <2>2, <2>3 DEF ThreadInv, ThreadTypes
  <2>6. ScreenSound'
    BY <1>1, <1>2, <1>5, <2>1, <2>2, <2>3 DEF ThreadInv, ScreenSound
  <2> QED
    BY <2>1, <2>4, <2>5, <2>6 DEF ThreadInv
<1>6. QED
  BY <1>3, <1>4, <1>5 DEF Thread!RetryLoad, Thread!LoadAtOnce, Thread!Load

(* A quiet read for the thread on screen. *)
LEMMA QuietLoadKeeps ==
  ASSUME ThreadInv, open, NEW after \in BOOLEAN, Thread!Load(replyCache, TRUE, after),
         UNCHANGED <<host, buried, count, open, rows, pending, state, posting, deleting, done, gone>>,
         threadLeft' \in 0..ThreadBudget
  PROVE  ThreadInv'
<1>1. Thread!Read(replyCache, after, TRUE) /\ awaited' = [read |-> replyCache'.read, quiet |-> TRUE]
  BY DEF Thread!Load
<1>2. /\ EntrySound' /\ ReadsSound' /\ replyCache' \in Entries /\ reads' \in [1..MaxReads -> Answers]
      /\ replyCache'.rows = replyCache.rows /\ replyCache'.has = replyCache.has
  BY <1>1, LoadKeeps
<1>3. awaited' \in [read : 0..MaxReads, quiet : BOOLEAN] /\ awaited'.read = replyCache'.read
  BY <1>1, <1>2 DEF Entries
<1>4. ChangesSound'
  BY <1>2, ChangesKept
<1>5. ThreadTypes'
  BY <1>2, <1>3 DEF ThreadInv, ThreadTypes
<1>6. Thread!Deleting' = Thread!Deleting
  BY DEF Thread!Deleting
<1>7. ScreenSound'
  BY <1>2, <1>3, <1>6 DEF ThreadInv, ScreenSound
<1>8. QED
  BY <1>2, <1>4, <1>5, <1>7 DEF ThreadInv

LEMMA PollKeeps == ThreadInv /\ Thread!Poll => ThreadInv'
BY QuietLoadKeeps DEF Thread!Poll, Thread!service, Thread!thread, ThreadInv, ThreadTypes

LEMMA AfterReactionKeeps == ThreadInv /\ Thread!AfterReaction => ThreadInv'
BY QuietLoadKeeps, Spent DEF Thread!AfterReaction, Thread!service, Thread!thread, ThreadInv

LEMMA PrefetchKeeps == ASSUME ThreadInv, Thread!Prefetch PROVE ThreadInv'
<1>1. /\ UNCHANGED <<host, buried, count, open, rows, pending, state, awaited, posting, deleting, threadLeft, done, gone>>
      /\ Thread!Read(replyCache, FALSE, TRUE)
  BY DEF Thread!Prefetch, Thread!service, Thread!thread
<1>2. /\ EntrySound' /\ ReadsSound' /\ replyCache' \in Entries /\ reads' \in [1..MaxReads -> Answers]
      /\ replyCache'.rows = replyCache.rows /\ replyCache'.has = replyCache.has
  BY <1>1, LoadKeeps
<1>3. replyCache.read # 0 => replyCache' = replyCache
  BY <1>1 DEF Thread!Read, Thread!Shares
<1>4. ChangesSound'
  BY <1>1, <1>2, ChangesKept
<1>5. ThreadTypes'
  BY <1>1, <1>2 DEF ThreadInv, ThreadTypes
<1>6. Thread!Deleting' = Thread!Deleting
  BY <1>1 DEF Thread!Deleting
<1>7. ScreenSound'
  <2>1. awaited.read # 0 => open /\ awaited.read = replyCache.read /\ replyCache' = replyCache
    BY <1>3 DEF ThreadInv, ScreenSound
  <2> QED
    BY <1>1, <1>2, <1>6, <2>1 DEF ThreadInv, ScreenSound
<1>8. QED
  BY <1>2, <1>4, <1>5, <1>7 DEF ThreadInv

LEMMA ReadFeedKeeps == ASSUME ThreadInv, Thread!ReadFeed PROVE ThreadInv'
<1>1. /\ UNCHANGED <<host, buried, replyCache, reads, open, rows, pending, state, awaited, posting, deleting, threadLeft, done, gone>>
      /\ count' = Thread!Cardinality(host)
  BY DEF Thread!ReadFeed, Thread!service, Thread!thread
<1>2. host \in Rows
  BY DEF ThreadInv, ThreadTypes
<1>3. count' \in 0..Cardinality(Thread!Replies)
  BY <1>1, <1>2, Counted
<1>4. ThreadTypes'
  BY <1>1, <1>3 DEF ThreadInv, ThreadTypes
<1>5. ChangesSound' /\ EntrySound' /\ ReadsSound' /\ ScreenSound'
  BY <1>1 DEF ThreadInv, ChangesSound, EntrySound, ReadsSound, ScreenSound, Thread!Deleting
<1>6. QED
  BY <1>4, <1>5 DEF ThreadInv

LEMMA ExpireKeeps == ASSUME ThreadInv, Thread!Expire PROVE ThreadInv'
<1>1. /\ UNCHANGED <<host, buried, count, reads, open, rows, pending, state, awaited, posting, deleting, done, gone>>
      /\ replyCache' = [replyCache EXCEPT !.fresh = FALSE] /\ threadLeft' \in 0..ThreadBudget
  BY Spent DEF ThreadInv, Thread!Expire, Thread!service, Thread!thread
<1>2. replyCache \in Entries
  BY DEF ThreadInv, ThreadTypes
<1>3. /\ replyCache' \in Entries /\ replyCache'.rows = replyCache.rows /\ replyCache'.has = replyCache.has
      /\ replyCache'.read = replyCache.read
  BY <1>1, <1>2 DEF Entries
<1>4. ThreadTypes'
  BY <1>1, <1>3 DEF ThreadInv, ThreadTypes
<1>5. ChangesSound'
  BY <1>1, <1>3, ChangesKept
<1>6. EntrySound' /\ ReadsSound' /\ ScreenSound'
  BY <1>1, <1>3 DEF ThreadInv, EntrySound, ReadsSound, ScreenSound, Thread!Deleting
<1>7. QED
  BY <1>4, <1>5, <1>6 DEF ThreadInv

LEMMA EvictKeeps == ASSUME ThreadInv, Thread!Evict PROVE ThreadInv'
<1>1. /\ UNCHANGED <<host, buried, count, reads, open, rows, pending, state, awaited, posting, deleting, done, gone>>
      /\ replyCache' = Thread!NoEntry /\ threadLeft' \in 0..ThreadBudget
      /\ ~open /\ Thread!Deleting = {}
  BY Spent DEF ThreadInv, Thread!Evict, Thread!service, Thread!thread
<1>2. replyCache' \in Entries /\ replyCache'.rows = {} /\ replyCache'.read = 0 /\ ~replyCache'.has
  BY <1>1, EntryFacts
<1>3. ThreadTypes'
  BY <1>1, <1>2 DEF ThreadInv, ThreadTypes
<1>4. ChangesSound'
  BY <1>1 DEF ThreadInv, ChangesSound, Thread!Deleting
<1>5. EntrySound' /\ ReadsSound' /\ ScreenSound'
  BY <1>1, <1>2 DEF ThreadInv, EntrySound, ReadsSound, ScreenSound
<1>6. QED
  BY <1>3, <1>4, <1>5 DEF ThreadInv

LEMMA AnswerReadKeeps ==
  ASSUME NEW n \in 1..MaxReads, ThreadInv, Thread!AnswerRead(n) PROVE ThreadInv'
<1>1. /\ UNCHANGED <<host, buried, count, replyCache, open, rows, pending, state, awaited, posting, deleting, threadLeft, done, gone>>
      /\ reads' = [reads EXCEPT ![n] = [is |-> "rows", rows |-> host]]
  BY DEF Thread!AnswerRead, Thread!service, Thread!thread
<1>2. host \in Rows /\ reads \in [1..MaxReads -> Answers] /\ gone \cap host = {}
  BY DEF ThreadInv, ThreadTypes, ChangesSound
<1>3. /\ reads' \in [1..MaxReads -> Answers] /\ reads'[n].rows = host
      /\ \A k \in 1..MaxReads : k # n => reads'[k] = reads[k]
  BY <1>1, <1>2 DEF Answers
<1>4. ThreadTypes'
  BY <1>1, <1>3 DEF ThreadInv, ThreadTypes
<1>5. ChangesSound'
  BY <1>1, ChangesKept
<1>6. EntrySound' /\ ScreenSound'
  BY <1>1 DEF ThreadInv, EntrySound, ScreenSound, Thread!Deleting
<1>7. ReadsSound'
  <2>1. Thread!Deleting' = Thread!Deleting /\ replyCache.read \in 0..MaxReads
    BY <1>1 DEF Thread!Deleting, ThreadInv, ThreadTypes, Entries
  <2>2. ASSUME NEW k \in 1..MaxReads PROVE reads'[k].rows \subseteq host' \cup buried'
    BY <1>1, <1>3 DEF ThreadInv, ReadsSound
  <2>3. CASE replyCache.read = n
    BY <1>1, <1>2, <1>3, <2>2, <2>3 DEF ReadsSound
  <2>4. CASE replyCache.read # n
    BY <1>1, <1>3, <2>1, <2>2, <2>4 DEF ThreadInv, ReadsSound
  <2> QED
    BY <2>3, <2>4
<1>8. QED
  BY <1>4, <1>5, <1>6, <1>7 DEF ThreadInv

LEMMA FailReadKeeps ==
  ASSUME NEW n \in 1..MaxReads, ThreadInv, Thread!FailRead(n) PROVE ThreadInv'
<1>1. /\ UNCHANGED <<host, buried, count, replyCache, open, rows, pending, state, awaited, posting, deleting, done, gone>>
      /\ reads' = [reads EXCEPT ![n].is = "failed"] /\ threadLeft' \in 0..ThreadBudget
  BY Spent DEF ThreadInv, Thread!FailRead, Thread!service, Thread!thread
<1>2. reads \in [1..MaxReads -> Answers]
  BY DEF ThreadInv, ThreadTypes
<1>3. /\ reads' \in [1..MaxReads -> Answers]
      /\ \A k \in 1..MaxReads : reads'[k].rows = reads[k].rows /\ (reads'[k].is = "rows" => reads[k].is = "rows")
  BY <1>1, <1>2 DEF Answers
<1>4. ThreadTypes'
  BY <1>1, <1>3 DEF ThreadInv, ThreadTypes
<1>5. ChangesSound'
  BY <1>1, ChangesKept
<1>6. EntrySound' /\ ScreenSound'
  BY <1>1 DEF ThreadInv, EntrySound, ScreenSound, Thread!Deleting
<1>7. ReadsSound'
  <2>1. Thread!Deleting' = Thread!Deleting /\ (replyCache.read # 0 => replyCache.read \in 1..MaxReads)
    BY <1>1, ThreadAssumed DEF Thread!Deleting, ThreadInv, ThreadTypes, Entries
  <2> QED
    BY <1>1, <1>3, <2>1 DEF ThreadInv, ReadsSound
<1>8. QED
  BY <1>4, <1>5, <1>6, <1>7 DEF ThreadInv

LEMMA ReceiveReadKeeps ==
  ASSUME NEW n \in 1..MaxReads, ThreadInv, Thread!ReceiveRead(n) PROVE ThreadInv'
<1>1. /\ UNCHANGED <<host, buried, count, open, deleting, threadLeft, gone>>
      /\ reads[n].is \in {"rows", "failed"} /\ reads' = [reads EXCEPT ![n] = Thread!Free]
      /\ replyCache' = Thread!Received(n) /\ Thread!Shown
      /\ posting' = IF posting.read = n THEN Thread!NotPosting ELSE posting
  BY DEF Thread!ReceiveRead, Thread!service
<1>2. /\ CASE ~Thread!Wanted(n) -> UNCHANGED <<rows, pending, state, awaited>>
           [] Thread!Wanted(n) /\ reads[n].is = "rows" ->
                /\ rows' = reads[n].rows /\ pending' = pending \ reads[n].rows
                /\ state' = "ready" /\ awaited' = Thread!NoRead
           [] OTHER -> /\ state' = IF awaited.quiet THEN state ELSE "error"
                       /\ awaited' = Thread!NoRead /\ UNCHANGED <<rows, pending>>
  BY DEF Thread!ReceiveRead
<1>3. /\ awaited.read = n => Thread!Wanted(n)
      /\ Thread!Wanted(n) => awaited.read = n
  BY DEF Thread!Wanted
<1>4. /\ awaited.read # n => UNCHANGED <<rows, pending, state, awaited>>
      /\ awaited.read = n /\ reads[n].is = "rows" =>
           rows' = reads[n].rows /\ pending' = pending \ reads[n].rows /\ state' = "ready" /\ awaited' = Thread!NoRead
      /\ awaited.read = n /\ reads[n].is # "rows" =>
           state' \in {state, "error"} /\ awaited' = Thread!NoRead /\ UNCHANGED <<rows, pending>>
  BY <1>2, <1>3
<1>5. /\ replyCache \in Entries /\ reads \in [1..MaxReads -> Answers] /\ posting \in Posts /\ rows \in Rows
      /\ pending \in Rows /\ awaited \in [read : 0..MaxReads, quiet : BOOLEAN]
      /\ state \in {"idle", "loading", "ready", "error"} /\ reads[n].rows \in Rows
      /\ replyCache.read \in 0..MaxReads /\ replyCache.rows \in Rows
  BY DEF ThreadInv, ThreadTypes, Answers, Entries
<1>6. /\ reads' \in [1..MaxReads -> Answers] /\ reads'[n].rows = {} /\ reads'[n].is # "rows"
      /\ \A k \in 1..MaxReads : k # n => reads'[k] = reads[k]
  BY <1>1, <1>5, EntryFacts
<1>7. /\ rows' \in Rows /\ pending' \in Rows /\ state' \in {"idle", "loading", "ready", "error"}
      /\ awaited' \in [read : 0..MaxReads, quiet : BOOLEAN]
  <2>1. pending \ reads[n].rows \in Rows
    BY <1>5 DEF Rows
  <2>2. Thread!NoRead \in [read : 0..MaxReads, quiet : BOOLEAN]
    BY EntryFacts
  <2> QED
    BY <1>4, <1>5, <2>1, <2>2
<1>8. done' \subseteq Own /\ done \subseteq done' /\ rows' \cap Own \subseteq done'
  BY <1>1, <1>7, ShownFacts
<1>9. posting' \in Posts /\ (posting'.is # "none" => posting' = posting)
  BY <1>1, <1>5, EntryFacts
<1>10. \A k \in 1..MaxReads : reads'[k].rows \subseteq host' \cup buried'
  BY <1>1, <1>6 DEF ThreadInv, ReadsSound
<1>11. Thread!Deleting' = Thread!Deleting
  BY <1>1 DEF Thread!Deleting
<1>12. /\ awaited.read # 0 => open /\ awaited.read = replyCache.read
       /\ awaited'.read # 0 => awaited' = awaited /\ awaited.read # n
  <2>1. awaited.read # 0 => open /\ awaited.read = replyCache.read
    BY DEF ThreadInv, ScreenSound
  <2> QED
    BY <1>4, <2>1, EntryFacts
<1>13. /\ ChangesSound /\ EntrySound /\ ScreenSound
       /\ reads[n].rows \subseteq host \cup buried
       /\ replyCache.read # 0 =>
            /\ reads[replyCache.read].rows \cap gone = {}
            /\ reads[replyCache.read].is = "rows" =>
                 replyCache.rows \cap host \subseteq reads[replyCache.read].rows \cup Thread!Deleting
  BY DEF ThreadInv, ReadsSound
<1>14. CASE replyCache.read # n
  <2>1. replyCache' = replyCache /\ awaited.read # n
    BY <1>1, <1>12, <1>14 DEF Thread!Received
  <2>2. UNCHANGED <<rows, pending, state, awaited>>
    BY <1>4, <2>1
  <2>3. ThreadTypes'
    BY <1>1, <1>6, <1>8, <1>9, <2>1, <2>2 DEF ThreadInv, ThreadTypes
  <2>4. ChangesSound'
    BY <1>1, <1>8, <1>9, <1>13, <2>1 DEF ChangesSound
  <2>5. EntrySound'
    BY <1>1, <1>13, <2>1 DEF EntrySound
  <2>6. ReadsSound'
    BY <1>1, <1>5, <1>6, <1>10, <1>11, <1>13, <1>14, <2>1 DEF ReadsSound
  <2>7. ScreenSound'
    BY <1>1, <1>8, <1>11, <1>13, <2>1, <2>2 DEF ScreenSound
  <2> QED
    BY <2>3, <2>4, <2>5, <2>6, <2>7 DEF ThreadInv
<1>15. CASE replyCache.read = n /\ reads[n].is = "rows"
  <2>1. replyCache' = Thread!Remembered(reads[n].rows)
    BY <1>1, <1>15 DEF Thread!Received
  <2>2. replyCache' \in Entries /\ replyCache'.rows = reads[n].rows /\ replyCache'.has /\ replyCache'.read = 0
    BY <1>5, <2>1, EntryFacts
  <2>3. awaited'.read = 0
    BY <1>12, <1>15
  <2>4. n # 0
    OBVIOUS
  <2>5. /\ reads[n].rows \cap gone = {}
        /\ replyCache.rows \cap host \subseteq reads[n].rows \cup Thread!Deleting
    BY <1>13, <1>15, <2>4
  <2>6. ThreadTypes'
    BY <1>1, <1>6, <1>7, <1>8, <1>9, <2>2 DEF ThreadInv, ThreadTypes
  <2>7. ChangesSound'
    BY <1>1, <1>8, <1>9, <1>13, <2>2 DEF ChangesSound
  <2>8. EntrySound' /\ ReadsSound'
    BY <1>1, <1>10, <1>13, <2>2, <2>5 DEF EntrySound, ReadsSound
  <2>9. /\ rows' \subseteq host \cup buried
        /\ open => rows' \cap host \subseteq reads[n].rows \cup Thread!Deleting /\ rows' \cap gone = {}
    <3>1. CASE awaited.read = n
      BY <1>4, <1>13, <1>15, <2>5, <3>1
    <3>2. CASE awaited.read # n
      BY <1>4, <1>13, <2>5, <3>2 DEF ScreenSound
    <3> QED
      BY <3>1, <3>2
  <2>10. ScreenSound'
    BY <1>1, <1>8, <1>11, <2>2, <2>3, <2>9 DEF ScreenSound
  <2> QED
    BY <2>6, <2>7, <2>8, <2>10 DEF ThreadInv
<1>16. CASE replyCache.read = n /\ reads[n].is # "rows"
  <2>1. /\ replyCache' \in Entries /\ replyCache'.rows = replyCache.rows /\ replyCache'.has = replyCache.has
        /\ replyCache'.read = 0
    <3>1. CASE replyCache.has
      <4>1. replyCache' = [replyCache EXCEPT !.read = 0]
        BY <1>1, <1>16, <3>1 DEF Thread!Received
      <4>2. 0 \in 0..MaxReads
        BY ThreadAssumed
      <4> QED
        BY <1>5, <4>1, <4>2 DEF Entries
    <3>2. CASE ~replyCache.has
      <4>1. replyCache' = Thread!NoEntry /\ replyCache.rows = {} /\ replyCache.has = FALSE
        BY <1>1, <1>5, <1>13, <1>16, <3>2 DEF Thread!Received, EntrySound, Entries
      <4>2. Thread!NoEntry.has = FALSE
        BY DEF Thread!NoEntry
      <4> QED
        BY <4>1, <4>2, EntryFacts
    <3> QED
      BY <3>1, <3>2
  <2>2. awaited'.read = 0 /\ rows' = rows
    BY <1>4, <1>12, <1>16
  <2>3. ThreadTypes'
    BY <1>1, <1>6, <1>7, <1>8, <1>9, <2>1 DEF ThreadInv, ThreadTypes
  <2>4. ChangesSound'
    BY <1>1, <1>8, <1>9, <1>13, <2>1 DEF ChangesSound
  <2>5. EntrySound' /\ ReadsSound'
    BY <1>1, <1>10, <1>13, <2>1 DEF EntrySound, ReadsSound
  <2>6. ScreenSound'
    BY <1>1, <1>8, <1>11, <1>13, <2>1, <2>2 DEF ScreenSound
  <2> QED
    BY <2>3, <2>4, <2>5, <2>6 DEF ThreadInv
<1>17. QED
  BY <1>14, <1>15, <1>16

LEMMA SendKeeps == ASSUME NEW o \in Own, ThreadInv, Thread!Send(o) PROVE ThreadInv'
<1>1. /\ UNCHANGED <<host, buried, count, replyCache, reads, open, rows, state, awaited, deleting, done, gone>>
      /\ posting' = [Thread!NotPosting EXCEPT !.id = o, !.is = "asked"] /\ pending' = pending \cup {o}
      /\ threadLeft' \in 0..ThreadBudget /\ o \notin done
  BY Spent DEF ThreadInv, Thread!Send, Thread!service
<1>2. posting' \in Posts /\ posting'.id = o /\ posting'.is = "asked"
  BY <1>1, EntryFacts DEF Posts
<1>3. pending' \in Rows
  BY <1>1, ThreadAssumed DEF ThreadInv, ThreadTypes, Rows
<1>4. ThreadTypes'
  BY <1>1, <1>2, <1>3 DEF ThreadInv, ThreadTypes
<1>5. ChangesSound'
  BY <1>1, <1>2 DEF ThreadInv, ChangesSound
<1>6. EntrySound' /\ ReadsSound' /\ ScreenSound'
  BY <1>1 DEF ThreadInv, EntrySound, ReadsSound, ScreenSound, Thread!Deleting
<1>7. QED
  BY <1>4, <1>5, <1>6 DEF ThreadInv

LEMMA ConfirmKeeps == ASSUME ThreadInv, Thread!Confirm PROVE ThreadInv'
<1> DEFINE o == posting.id
           c == Thread!Remembered(replyCache.rows \cup {o})
<1>1. /\ UNCHANGED <<host, buried, count, open, state, deleting, threadLeft, gone>>
      /\ posting.is = "ok" /\ done' = done \cup {o}
  BY DEF Thread!Confirm, Thread!service
<1>2. /\ open =>
           /\ rows' = rows \cup {o} /\ pending' = pending \ {o}
           /\ Thread!Read(c, TRUE, TRUE) /\ awaited' = [read |-> replyCache'.read, quiet |-> TRUE]
           /\ posting' = [posting EXCEPT !.is = "reading", !.read = awaited'.read]
      /\ ~open => replyCache' = c /\ posting' = Thread!NotPosting /\ UNCHANGED <<reads, rows, pending, awaited>>
  BY DEF Thread!Confirm, Thread!Load
<1>3. /\ replyCache \in Entries /\ reads \in [1..MaxReads -> Answers] /\ rows \in Rows /\ pending \in Rows
      /\ posting \in Posts /\ o \in Own /\ o \in host \cup buried /\ o \notin gone
      /\ awaited \in [read : 0..MaxReads, quiet : BOOLEAN]
  BY <1>1 DEF ThreadInv, ThreadTypes, ChangesSound
<1> HIDE DEF o
<1>4. replyCache.rows \cup {o} \in Rows /\ rows \cup {o} \in Rows /\ pending \ {o} \in Rows
  BY <1>3, ThreadAssumed DEF Entries, Rows
<1>5. c \in Entries /\ c.rows = replyCache.rows \cup {o} /\ c.has /\ c.read = 0
  BY <1>4, EntryFacts
<1> HIDE DEF c
<1>6. c.rows \subseteq host \cup buried /\ c.rows \cap gone' = {}
  BY <1>1, <1>3, <1>5 DEF ThreadInv, EntrySound
<1>7. /\ replyCache' \in Entries /\ reads' \in [1..MaxReads -> Answers] /\ EntrySound' /\ ReadsSound'
      /\ replyCache'.rows = c.rows /\ replyCache'.has = c.has
  <2>1. CASE open
    <3>1. EntrySound' /\ ReadsSound'
      BY <1>1, <1>2, <1>5, <1>6, <2>1, ReadKeeps
    <3> QED
      BY <1>2, <1>5, <2>1, <3>1, Reading DEF ThreadInv
  <2>2. CASE ~open
    <3>1. replyCache' = c /\ reads' = reads
      BY <1>2, <2>2
    <3>2. EntrySound' /\ ReadsSound'
      BY <1>1, <1>5, <1>6, <3>1 DEF ThreadInv, EntrySound, ReadsSound
    <3> QED
      BY <1>3, <1>5, <3>1, <3>2
  <2> QED
    BY <2>1, <2>2
<1>8. /\ awaited' \in [read : 0..MaxReads, quiet : BOOLEAN]
      /\ awaited'.read # 0 => open' /\ awaited'.read = replyCache'.read
  <2>1. CASE open
    <3>1. replyCache'.read \in 0..MaxReads
      BY <1>7 DEF Entries
    <3>2. awaited' = [read |-> replyCache'.read, quiet |-> TRUE] /\ open' = open
      BY <1>1, <1>2, <2>1
    <3> QED
      BY <2>1, <3>1, <3>2
  <2>2. CASE ~open
    BY <1>2, <1>3, <2>2 DEF ThreadInv, ScreenSound
  <2> QED
    BY <2>1, <2>2
<1>9. posting' \in Posts /\ posting'.is # "ok" /\ (posting'.is # "none" => posting'.id = o)
  <2>1. CASE open
    <3>1. awaited'.read \in 0..MaxReads
      BY <1>8
    <3> QED
      BY <1>2, <1>3, <2>1, <3>1 DEF Posts, o
  <2>2. CASE ~open
    BY <1>2, <2>2, EntryFacts
  <2> QED
    BY <2>1, <2>2
<1>10. /\ rows' \in Rows /\ pending' \in Rows /\ rows' \subseteq rows \cup {o}
       /\ open => rows' = rows \cup {o}
  BY <1>2, <1>3, <1>4
<1>11. done' \subseteq Own
  BY <1>1, <1>3 DEF ThreadInv, ThreadTypes
<1>12. ThreadTypes'
  BY <1>1, <1>7, <1>8, <1>9, <1>10, <1>11 DEF ThreadInv, ThreadTypes
<1>13. ChangesSound'
  BY <1>1, <1>3, <1>5, <1>7, <1>9 DEF ThreadInv, ChangesSound
<1>14. ScreenSound'
  <2>1. Thread!Deleting' = Thread!Deleting
    BY <1>1 DEF Thread!Deleting
  <2>2. rows' \subseteq host' \cup buried' /\ rows' \cap Own \subseteq done'
    BY <1>1, <1>3, <1>10 DEF ThreadInv, ScreenSound
  <2>3. ASSUME open
        PROVE  rows' \cap host' \subseteq replyCache'.rows \cup Thread!Deleting' /\ rows' \cap gone' = {}
    BY <1>1, <1>3, <1>5, <1>7, <1>10, <2>1, <2>3 DEF ThreadInv, ScreenSound
  <2> QED
    BY <1>1, <1>5, <1>7, <1>8, <2>2, <2>3 DEF ScreenSound
<1>15. QED
  BY <1>7, <1>12, <1>13, <1>14 DEF ThreadInv

LEMMA PostFailsKeeps == ASSUME ThreadInv, Thread!PostFails PROVE ThreadInv'
<1>1. /\ UNCHANGED <<host, buried, count, open, rows, state, deleting, threadLeft, gone>>
      /\ posting' = Thread!NotPosting /\ posting.id \in Own
      /\ pending' = pending \/ pending' = pending \ {posting.id}
      /\ done' = done \/ done' = done \cup {posting.id}
  BY DEF Thread!PostFails, Thread!service, ThreadInv, ChangesSound
<1>2. \/ open /\ Thread!Read(replyCache, TRUE, TRUE) /\ awaited' = [read |-> replyCache'.read, quiet |-> TRUE]
      \/ UNCHANGED <<replyCache, reads, awaited>>
  BY DEF Thread!PostFails, Thread!Load
<1>3. posting' \in Posts /\ posting'.is = "none" /\ pending' \in Rows /\ done' \subseteq Own /\ done \subseteq done'
  BY <1>1, EntryFacts DEF ThreadInv, ThreadTypes, Rows
<1>4. Thread!Deleting' = Thread!Deleting
  BY <1>1 DEF Thread!Deleting
<1>5. /\ EntrySound' /\ ReadsSound' /\ replyCache' \in Entries /\ reads' \in [1..MaxReads -> Answers]
      /\ replyCache'.rows = replyCache.rows /\ replyCache'.has = replyCache.has
      /\ awaited' \in [read : 0..MaxReads, quiet : BOOLEAN]
      /\ awaited'.read # 0 => open /\ awaited'.read = replyCache'.read
  <2>1. CASE open /\ Thread!Read(replyCache, TRUE, TRUE) /\ awaited' = [read |-> replyCache'.read, quiet |-> TRUE]
    <3>1. /\ EntrySound' /\ ReadsSound' /\ replyCache' \in Entries /\ reads' \in [1..MaxReads -> Answers]
          /\ replyCache'.rows = replyCache.rows /\ replyCache'.has = replyCache.has
      BY <1>1, <2>1, LoadKeeps
    <3> QED
      BY <2>1, <3>1 DEF Entries
  <2>2. CASE UNCHANGED <<replyCache, reads, awaited>>
    <3>1. EntrySound' /\ ReadsSound'
      BY <1>1, <1>4, <2>2 DEF ThreadInv, EntrySound, ReadsSound
    <3> QED
      BY <2>2, <3>1 DEF ThreadInv, ThreadTypes, ScreenSound
  <2> QED
    BY <1>2, <2>1, <2>2
<1>6. ThreadTypes'
  BY <1>1, <1>3, <1>5 DEF ThreadInv, ThreadTypes
<1>7. ChangesSound'
  BY <1>1, <1>3, <1>5 DEF ThreadInv, ChangesSound
<1>8. ScreenSound'
  BY <1>1, <1>3, <1>4, <1>5 DEF ThreadInv, ScreenSound
<1>9. QED
  BY <1>5, <1>6, <1>7, <1>8 DEF ThreadInv

LEMMA DeleteKeeps == ASSUME NEW r \in Own, ThreadInv, Thread!Delete(r) PROVE ThreadInv'
<1>1. /\ UNCHANGED <<host, buried, count, reads, open, pending, state, posting, done, gone>>
      /\ open /\ r \in rows /\ deleting[r] = "no" /\ threadLeft' \in 0..ThreadBudget
      /\ deleting' = [deleting EXCEPT ![r] = "asked"] /\ rows' = rows \ {r}
      /\ replyCache' = Thread!Updated(replyCache.rows \ {r}) /\ awaited' = Thread!NoRead
  BY Spent DEF ThreadInv, Thread!Delete, Thread!service, Thread!Overtakes
<1>2. /\ replyCache \in Entries /\ rows \in Rows /\ deleting \in [Own -> {"no", "asked", "ok", "failed"}]
      /\ r \in done /\ r \in host \cup buried /\ r \notin gone /\ replyCache.has
  BY <1>1 DEF ThreadInv, ThreadTypes, ScreenSound
<1>3. replyCache.rows \ {r} \in Rows /\ rows' \in Rows
  BY <1>1, <1>2 DEF Entries, Rows
<1>4. /\ replyCache' \in Entries /\ replyCache'.rows = replyCache.rows \ {r} /\ replyCache'.has
      /\ replyCache'.read = 0
  BY <1>1, <1>2, <1>3, EntryFacts DEF Thread!Updated
<1>5. awaited' \in [read : 0..MaxReads, quiet : BOOLEAN] /\ awaited'.read = 0
  BY <1>1, EntryFacts
<1>6. /\ deleting' \in [Own -> {"no", "asked", "ok", "failed"}] /\ deleting'[r] = "asked"
      /\ \A q \in Own : q # r => deleting'[q] = deleting[q]
  BY <1>1, <1>2
<1>7. Thread!Deleting' = Thread!Deleting \cup {r}
  BY <1>6 DEF Thread!Deleting
<1>8. ThreadTypes'
  BY <1>1, <1>3, <1>4, <1>5, <1>6 DEF ThreadInv, ThreadTypes
<1>9. ChangesSound'
  BY <1>1, <1>2, <1>4, <1>6 DEF ThreadInv, ChangesSound
<1>10. EntrySound' /\ ReadsSound'
  BY <1>1, <1>4 DEF ThreadInv, EntrySound, ReadsSound
<1>11. ScreenSound'
  BY <1>1, <1>4, <1>5, <1>7 DEF ThreadInv, ScreenSound
<1>12. QED
  BY <1>8, <1>9, <1>10, <1>11 DEF ThreadInv

LEMMA DeleteSettlesKeeps == ASSUME NEW r \in Own, ThreadInv, Thread!DeleteSettles(r) PROVE ThreadInv'
<1> DEFINE c == Thread!Updated(Thread!After(r, replyCache.rows))
<1>1. /\ UNCHANGED <<host, buried, count, open, pending, state, posting, threadLeft, done>>
      /\ deleting[r] \in {"ok", "failed"} /\ deleting' = [deleting EXCEPT ![r] = "no"]
      /\ gone' = IF deleting[r] = "ok" /\ posting.id # r THEN gone \cup {r} ELSE gone
  BY DEF Thread!DeleteSettles, Thread!service, Thread!Settled
<1>2. /\ open => /\ rows' = Thread!After(r, rows) /\ Thread!Read(c, FALSE, TRUE)
                 /\ awaited' = [read |-> replyCache'.read, quiet |-> TRUE]
      /\ ~open => replyCache' = c /\ UNCHANGED <<reads, rows, awaited>>
  BY DEF Thread!DeleteSettles, Thread!Load
<1>3. /\ replyCache \in Entries /\ reads \in [1..MaxReads -> Answers] /\ rows \in Rows
      /\ deleting \in [Own -> {"no", "asked", "ok", "failed"}]
      /\ awaited \in [read : 0..MaxReads, quiet : BOOLEAN]
      /\ r \in done /\ r \in host \cup buried /\ r \notin gone /\ replyCache.has
      /\ deleting[r] = "ok" => r \in buried \ host
      /\ gone \subseteq buried \cap done /\ gone \subseteq Own
  BY <1>1 DEF ThreadInv, ThreadTypes, ChangesSound
<1>4. ASSUME NEW S \in Rows
      PROVE  /\ Thread!After(r, S) \in Rows /\ Thread!After(r, S) \subseteq S \cup {r} /\ S \ {r} \subseteq Thread!After(r, S)
             /\ deleting[r] = "ok" => r \notin Thread!After(r, S)
             /\ deleting[r] # "ok" => r \in Thread!After(r, S)
  BY <1>3, <1>4, ThreadAssumed DEF Thread!After, Rows
<1>5. replyCache.rows \in Rows
  BY <1>3 DEF Entries
<1>6. c \in Entries /\ c.rows = Thread!After(r, replyCache.rows) /\ c.has /\ c.read = 0
  <2>1. c = Thread!Remembered(Thread!After(r, replyCache.rows))
    BY <1>3 DEF Thread!Updated
  <2>2. Thread!After(r, replyCache.rows) \in Rows
    BY <1>4, <1>5
  <2> QED
    BY <2>1, <2>2, EntryFacts
<1> HIDE DEF c
<1>7. /\ gone' \subseteq gone \cup {r} /\ gone \subseteq gone' /\ (deleting[r] # "ok" => gone' = gone)
      /\ posting.id # r \/ gone' = gone
  BY <1>1
<1>8. c.rows \subseteq host \cup buried /\ c.rows \cap gone' = {}
  <2>1. replyCache.rows \subseteq host \cup buried /\ replyCache.rows \cap gone = {}
    BY DEF ThreadInv, EntrySound
  <2> QED
    BY <1>3, <1>4, <1>5, <1>6, <1>7, <2>1
<1>9. /\ replyCache' \in Entries /\ reads' \in [1..MaxReads -> Answers] /\ EntrySound' /\ ReadsSound'
      /\ replyCache'.rows = c.rows /\ replyCache'.has = c.has
  <2>1. CASE open
    <3>1. EntrySound' /\ ReadsSound'
      BY <1>1, <1>2, <1>6, <1>8, <2>1, ReadKeeps
    <3> QED
      BY <1>2, <1>6, <2>1, <3>1, Reading DEF ThreadInv
  <2>2. CASE ~open
    <3>1. replyCache' = c /\ reads' = reads
      BY <1>2, <2>2
    <3>2. EntrySound' /\ ReadsSound'
      BY <1>1, <1>6, <1>8, <3>1 DEF ThreadInv, EntrySound, ReadsSound
    <3> QED
      BY <1>3, <1>6, <3>1, <3>2
  <2> QED
    BY <2>1, <2>2
<1>10. /\ awaited' \in [read : 0..MaxReads, quiet : BOOLEAN]
       /\ awaited'.read # 0 => open' /\ awaited'.read = replyCache'.read
  <2>1. CASE open
    <3>1. replyCache'.read \in 0..MaxReads
      BY <1>9 DEF Entries
    <3>2. awaited' = [read |-> replyCache'.read, quiet |-> TRUE] /\ open' = open
      BY <1>1, <1>2, <2>1
    <3> QED
      BY <2>1, <3>1, <3>2
  <2>2. CASE ~open
    BY <1>2, <1>3, <2>2 DEF ThreadInv, ScreenSound
  <2> QED
    BY <2>1, <2>2
<1>11. /\ deleting' \in [Own -> {"no", "asked", "ok", "failed"}] /\ deleting'[r] = "no"
       /\ \A q \in Own : q # r => deleting'[q] = deleting[q]
  BY <1>1, <1>3
<1>12. Thread!Deleting' = Thread!Deleting \ {r}
  BY <1>11 DEF Thread!Deleting
<1>13. rows' \in Rows /\ (open => rows' = Thread!After(r, rows)) /\ (~open => rows' = rows) /\ gone' \subseteq Own
  <2>1. gone' \subseteq Own
    BY <1>3, <1>7
  <2>2. CASE open
    <3>1. rows' = Thread!After(r, rows)
      BY <1>2, <2>2
    <3>2. Thread!After(r, rows) \in Rows
      BY <1>3, <1>4
    <3> QED
      BY <2>1, <2>2, <3>1, <3>2
  <2>3. CASE ~open
    BY <1>2, <1>3, <2>1, <2>3
  <2> QED
    BY <2>2, <2>3
<1>14. ThreadTypes'
  BY <1>1, <1>9, <1>10, <1>11, <1>13 DEF ThreadInv, ThreadTypes
<1>15. ChangesSound'
  <2>1. gone' \subseteq buried' \cap done'
    BY <1>1, <1>3, <1>7
  <2>2. /\ \A q \in Own : deleting[q] # "no" =>
             q \in done /\ q \in host \cup buried /\ q \notin gone /\ replyCache.has
        /\ \A q \in Own : deleting[q] = "ok" => q \in buried
        /\ posting.is # "none" => posting.id \in Own /\ posting.id \notin gone
        /\ posting.is = "ok" => posting.id \in host \cup buried
    BY DEF ThreadInv, ChangesSound
  <2>3. ASSUME NEW q \in Own, deleting'[q] # "no"
        PROVE  q \in done' /\ q \in host' \cup buried' /\ q \notin gone' /\ replyCache'.has
    BY <1>1, <1>6, <1>7, <1>9, <1>11, <2>2, <2>3
  <2>4. posting'.is # "none" => posting'.id \in Own /\ posting'.id \notin gone'
    BY <1>1, <1>7, <2>2
  <2> QED
    BY <1>1, <1>11, <2>1, <2>2, <2>3, <2>4 DEF ChangesSound
<1>16. ScreenSound'
  <2>1. rows \subseteq host \cup buried /\ rows \cap Own \subseteq done
    BY DEF ThreadInv, ScreenSound
  <2>2. rows' \subseteq host' \cup buried' /\ rows' \cap Own \subseteq done'
    BY <1>1, <1>3, <1>4, <1>13, <2>1
  <2>3. ASSUME open
        PROVE  rows' \cap host' \subseteq replyCache'.rows \cup Thread!Deleting' /\ rows' \cap gone' = {}
    <3>1. rows \cap host \subseteq replyCache.rows \cup Thread!Deleting /\ rows \cap gone = {}
      BY <2>3 DEF ThreadInv, ScreenSound
    <3>2. /\ rows' \subseteq rows \cup {r} /\ (deleting[r] = "ok" => r \notin rows')
          /\ replyCache.rows \ {r} \subseteq c.rows /\ (deleting[r] # "ok" => r \in c.rows)
      BY <1>3, <1>4, <1>5, <1>6, <1>13, <2>3
    <3>3. rows' \cap gone' = {}
      BY <1>3, <1>7, <3>1, <3>2
    <3>4. rows' \cap host \subseteq c.rows \cup (Thread!Deleting \ {r})
      BY <1>3, <3>1, <3>2
    <3> QED
      BY <1>1, <1>9, <1>12, <3>3, <3>4
  <2> QED
    BY <1>1, <1>6, <1>9, <1>10, <2>2, <2>3 DEF ScreenSound
<1>17. QED
  BY <1>9, <1>14, <1>15, <1>16 DEF ThreadInv

LEMMA ThreadNextKeeps == ThreadInv /\ Thread!Next => ThreadInv'
BY OpenKeeps, OpenTargetKeeps, CloseKeeps, RetryLoadKeeps, PollKeeps, AfterReactionKeeps, PrefetchKeeps,
   ReadFeedKeeps, ExpireKeeps, EvictKeeps, AnswerPostKeeps, ConfirmKeeps, PostFailsKeeps, HostChangesKeeps,
   AnswerReadKeeps, FailReadKeeps, ReceiveReadKeeps, SendKeeps, DeleteKeeps, AnswerDeleteKeeps,
   DeleteSettlesKeeps DEF Thread!Next

LEMMA ThreadsRun ==
  ASSUME [Next]_vars
  PROVE  Thread!Next \/ UNCHANGED Thread!vars
BY DEF Next, StandStill, vars, threads, Thread!vars, Thread!service, Thread!thread

LEMMA ThreadHolds == Spec => []ThreadInv
<1>1. Init => ThreadInv
  BY ThreadInit DEF Init
<1>2. ThreadInv /\ UNCHANGED Thread!vars => ThreadInv'
  BY DEF Thread!vars, Thread!service, Thread!thread, ThreadInv, ThreadTypes, ChangesSound, EntrySound,
     ReadsSound, ScreenSound, Thread!Deleting
<1>3. ThreadInv /\ [Next]_vars => ThreadInv'
  BY <1>2, ThreadsRun, ThreadNextKeeps
<1>4. QED
  BY <1>1, <1>3, PTL DEF Spec

\* GoneStaysGone of BoardThread, the thread's part of NewestWordStands: a deletion the host
\* has confirmed is not undone on screen, nor in the entry the thread is opened from, by a
\* read that began earlier (updateReplies, cachedReplies).
THEOREM GoneHolds == Spec => []Thread!GoneStaysGone
<1>1. ThreadInv => Thread!GoneStaysGone
  BY DEF ThreadInv, EntrySound, ScreenSound, Thread!GoneStaysGone
<1>2. QED
  BY <1>1, ThreadHolds, PTL

LEMMA RepliesStep ==
  ASSUME ThreadInv, Thread!Next, Thread!Stays, NEW r \in rows \cap host
  PROVE  r \in rows' \/ (r \in Own /\ deleting'[r] # "no")
<1>1. /\ open /\ open' /\ state' # "loading" /\ r \in replyCache.rows \cup Thread!Deleting
      /\ replyCache.has
  BY DEF ThreadInv, ScreenSound, Thread!Stays
<1>2. deleting \in [Own -> {"no", "asked", "ok", "failed"}] /\ r \notin buried
  BY DEF ThreadInv, ThreadTypes
<1>3. CASE UNCHANGED rows
  BY <1>3
<1>4. CASE Thread!RetryLoad
  <2>1. rows' = rows \/ (rows' = replyCache.rows /\ deleting' = deleting)
    BY <1>1, <1>4 DEF Thread!RetryLoad, Thread!LoadAtOnce, Thread!NothingToRead
  <2> QED
    BY <1>1, <2>1 DEF Thread!Deleting
<1>5. ASSUME NEW n \in 1..MaxReads, Thread!ReceiveRead(n) PROVE r \in rows' \/ r \in Thread!Deleting'
  <2>1. deleting' = deleting /\ (rows' = rows \/ (Thread!Wanted(n) /\ reads[n].is = "rows" /\ rows' = reads[n].rows))
    BY <1>5 DEF Thread!ReceiveRead
  <2>2. CASE Thread!Wanted(n) /\ reads[n].is = "rows" /\ rows' = reads[n].rows
    <3>1. n # 0 /\ awaited.read = n
      BY <2>2 DEF Thread!Wanted
    <3>2. replyCache.read = n
      BY <3>1 DEF ThreadInv, ScreenSound
    <3>3. replyCache.rows \cap host \subseteq reads[n].rows \cup Thread!Deleting
      BY <2>2, <3>1, <3>2 DEF ThreadInv, ReadsSound
    <3> QED
      BY <1>1, <2>1, <2>2, <3>3 DEF Thread!Deleting
  <2> QED
    BY <2>1, <2>2
<1>6. CASE Thread!Confirm
  BY <1>1, <1>6 DEF Thread!Confirm
<1>7. ASSUME NEW q \in Own, Thread!Delete(q) PROVE r \in rows' \/ r \in Thread!Deleting'
  BY <1>2, <1>7 DEF Thread!Delete, Thread!Deleting
<1>8. ASSUME NEW q \in Own, Thread!DeleteSettles(q) PROVE r \in rows'
  <2>1. deleting[q] = "ok" => q \in buried
    BY <1>8 DEF ThreadInv, ChangesSound
  <2> QED
    BY <1>1, <1>2, <1>8, <2>1 DEF Thread!DeleteSettles, Thread!After
<1>9. UNCHANGED rows \/ Thread!RetryLoad \/ Thread!Confirm
      \/ (\E n \in 1..MaxReads : Thread!ReceiveRead(n))
      \/ (\E q \in Own : Thread!Delete(q) \/ Thread!DeleteSettles(q))
  <2>1. ~Thread!Open /\ ~Thread!OpenTarget
    BY <1>1 DEF Thread!Open, Thread!OpenTarget
  <2> QED
    BY <2>1 DEF Thread!Next, Thread!Close, Thread!Poll, Thread!AfterReaction, Thread!Prefetch, Thread!ReadFeed,
       Thread!Expire, Thread!Evict, Thread!AnswerPost, Thread!PostFails, Thread!HostChanges,
       Thread!AnswerRead, Thread!FailRead, Thread!Send, Thread!AnswerDelete, Thread!thread
<1>10. r \in Thread!Deleting' => r \in Own /\ deleting'[r] # "no"
  BY DEF Thread!Deleting
<1>11. QED
  BY <1>3, <1>4, <1>5, <1>6, <1>7, <1>8, <1>9, <1>10

\* RepliesStay of BoardThread, the thread's part of NothingSlipsAway: while the thread stays
\* open, a reply that is still at the host leaves it only when its owner deletes it; no
\* older read takes a newer row away (loadReplies, reconcileReplies).
THEOREM RepliesHold == Spec => Thread!RepliesStay
<1>1. ThreadInv /\ [Next]_vars =>
        [Thread!Stays => \A r \in rows \cap host : r \in rows' \/ (r \in Own /\ deleting'[r] # "no")]_Thread!vars
  BY RepliesStep, ThreadsRun
<1>2. QED
  BY <1>1, ThreadHolds, PTL DEF Spec, Thread!RepliesStay

---------------------------------------------------------------------------
(* Reactions. *)

LEMMA ReactionAssumed == None \notin Reacted
BY PartsAssumption DEF Emoji!ReactionsAssumption, Reacted

LEMMA ReactionFacts ==
  ASSUME ReactionTypes
  PROVE  /\ Emoji!AtHost \in Reacted /\ Emoji!AtHost.mine = mine
         /\ Emoji!Shown \in Reacted
         /\ \A r \in Reacted : Emoji!Toggled(r) \in Reacted /\ Emoji!Toggled(r).mine = ~r.mine
<1>1. Emoji!AtHost \in Reacted /\ Emoji!AtHost.mine = mine
  BY DEF ReactionTypes, Emoji!AtHost, Emoji!Reaction, Reacted
<1>2. Emoji!Shown \in Reacted
  BY DEF ReactionTypes, Emoji!Shown
<1>3. ASSUME NEW r \in Reacted
      PROVE  Emoji!Toggled(r) \in Reacted /\ Emoji!Toggled(r).mine = ~r.mine
  <2>1. r.mine \in BOOLEAN /\ r.count \in 0..3 /\ (~r.mine => r.count <= 2)
    BY <1>3 DEF Reacted
  <2> DEFINE n == IF ~r.mine THEN r.count + 1 ELSE IF r.count > 0 THEN r.count - 1 ELSE 0
  <2>2. n \in 0..3 /\ (r.mine => n <= 2)
    BY <2>1
  <2>3. Emoji!Toggled(r) = [mine |-> ~r.mine, count |-> n]
    BY DEF Emoji!Toggled, Emoji!Reaction
  <2> HIDE DEF n
  <2>4. \A m \in BOOLEAN : \A c \in 0..3 : (~m => c <= 2) => [mine |-> m, count |-> c] \in Reacted
    BY DEF Reacted
  <2>5. Emoji!Toggled(r) = [mine |-> r.mine = FALSE, count |-> n]
    <3>1. (~r.mine) = (r.mine = FALSE)
      BY <2>1
    <3> QED
      BY <2>3, <3>1
  <2>6. Emoji!Toggled(r) \in Reacted
    <3>1. CASE r.mine = TRUE
      <4>1. [mine |-> FALSE, count |-> n] \in Reacted
        BY <2>2, <2>4, <3>1
      <4> QED
        BY <2>5, <3>1, <4>1
    <3>2. CASE r.mine = FALSE
      <4>1. [mine |-> TRUE, count |-> n] \in Reacted
        BY <2>2, <2>4
      <4> QED
        BY <2>5, <3>2, <4>1
    <3> QED
      BY <2>1, <3>1, <3>2
  <2>7. Emoji!Toggled(r).mine = ~r.mine
    BY <2>3
  <2> QED
    BY <2>6, <2>7
<1>4. QED
  BY <1>1, <1>2, <1>3

LEMMA NoTapFacts ==
  /\ Emoji!NoTap \in TapTypes
  /\ Emoji!NoTap.is = "none"
BY DEF Emoji!NoTap, Emoji!Reaction, Reacted, TapTypes

LEMMA ReactionInit == ASSUME Emoji!Init PROVE ReactionInv
<1>1. mine \in BOOLEAN /\ others \in 0..2 /\ row = Emoji!AtHost /\ over = None /\ tap = Emoji!NoTap
      /\ polls = <<>>
  BY DEF Emoji!Init
<1>2. row \in Reacted
  BY <1>1 DEF Emoji!AtHost, Emoji!Reaction, Reacted
<1>3. QED
  BY <1>1, <1>2, NoTapFacts DEF ReactionInv, ReactionTypes, TapSound

LEMMA KeepTap == ASSUME ReactionInv, Emoji!Tap PROVE ReactionInv'
<1>1. /\ UNCHANGED <<mine, others, row, polls>>
      /\ tap' = [Emoji!NoTap EXCEPT !.is = "sent", !.before = Emoji!Shown,
                                       !.agreed = Emoji!Shown.mine = mine]
      /\ over' = Emoji!Toggled(Emoji!Shown)
  BY DEF Emoji!Tap
<1>2. over' \in Reacted /\ over'.mine = ~Emoji!Shown.mine /\ Emoji!Shown \in Reacted
  BY <1>1, ReactionFacts DEF ReactionInv
<1>3. /\ tap' \in TapTypes
      /\ tap'.is = "sent" /\ tap'.before = Emoji!Shown
  BY <1>1, <1>2, NoTapFacts DEF TapTypes
<1>4. tap'.agreed = (Emoji!Shown.mine = mine)
  BY <1>1 DEF Emoji!NoTap
<1>5. ReactionTypes'
  BY <1>1, <1>2, <1>3 DEF ReactionInv, ReactionTypes
<1>6. TapSound'
  BY <1>1, <1>2, <1>3, <1>4, ReactionAssumed DEF TapSound
<1>7. QED
  BY <1>5, <1>6 DEF ReactionInv

LEMMA KeepReactionStore == ASSUME ReactionInv, Emoji!Store PROVE ReactionInv'
<1>1. /\ UNCHANGED <<others, row, over, polls>> /\ tap.is = "sent" /\ mine' = ~mine
      /\ tap' = [tap EXCEPT !.is = "stored", !.answer = Emoji!AtHost']
  BY DEF Emoji!Store
<1>2. Emoji!AtHost' \in Reacted /\ Emoji!AtHost'.mine = mine'
  BY <1>1 DEF ReactionInv, ReactionTypes, Emoji!AtHost, Emoji!Reaction, Reacted
<1>3. /\ tap' \in TapTypes
      /\ tap'.is = "stored" /\ tap'.before = tap.before /\ tap'.agreed = tap.agreed
      /\ tap'.answer.mine = mine'
  BY <1>1, <1>2 DEF ReactionInv, ReactionTypes, TapTypes
<1>4. ReactionTypes'
  BY <1>1, <1>3 DEF ReactionInv, ReactionTypes
<1>5. TapSound'
  BY <1>1, <1>3 DEF ReactionInv, TapSound
<1>6. QED
  BY <1>4, <1>5 DEF ReactionInv

LEMMA KeepTapEnds ==
  ReactionInv /\ (Emoji!TapFails \/ \E ok \in BOOLEAN : Emoji!Refreshed(ok)) => ReactionInv'
<1>1. SUFFICES ASSUME ReactionInv, Emoji!TapFails \/ \E ok \in BOOLEAN : Emoji!Refreshed(ok)
               PROVE ReactionInv'
  OBVIOUS
<1>2. /\ UNCHANGED <<mine, others, polls>> /\ tap' = Emoji!NoTap
      /\ row' \in {row, tap.answer} /\ over' \in {tap.before, None, over}
  BY <1>1 DEF Emoji!TapFails, Emoji!Refreshed
<1>3. row' \in Reacted /\ over' \in Reacted \cup {None}
  BY <1>1, <1>2 DEF ReactionInv, ReactionTypes, TapTypes
<1>4. QED
  BY <1>1, <1>2, <1>3, NoTapFacts DEF ReactionInv, ReactionTypes, TapSound

LEMMA KeepAnswer == ASSUME ReactionInv, Emoji!TapAnswered \/ Emoji!Refreshes PROVE ReactionInv'
<1>1. UNCHANGED <<mine, others, row, polls>>
  BY DEF Emoji!TapAnswered, Emoji!Refreshes
<1>2. CASE Emoji!TapAnswered
  <2>1. tap.is = "stored" /\ tap' = [tap EXCEPT !.is = "confirmed"] /\ over' = tap.answer
    BY <1>2 DEF Emoji!TapAnswered
  <2>2. /\ tap' \in TapTypes
        /\ tap'.is = "confirmed" /\ tap'.before = tap.before /\ tap'.agreed = tap.agreed
        /\ tap'.answer = tap.answer /\ over' \in Reacted
    BY <2>1 DEF ReactionInv, ReactionTypes, TapTypes
  <2>3. ReactionTypes'
    BY <1>1, <2>2 DEF ReactionInv, ReactionTypes
  <2>4. TapSound'
    BY <1>1, <2>1, <2>2, ReactionAssumed DEF ReactionInv, TapSound
  <2> QED
    BY <2>3, <2>4 DEF ReactionInv
<1>3. CASE Emoji!Refreshes
  <2>1. tap.is = "confirmed" /\ tap' = [tap EXCEPT !.is = "read", !.answer = Emoji!AtHost] /\ over' = over
    BY <1>3 DEF Emoji!Refreshes
  <2>2. /\ tap' \in TapTypes
        /\ tap'.is = "read" /\ tap'.before = tap.before /\ tap'.agreed = tap.agreed
    BY <2>1, ReactionFacts DEF ReactionInv, ReactionTypes, TapTypes
  <2>3. ReactionTypes'
    BY <1>1, <2>1, <2>2 DEF ReactionInv, ReactionTypes
  <2>4. TapSound'
    BY <1>1, <2>1, <2>2 DEF ReactionInv, TapSound
  <2> QED
    BY <2>3, <2>4 DEF ReactionInv
<1>4. QED
  BY <1>2, <1>3

LEMMA KeepPolls ==
  ReactionInv /\ (Emoji!Poll \/ (\E n \in 0..2 : Emoji!Other(n))
                   \/ \E k \in DOMAIN polls : Emoji!Polled(k) \/ Emoji!PollFails(k)) => ReactionInv'
<1>1. SUFFICES ASSUME ReactionInv,
                      Emoji!Poll \/ (\E n \in 0..2 : Emoji!Other(n))
                        \/ \E k \in DOMAIN polls : Emoji!Polled(k) \/ Emoji!PollFails(k)
               PROVE ReactionInv'
  OBVIOUS
<1>2. UNCHANGED <<mine, over, tap>> /\ (others' = others \/ others' \in 0..2)
  BY <1>1 DEF Emoji!Poll, Emoji!Other, Emoji!Polled, Emoji!PollFails, Emoji!Erases
<1>3. TapSound'
  BY <1>1, <1>2 DEF ReactionInv, TapSound
<1>4. polls \in Seq(Reacted) /\ row \in Reacted
  BY <1>1 DEF ReactionInv, ReactionTypes
<1>5. row' \in Reacted /\ polls' \in Seq(Reacted)
  <2>1. CASE Emoji!Poll
    <3>1. row' = row /\ polls' = Append(polls, Emoji!AtHost)
      BY <2>1 DEF Emoji!Poll
    <3>2. Emoji!AtHost \in Reacted
      BY <1>1, ReactionFacts DEF ReactionInv
    <3> QED
      BY <1>4, <3>1, <3>2, AppendProperties
  <2>2. CASE \E n \in 0..2 : Emoji!Other(n)
    BY <1>4, <2>2 DEF Emoji!Other
  <2>3. ASSUME NEW k \in DOMAIN polls, Emoji!Polled(k) \/ Emoji!PollFails(k)
        PROVE  row' \in Reacted /\ polls' \in Seq(Reacted)
    <3>1. k \in 1..Len(polls) /\ polls[k] \in Reacted
      BY <1>4, <2>3, LenProperties, ElementOfSeq
    <3>2. row' \in {row, polls[k]} /\ polls' = Emoji!RemoveAt(polls, k)
      BY <2>3 DEF Emoji!Polled, Emoji!PollFails
    <3>3. polls' = Without(polls, k)
      BY <3>2 DEF Emoji!RemoveAt, Without
    <3>4. Without(polls, k) \in Seq(Reacted)
      BY <1>4, <3>1, WithoutFacts
    <3> QED
      BY <1>4, <3>1, <3>2, <3>3, <3>4
  <2> QED
    BY <1>1, <2>1, <2>2, <2>3
<1>6. ReactionTypes'
  BY <1>1, <1>2, <1>5 DEF ReactionInv, ReactionTypes
<1>7. QED
  BY <1>3, <1>6 DEF ReactionInv

LEMMA ReactionsRun ==
  ASSUME [Next]_vars
  PROVE  Emoji!Next \/ UNCHANGED Emoji!vars
BY DEF Next, StandStill, vars, reactions, Emoji!vars

LEMMA ReactionHolds == Spec => []ReactionInv
<1>1. Init => ReactionInv
  BY ReactionInit DEF Init
<1>2. ReactionInv /\ Emoji!Next => ReactionInv'
  BY KeepTap, KeepReactionStore, KeepTapEnds, KeepAnswer, KeepPolls DEF Emoji!Next
<1>3. ReactionInv /\ UNCHANGED Emoji!vars => ReactionInv'
  BY DEF Emoji!vars, ReactionInv, ReactionTypes, TapSound
<1>4. ReactionInv /\ [Next]_vars => ReactionInv'
  BY <1>2, <1>3, ReactionsRun
<1>5. QED
  BY <1>1, <1>4, PTL DEF Spec

LEMMA TapHolds == Spec => []Emoji!TapStands
<1>1. ReactionInv => Emoji!TapStands
  BY DEF ReactionInv, TapSound, Emoji!TapStands, Emoji!Shown
<1>2. QED
  BY <1>1, ReactionHolds, PTL
---------------------------------------------------------------------------
(* Faces. *)

LEMMA FaceAssumed ==
  /\ None \notin Hosts /\ None \notin Picture /\ {0, 1} \subseteq Picture
  /\ Faces!Faces \subseteq Picture
<1>1. None \notin Hosts \cup Picture /\ MaxFace \in Nat \ {0}
  BY PartsAssumption DEF Faces!AvatarAssumption, Picture
<1>2. {0, 1} \subseteq Picture /\ Faces!Faces \subseteq Picture
  BY <1>1 DEF Picture, Faces!Picture, Faces!Faces
<1>3. QED
  BY <1>1, <1>2

LEMMA FaceShapes ==
  /\ Faces!Blank \in FaceRecords /\ Faces!Blank.url = 0 /\ Faces!Blank.miss = "none" /\ Faces!Blank.primed = None
  /\ Faces!Idle \in FaceJobs /\ Faces!Idle.at = "idle" /\ Faces!Idle.void = FALSE
  /\ Faces!NotSaved \in FaceCopies /\ ~Faces!NotSaved.has /\ ~Faces!NotSaved.broken
  /\ \A f, d, c \in Picture :
       /\ Faces!Copy(f, d, c) \in FaceCopies /\ Faces!Copy(f, d, c).has /\ ~Faces!Copy(f, d, c).broken
       /\ Faces!Copy(f, d, c).face = f
<1>1. Faces!Blank \in FaceRecords /\ Faces!Blank.url = 0 /\ Faces!Blank.miss = "none" /\ Faces!Blank.primed = None
  BY FaceAssumed DEF Faces!Blank, FaceRecords
<1>2. Faces!Idle \in FaceJobs /\ Faces!Idle.at = "idle" /\ Faces!Idle.void = FALSE
  BY FaceAssumed DEF Faces!Idle, FaceJobs
<1>3. Faces!NotSaved \in FaceCopies /\ ~Faces!NotSaved.has /\ ~Faces!NotSaved.broken
  BY FaceAssumed DEF Faces!NotSaved, FaceCopies
<1>4. ASSUME NEW f \in Picture, NEW d \in Picture, NEW c \in Picture
      PROVE  /\ Faces!Copy(f, d, c) \in FaceCopies /\ Faces!Copy(f, d, c).has /\ ~Faces!Copy(f, d, c).broken
             /\ Faces!Copy(f, d, c).face = f
  BY <1>4, FaceAssumed DEF Faces!Copy, Faces!NotSaved, FaceCopies
<1>5. QED
  BY <1>1, <1>2, <1>3, <1>4

(* How a record changes. *)
LEMMA RecordFacts ==
  ASSUME NEW r \in FaceRecords
  PROVE  /\ \A f, d \in Picture :
              /\ Faces!WithFace(r, f, d) \in FaceRecords /\ Faces!WithFace(r, f, d).url = f
              /\ Faces!WithFace(r, f, d).miss = "none" /\ Faces!WithFace(r, f, d).primed = r.primed
         /\ Faces!Absent(r) \in FaceRecords /\ Faces!Absent(r).url = 0 /\ Faces!Absent(r).miss = "absent"
         /\ Faces!Absent(r).primed = r.primed
         /\ Faces!Failed(r) \in FaceRecords /\ Faces!Failed(r).url = r.url /\ Faces!Failed(r).miss = "failed"
         /\ Faces!Failed(r).primed = r.primed
<1>1. ASSUME NEW f \in Picture, NEW d \in Picture
      PROVE  /\ Faces!WithFace(r, f, d) \in FaceRecords /\ Faces!WithFace(r, f, d).url = f
             /\ Faces!WithFace(r, f, d).miss = "none" /\ Faces!WithFace(r, f, d).primed = r.primed
  BY <1>1 DEF Faces!WithFace, FaceRecords
<1>2. /\ Faces!Absent(r) \in FaceRecords /\ Faces!Absent(r).url = 0 /\ Faces!Absent(r).miss = "absent"
      /\ Faces!Absent(r).primed = r.primed
  BY FaceAssumed DEF Faces!Absent, FaceRecords
<1>3. /\ Faces!Failed(r) \in FaceRecords /\ Faces!Failed(r).url = r.url /\ Faces!Failed(r).miss = "failed"
      /\ Faces!Failed(r).primed = r.primed
  BY DEF Faces!Failed, FaceRecords
<1>4. QED
  BY <1>1, <1>2, <1>3

LEMMA FaceInit == ASSUME Faces!Init PROVE FaceInv
<1>1. /\ rec = [h \in Hosts |-> Faces!Blank] /\ job = [h \in Hosts |-> Faces!Idle]
      /\ hint = [h \in Hosts |-> 0] /\ overruled = [h \in Hosts |-> FALSE]
      /\ self \in Hosts \cup {None} /\ own \in Picture
      /\ saved \in [Hosts -> Faces!OldCopies]
      /\ known = [h \in Hosts |-> IF saved[h].has /\ ~saved[h].broken THEN saved[h].face ELSE None]
  BY FaceAssumed DEF Faces!Init, Faces!Fresh, Picture
<1>2. ASSUME NEW h \in Hosts
      PROVE  saved[h] \in FaceCopies /\ (saved[h].broken => saved[h].has)
  <2>1. saved[h] \in Faces!OldCopies
    BY <1>1, <1>2
  <2>2. CASE saved[h] = Faces!NotSaved
    BY <2>2, FaceShapes
  <2>3. ASSUME NEW b \in BOOLEAN, saved[h] = [Faces!Copy(1, 0, 0) EXCEPT !.old = TRUE, !.broken = b]
        PROVE  saved[h] \in FaceCopies /\ saved[h].has
    <3>1. Faces!Copy(1, 0, 0) \in FaceCopies /\ Faces!Copy(1, 0, 0).has
      BY FaceShapes, FaceAssumed
    <3> QED
      BY <2>3, <3>1 DEF FaceCopies
  <2>4. \/ saved[h] = Faces!NotSaved
        \/ \E b \in BOOLEAN : saved[h] = [Faces!Copy(1, 0, 0) EXCEPT !.old = TRUE, !.broken = b]
    BY <2>1 DEF Faces!OldCopies
  <2> QED
    BY <2>2, <2>3, <2>4, FaceShapes
<1>3. FaceTypes
  <2>1. saved \in [Hosts -> FaceCopies]
    BY <1>1, <1>2
  <2>2. known \in [Hosts -> Picture \cup {None}]
    BY <1>1, <1>2 DEF FaceCopies
  <2> QED
    BY <1>1, <2>1, <2>2, FaceShapes, FaceAssumed DEF FaceTypes
<1>4. ASSUME NEW h \in Hosts PROVE FaceSound(h)
  <2>1. saved[h].has \in BOOLEAN /\ saved[h].broken \in BOOLEAN
    BY <1>2 DEF FaceCopies
  <2> QED
    BY <1>1, <1>2, <2>1, FaceShapes DEF FaceSound
<1>5. QED
  BY <1>3, <1>4 DEF FaceInv

(* A host of which only what does not matter changes, or whose record goes. *)
LEMMA FaceStays ==
  ASSUME NEW h \in Hosts, FaceInv, self' = self, own' = own \/ h # self,
         rec'[h] = Faces!Blank \/ (rec'[h].url = rec[h].url /\ rec'[h].miss = rec[h].miss
                                    /\ rec'[h].primed = rec[h].primed),
         (job'[h].at \in {"queued", "asked"} /\ job'[h].void) = (job[h].at \in {"queued", "asked"} /\ job[h].void),
         saved'[h].has = saved[h].has, saved'[h].broken = saved[h].broken, saved'[h].face = saved[h].face,
         known'[h] = known[h], overruled'[h] = overruled[h]
  PROVE  FaceSound(h)'
<1>1. FaceSound(h)
  BY DEF FaceInv
<1>2. CASE rec'[h] = Faces!Blank
  BY <1>1, <1>2, FaceShapes DEF FaceSound
<1>3. CASE rec'[h].url = rec[h].url /\ rec'[h].miss = rec[h].miss /\ rec'[h].primed = rec[h].primed
  BY <1>1, <1>3 DEF FaceSound
<1>4. QED
  BY <1>2, <1>3

(* pruneIdleAvatars: a record stays as it is, or goes. *)
LEMMA Pruned ==
  ASSUME NEW r \in [Hosts -> FaceRecords], NEW j, NEW m, Faces!Prune(r, j, m)
  PROVE  /\ rec' \in [Hosts -> FaceRecords]
         /\ \A h \in Hosts : rec'[h] = r[h] \/ rec'[h] = Faces!Blank
<1>1. PICK away : rec' = [h \in Hosts |-> IF h \in away THEN Faces!Blank ELSE r[h]]
  BY DEF Faces!Prune
<1>2. QED
  BY <1>1, FaceShapes

LEMMA HostTypes ==
  ASSUME FaceTypes, NEW h \in Hosts
  PROVE  /\ rec[h] \in FaceRecords /\ job[h] \in FaceJobs /\ saved[h] \in FaceCopies /\ hint[h] \in Picture
         /\ known[h] \in Picture \cup {None} /\ overruled[h] \in BOOLEAN
BY DEF FaceTypes

(* Asked for: a promise, which no definite word can have overruled yet. *)
LEMMA AskKeeps ==
  ASSUME FaceInv, NEW hs \in SUBSET Hosts, Faces!Ask(hs), \A h \in hs : job[h].at = "idle",
         UNCHANGED <<self, own, saved, known, overruled>>, hint' \in [Hosts -> Picture]
  PROVE  FaceInv'
<1>1. job' = [h \in Hosts |-> IF h \in hs THEN [Faces!Idle EXCEPT !.at = "restoring", !.void = rec[h].url # 0]
                              ELSE job[h]]
  BY DEF Faces!Ask, Faces!Promised
<1>2. \A h \in hs : /\ [Faces!Idle EXCEPT !.at = "restoring", !.void = rec[h].url # 0] \in FaceJobs
                    /\ [Faces!Idle EXCEPT !.at = "restoring", !.void = rec[h].url # 0].at = "restoring"
  BY FaceShapes DEF FaceJobs
<1>3. job' \in [Hosts -> FaceJobs]
  BY <1>1, <1>2 DEF FaceInv, FaceTypes
<1> DEFINE r == Faces!InCache(rec, hs)
<1>4. r \in [Hosts -> FaceRecords] /\ \A h \in Hosts : /\ r[h].url = rec[h].url /\ r[h].miss = rec[h].miss
                                                      /\ r[h].primed = rec[h].primed
  <2>1. ASSUME NEW h \in Hosts
        PROVE  /\ [rec[h] EXCEPT !.in = TRUE] \in FaceRecords /\ [rec[h] EXCEPT !.in = TRUE].url = rec[h].url
               /\ [rec[h] EXCEPT !.in = TRUE].miss = rec[h].miss /\ [rec[h] EXCEPT !.in = TRUE].primed = rec[h].primed
    BY <2>1, HostTypes DEF FaceInv, FaceRecords
  <2>2. \A h \in Hosts : rec[h] \in FaceRecords
    BY HostTypes DEF FaceInv
  <2> QED
    BY <2>1, <2>2 DEF Faces!InCache
<1>5. Faces!Prune(r, job', mounted')
  BY DEF Faces!Ask
<1> HIDE DEF r
<1>6. rec' \in [Hosts -> FaceRecords] /\ \A h \in Hosts : rec'[h] = r[h] \/ rec'[h] = Faces!Blank
  BY <1>4, <1>5, Pruned
<1>7. ASSUME NEW h \in Hosts PROVE FaceSound(h)'
  <2>1. (job'[h].at \in {"queued", "asked"} /\ job'[h].void) = (job[h].at \in {"queued", "asked"} /\ job[h].void)
    BY <1>1, <1>2
  <2> QED
    BY <1>4, <1>6, <2>1, FaceStays
<1>8. QED
  BY <1>3, <1>6, <1>7 DEF FaceInv, FaceTypes

LEMMA RestoredKeeps ==
  ASSUME FaceInv, NEW h \in Hosts, NEW read \in BOOLEAN, Faces!Restored(h, read)
  PROVE  FaceInv'
<1> DEFINE s == saved[h]
           usable == read /\ s.has /\ ~job[h].void /\ ~s.broken
           found == IF s.face # 0
                    THEN [Faces!WithFace(rec[h], s.face, s.digest) EXCEPT !.seen = IF s.old THEN "old" ELSE @]
                    ELSE [Faces!Absent(rec[h]) EXCEPT !.recent = ~s.old]
           r == IF usable THEN [found EXCEPT !.checked = s.checked] ELSE rec[h]
           settled == usable /\ Faces!AnswerIsCurrent(h, r, hint[h])
           j == IF settled THEN Faces!Idle ELSE [Faces!Idle EXCEPT !.at = "queued", !.back = r.url # 0]
<1>1. /\ job[h].at = "restoring" /\ UNCHANGED <<hint, self, own, overruled>>
      /\ rec' = [rec EXCEPT ![h] = r] /\ job' = [job EXCEPT ![h] = j]
      /\ saved' = IF read /\ s.broken /\ ~job[h].void THEN [saved EXCEPT ![h] = Faces!NotSaved] ELSE saved
      /\ known' = IF s.broken /\ saved' # saved THEN [known EXCEPT ![h] = None] ELSE known
  BY DEF Faces!Restored, Faces!me
<1>2. /\ rec[h] \in FaceRecords /\ job[h] \in FaceJobs /\ s \in FaceCopies /\ hint[h] \in Picture
      /\ known[h] \in Picture \cup {None} /\ overruled[h] \in BOOLEAN /\ FaceTypes
  BY HostTypes DEF FaceInv
<1>3. s.face \in Picture /\ s.digest \in Picture /\ s.checked \in Picture /\ s.old \in BOOLEAN
  BY <1>2 DEF FaceCopies
<1>4. /\ found \in FaceRecords /\ found.primed = rec[h].primed /\ found.url = s.face
      /\ found.miss = IF s.face # 0 THEN "none" ELSE "absent"
  <2>1. CASE s.face # 0
    <3> DEFINE w == Faces!WithFace(rec[h], s.face, s.digest)
    <3> HIDE DEF s
    <3>1. w \in FaceRecords /\ w.url = s.face /\ w.miss = "none" /\ w.primed = rec[h].primed
      BY <1>2, <1>3, RecordFacts
    <3>2. found = [w EXCEPT !.seen = IF s.old THEN "old" ELSE @]
      BY <2>1
    <3> HIDE DEF w, found
    <3> QED
      BY <2>1, <3>1, <3>2 DEF FaceRecords
  <2>2. CASE s.face = 0
    <3> DEFINE w == Faces!Absent(rec[h])
    <3>1. w \in FaceRecords /\ w.url = 0 /\ w.miss = "absent" /\ w.primed = rec[h].primed
      BY <1>2, RecordFacts
    <3>2. found = [w EXCEPT !.recent = ~s.old]
      BY <2>2
    <3> HIDE DEF w, found, s
    <3> QED
      BY <2>2, <3>1, <3>2 DEF FaceRecords
  <2> QED
    BY <2>1, <2>2
<1> HIDE DEF found
<1>5. /\ r \in FaceRecords /\ r.primed = rec[h].primed
      /\ usable => r.url = s.face /\ r.miss = IF s.face # 0 THEN "none" ELSE "absent"
      /\ ~usable => r = rec[h]
  <2>1. CASE usable
    <3> r = [found EXCEPT !.checked = s.checked]
      BY <2>1
    <3> HIDE DEF r, s
    <3> QED
      BY <1>3, <1>4, <2>1 DEF FaceRecords
  <2>2. CASE ~usable
    BY <1>2, <2>2
  <2> QED
    BY <2>1, <2>2
<1>6. usable => s.has /\ ~s.broken
  OBVIOUS
<1> HIDE DEF usable, r
<1>7. j \in FaceJobs /\ ~j.void
  BY <1>5, FaceShapes DEF FaceJobs
<1> HIDE DEF j, settled
<1>8. saved' \in [Hosts -> FaceCopies] /\ known' \in [Hosts -> Picture \cup {None}]
  BY <1>1, <1>2, FaceShapes DEF FaceTypes
<1>9. FaceTypes'
  BY <1>1, <1>2, <1>5, <1>7, <1>8 DEF FaceTypes
<1>10. FaceSound(h)'
  <2>1. rec'[h] = r /\ job'[h] = j
    BY <1>1, <1>2 DEF FaceTypes
  <2>2. FaceSound(h)
    BY DEF FaceInv
  <2>3. CASE saved' = saved
    <3>1. known' = known
      BY <1>1, <2>3
    <3> QED
      BY <1>1, <1>2, <1>3, <1>5, <1>6, <1>7, <2>1, <2>2, <2>3, <3>1, FaceAssumed DEF FaceSound
  <2>4. CASE saved' # saved
    <3>1. s.broken /\ saved'[h] = Faces!NotSaved /\ known'[h] = None /\ known[h] = None
      BY <1>1, <1>2, <2>2, <2>4 DEF FaceTypes, FaceSound
    <3>2. ~usable
      BY <1>6, <3>1
    <3> QED
      BY <1>1, <1>2, <1>5, <1>7, <2>1, <2>2, <3>1, <3>2, FaceAssumed, FaceShapes DEF FaceSound
  <2> QED
    BY <2>3, <2>4
<1>11. ASSUME NEW g \in Hosts, g # h PROVE FaceSound(g)'
  <2>1. rec'[g] = rec[g] /\ job'[g] = job[g] /\ saved'[g] = saved[g] /\ known'[g] = known[g]
    BY <1>1, <1>2, <1>11 DEF FaceTypes
  <2> QED
    BY <1>1, <2>1, FaceStays
<1>12. QED
  BY <1>9, <1>10, <1>11 DEF FaceInv

LEMMA TakeBatchKeeps ==
  ASSUME FaceInv, NEW l \in Faces!Lanes, Faces!TakeBatch(l)
  PROVE  FaceInv'
<1>1. UNCHANGED <<rec, hint, self, own, saved, known, overruled>>
  BY DEF Faces!TakeBatch, Faces!me
<1>2. ASSUME NEW h \in Hosts
      PROVE  /\ job'[h] \in FaceJobs
             /\ \/ job'[h] = job[h]
                \/ job[h].at = "queued" /\ job'[h].at = "asked" /\ job'[h].void = job[h].void
  <2>1. job[h] \in FaceJobs /\ hint[h] \in Picture
    BY HostTypes DEF FaceInv
  <2>2. /\ [job[h] EXCEPT !.at = "asked", !.digest = hint[h]] \in FaceJobs
        /\ [job[h] EXCEPT !.at = "asked", !.digest = hint[h]].at = "asked"
        /\ [job[h] EXCEPT !.at = "asked", !.digest = hint[h]].void = job[h].void
    BY <2>1 DEF FaceJobs
  <2>3. \/ job'[h] = job[h]
        \/ job[h].at = "queued" /\ job'[h] = [job[h] EXCEPT !.at = "asked", !.digest = hint[h]]
    BY DEF Faces!TakeBatch
  <2> QED
    BY <2>1, <2>2, <2>3
<1>3. job' \in [Hosts -> FaceJobs]
  <2>1. job' = [h \in Hosts |-> job'[h]]
    BY DEF Faces!TakeBatch
  <2> QED
    BY <1>2, <2>1
<1>4. ASSUME NEW h \in Hosts PROVE FaceSound(h)'
  BY <1>1, <1>2, FaceStays
<1>5. QED
  BY <1>1, <1>3, <1>4 DEF FaceInv, FaceTypes

LEMMA AnswersFacts ==
  ASSUME FaceTypes, NEW h \in Hosts, NEW x \in Faces!Answers(h)
  PROVE  /\ x.is \in {"face", "missing", "failed"} /\ x.face \in Picture /\ x.digest \in Picture
         /\ x.is = "missing" => x.face = 0
         /\ h = self /\ x.is # "failed" => x.face = own
<1>1. own \in Picture /\ job[h].digest \in Picture /\ 0 \in Picture
  BY HostTypes, FaceAssumed DEF FaceTypes, FaceJobs
<1>2. CASE x = Faces!Answer(0, 0, "failed")
  BY <1>1, <1>2 DEF Faces!Answer
<1>3. CASE h = self /\ x = Faces!Plain(own)
  BY <1>1, <1>3 DEF Faces!Plain, Faces!Answer
<1>4. CASE h # self /\ \E f \in Picture : x = Faces!Plain(f)
  BY <1>1, <1>4 DEF Faces!Plain, Faces!Answer
<1>5. CASE h # self /\ x = Faces!Answer(job[h].digest, job[h].digest, "face")
  BY <1>1, <1>5 DEF Faces!Answer
<1>6. QED
  BY <1>2, <1>3, <1>4, <1>5 DEF Faces!Answers, Picture

LEMMA ResolveKeeps ==
  ASSUME FaceInv, NEW l \in Faces!Lanes, Faces!Resolve(l)
  PROVE  FaceInv'
<1> DEFINE hs == Faces!Out(l)
           new(a, h) == CASE a[h].is = "face" -> Faces!WithFace(rec[h], a[h].face, a[h].digest)
                          [] a[h].is = "missing" -> Faces!Absent(rec[h])
                          [] OTHER -> Faces!Failed(rec[h])
           r(a) == [h \in Hosts |-> IF h \in hs /\ Faces!Applied(h)
                                    THEN [new(a, h) EXCEPT !.checked = job[h].digest] ELSE rec[h]]
           says(a) == {h \in hs : a[h].is # "failed" /\ ~overruled[h]}
<1>1. PICK a :
        /\ \A h \in hs : a[h] \in Faces!Answers(h)
        /\ job' = [h \in Hosts |-> IF h \in hs THEN Faces!Idle ELSE job[h]]
        /\ saved' = [h \in Hosts |-> IF h \in hs /\ Faces!Saves(h, r(a)[h])
                                     THEN Faces!Copy(a[h].face, a[h].digest, job[h].digest) ELSE saved[h]]
        /\ Faces!Prune(r(a), job', mounted)
        /\ known' = [h \in Hosts |-> IF h \in says(a) THEN a[h].face ELSE known[h]]
        /\ overruled' = [h \in Hosts |-> overruled[h] /\ h \notin hs]
        /\ UNCHANGED <<hint, self, own>>
  BY DEF Faces!Resolve, Faces!me
<1>2. hs = {h \in Hosts : job[h].at = "asked" /\ Faces!LaneOf(h) = l}
  BY DEF Faces!Out
<1> HIDE DEF hs
<1>3. ASSUME NEW h \in hs
      PROVE  /\ h \in Hosts /\ job[h].at = "asked" /\ overruled[h] = ~Faces!Applied(h)
             /\ rec[h] \in FaceRecords /\ job[h].digest \in Picture
             /\ a[h].is \in {"face", "missing", "failed"} /\ a[h].face \in Picture /\ a[h].digest \in Picture
             /\ a[h].is = "missing" => a[h].face = 0
             /\ h = self /\ a[h].is # "failed" => a[h].face = own
  <2>1. h \in Hosts /\ job[h].at = "asked"
    BY <1>2, <1>3
  <2>2. FaceSound(h) /\ FaceTypes /\ a[h] \in Faces!Answers(h)
    BY <1>1, <1>3, <2>1 DEF FaceInv
  <2>3. job[h] \in FaceJobs /\ rec[h] \in FaceRecords /\ overruled[h] \in BOOLEAN
    BY <2>1, <2>2, HostTypes
  <2>4. overruled[h] = ~Faces!Applied(h)
    BY <2>1, <2>2, <2>3 DEF FaceSound, FaceJobs, Faces!Applied
  <2> QED
    BY <2>1, <2>2, <2>3, <2>4, AnswersFacts DEF FaceJobs
<1>4. ASSUME NEW h \in hs
      PROVE  /\ new(a, h) \in FaceRecords /\ new(a, h).primed = rec[h].primed
             /\ a[h].is = "face" => new(a, h).url = a[h].face /\ new(a, h).miss = "none"
             /\ a[h].is = "missing" => new(a, h).url = 0 /\ new(a, h).miss = "absent"
             /\ a[h].is = "failed" => new(a, h).url = rec[h].url /\ new(a, h).miss = "failed"
  <2>1. CASE a[h].is = "face"
    <3>1. new(a, h) = Faces!WithFace(rec[h], a[h].face, a[h].digest)
      BY <2>1
    <3> HIDE DEF new
    <3> QED
      BY <1>3, <1>4, <2>1, <3>1, RecordFacts
  <2>2. CASE a[h].is = "missing"
    <3>1. new(a, h) = Faces!Absent(rec[h])
      BY <2>2
    <3> HIDE DEF new
    <3> QED
      BY <1>3, <1>4, <2>2, <3>1, RecordFacts
  <2>3. CASE a[h].is = "failed"
    <3>1. new(a, h) = Faces!Failed(rec[h])
      BY <2>3
    <3> HIDE DEF new
    <3> QED
      BY <1>3, <1>4, <2>3, <3>1, RecordFacts
  <2> QED
    BY <1>3, <2>1, <2>2, <2>3
<1> HIDE DEF new
<1>5. ASSUME NEW h \in hs, Faces!Applied(h)
      PROVE  /\ r(a)[h] \in FaceRecords /\ r(a)[h].primed = rec[h].primed
             /\ a[h].is = "face" => r(a)[h].url = a[h].face /\ r(a)[h].miss = "none"
             /\ a[h].is = "missing" => r(a)[h].url = 0 /\ r(a)[h].miss = "absent"
             /\ a[h].is = "failed" => r(a)[h].url = rec[h].url /\ r(a)[h].miss = "failed"
  <2>1. r(a)[h] = [new(a, h) EXCEPT !.checked = job[h].digest]
    BY <1>3, <1>5
  <2> HIDE DEF r
  <2> QED
    BY <1>3, <1>4, <1>5, <2>1 DEF FaceRecords
<1>6. ASSUME NEW h \in Hosts, ~(h \in hs /\ Faces!Applied(h))
      PROVE  r(a)[h] = rec[h] /\ rec[h] \in FaceRecords /\ saved'[h] = saved[h] /\ known'[h] = known[h]
  <2>1. rec[h] \in FaceRecords
    BY HostTypes DEF FaceInv
  <2>2. h \notin says(a)
    BY <1>3, <1>6
  <2> QED
    BY <1>1, <1>6, <2>1, <2>2 DEF Faces!Saves
<1>7. r(a) \in [Hosts -> FaceRecords]
  <2>1. \A h \in Hosts : r(a)[h] \in FaceRecords
    BY <1>5, <1>6
  <2>2. r(a) = [h \in Hosts |-> r(a)[h]]
    OBVIOUS
  <2> HIDE DEF r
  <2> QED
    BY <2>1, <2>2
<1> HIDE DEF r
<1>8. rec' \in [Hosts -> FaceRecords] /\ \A h \in Hosts : rec'[h] = r(a)[h] \/ rec'[h] = Faces!Blank
  BY <1>1, <1>7, Pruned
<1>9. ASSUME NEW h \in hs, Faces!Applied(h), a[h].is # "failed"
      PROVE  /\ known'[h] = a[h].face /\ saved'[h] \in FaceCopies /\ saved'[h].has /\ ~saved'[h].broken
             /\ saved'[h].face = a[h].face
  <2>1. Faces!Saves(h, r(a)[h]) /\ h \in says(a)
    BY <1>3, <1>5, <1>9 DEF Faces!Saves
  <2>2. known'[h] = a[h].face /\ saved'[h] = Faces!Copy(a[h].face, a[h].digest, job[h].digest)
    BY <1>1, <1>3, <2>1
  <2> QED
    BY <1>3, <2>2, FaceShapes
<1>10. ASSUME NEW h \in hs, Faces!Applied(h), a[h].is = "failed"
       PROVE  known'[h] = known[h] /\ saved'[h] = saved[h]
  <2>1. ~Faces!Saves(h, r(a)[h]) /\ h \notin says(a)
    BY <1>5, <1>10 DEF Faces!Saves
  <2> QED
    BY <1>1, <1>3, <2>1
<1>11. \A h \in Hosts : /\ overruled'[h] = (overruled[h] /\ h \notin hs)
                        /\ job'[h] = IF h \in hs THEN Faces!Idle ELSE job[h]
  BY <1>1
<1>12. FaceTypes'
  <2>1. \A h \in Hosts : /\ saved[h] \in FaceCopies /\ known[h] \in Picture \cup {None} /\ job[h] \in FaceJobs
                         /\ overruled[h] \in BOOLEAN
    BY HostTypes DEF FaceInv
  <2>2. \A h \in Hosts : saved'[h] \in FaceCopies /\ known'[h] \in Picture \cup {None}
    BY <1>3, <1>6, <1>9, <1>10, <2>1
  <2>3. /\ saved' = [h \in Hosts |-> saved'[h]] /\ known' = [h \in Hosts |-> known'[h]]
        /\ job' = [h \in Hosts |-> job'[h]] /\ overruled' = [h \in Hosts |-> overruled'[h]]
    BY <1>1
  <2>4. \A h \in Hosts : job'[h] \in FaceJobs /\ overruled'[h] \in BOOLEAN
    BY <1>11, <2>1, FaceShapes
  <2> QED
    BY <1>1, <1>8, <2>2, <2>3, <2>4 DEF FaceInv, FaceTypes
<1>13. ASSUME NEW h \in Hosts PROVE FaceSound(h)'
  <2>1. FaceSound(h) /\ known[h] \in Picture \cup {None} /\ overruled[h] \in BOOLEAN
    BY HostTypes DEF FaceInv
  <2>2. CASE h \notin hs
    <3>1. /\ saved'[h] = saved[h] /\ known'[h] = known[h] /\ job'[h] = job[h] /\ overruled'[h] = overruled[h]
          /\ rec'[h] = rec[h] \/ rec'[h] = Faces!Blank
      BY <1>6, <1>8, <1>11, <2>1, <2>2
    <3> QED
      BY <1>1, <3>1, FaceStays
  <2>3. CASE h \in hs /\ ~Faces!Applied(h)
    BY <1>1, <1>3, <1>6, <1>8, <1>11, <2>1, <2>3, FaceShapes DEF FaceSound
  <2>4. CASE h \in hs /\ Faces!Applied(h) /\ a[h].is = "failed"
    <3>1. /\ saved'[h] = saved[h] /\ known'[h] = known[h] /\ job'[h] = Faces!Idle /\ ~overruled'[h]
          /\ rec'[h] = r(a)[h] \/ rec'[h] = Faces!Blank
          /\ r(a)[h].url = rec[h].url /\ r(a)[h].miss = "failed" /\ r(a)[h].primed = rec[h].primed
      BY <1>5, <1>8, <1>10, <1>11, <2>4
    <3>2. /\ rec'[h].url # 0 => rec'[h].url = rec[h].url
          /\ rec'[h].miss # "absent" /\ (rec'[h].primed # None => rec'[h].primed = rec[h].primed)
      BY <3>1, FaceShapes
    <3> QED
      BY <1>1, <2>1, <3>1, <3>2, FaceShapes DEF FaceSound
  <2>5. CASE h \in hs /\ Faces!Applied(h) /\ a[h].is # "failed"
    <3>1. /\ rec'[h].url # 0 => rec'[h].url = known'[h]
          /\ rec'[h].miss = "absent" => known'[h] = 0
          /\ rec'[h].primed # None => rec[h].primed = rec'[h].primed
      BY <1>3, <1>5, <1>8, <1>9, <2>5, FaceShapes
    <3>2. overruled'[h] = FALSE /\ job'[h] = Faces!Idle
      BY <1>11, <2>5
    <3>3. rec'[h].primed # None => h = self /\ rec'[h].primed = own /\ known'[h] \in {own, None}
      BY <1>3, <1>9, <2>1, <2>5, <3>1 DEF FaceSound
    <3> QED
      BY <1>1, <1>3, <1>9, <2>5, <3>1, <3>2, <3>3, FaceShapes, FaceAssumed DEF FaceSound
  <2> QED
    BY <1>3, <2>2, <2>3, <2>4, <2>5
<1>14. QED
  BY <1>12, <1>13 DEF FaceInv

LEMMA MountKeeps == ASSUME FaceInv, NEW h \in Hosts, Faces!Mount(h) PROVE FaceInv'
<1> DEFINE hs == {h} \ {g \in Hosts : Faces!IsCurrent(g, rec[g], hint[g])}
<1>1. /\ Faces!Ask(hs) /\ UNCHANGED <<self, own, saved, known, overruled, hint>>
      /\ \A g \in hs : job[g].at = "idle"
  BY DEF Faces!Mount, Faces!me, Faces!history, Faces!IsCurrent
<1>2. hs \in SUBSET Hosts
  OBVIOUS
<1> HIDE DEF hs
<1>3. hint' \in [Hosts -> Picture]
  BY <1>1 DEF FaceInv, FaceTypes
<1>4. QED
  BY <1>1, <1>2, <1>3, AskKeeps

LEMMA RecoverKeeps == ASSUME FaceInv, Faces!Recover PROVE FaceInv'
<1> DEFINE hs == {h \in watched \cap mounted : rec[h].url = 0 /\ ~Faces!IsCurrent(h, rec[h], hint[h])}
           us == hs \cap Hosts
<1>1. /\ Faces!Ask(hs) /\ UNCHANGED <<self, own, saved, known, overruled, hint>>
      /\ \A g \in hs : job[g].at = "idle"
  BY DEF Faces!Recover, Faces!me, Faces!history, Faces!IsCurrent
<1> HIDE DEF hs
<1>2. Faces!Promised(rec, job, hs) = Faces!Promised(rec, job, us)
  BY DEF Faces!Promised
<1>3. Faces!InCache(rec, hs) = Faces!InCache(rec, us)
  BY DEF Faces!InCache
<1>4. Faces!Ask(us)
  BY <1>1, <1>2, <1>3 DEF Faces!Ask
<1>5. us \in SUBSET Hosts /\ \A g \in us : job[g].at = "idle"
  BY <1>1
<1> HIDE DEF us
<1>6. hint' \in [Hosts -> Picture]
  BY <1>1 DEF FaceInv, FaceTypes
<1>7. QED
  BY <1>1, <1>4, <1>5, <1>6, AskKeeps

LEMMA NoteKeeps == ASSUME FaceInv, NEW h \in Hosts, NEW d \in Faces!Faces, Faces!Note(h, d) PROVE FaceInv'
<1> DEFINE hs == IF Faces!Rechecks(h, d) THEN {h} ELSE {}
<1>1. /\ Faces!Ask(hs) /\ UNCHANGED <<self, own, saved, known, overruled>>
      /\ hint' = [hint EXCEPT ![h] = d]
  BY DEF Faces!Note, Faces!me
<1>2. hs \in SUBSET Hosts /\ \A g \in hs : job[g].at = "idle"
  BY DEF Faces!Rechecks, Faces!IsCurrent
<1> HIDE DEF hs
<1>3. hint' \in [Hosts -> Picture]
  BY <1>1, FaceAssumed DEF FaceInv, FaceTypes
<1>4. QED
  BY <1>1, <1>2, <1>3, AskKeeps

(* Only the records change, to what matters as much, or go. *)
LEMMA OnlyRecords ==
  ASSUME FaceInv, UNCHANGED <<job, saved, hint, self, own, known, overruled>>,
         rec' \in [Hosts -> FaceRecords],
         \A h \in Hosts : \/ rec'[h] = Faces!Blank
                          \/ /\ rec'[h].url = rec[h].url /\ rec'[h].miss = rec[h].miss
                             /\ rec'[h].primed = rec[h].primed
  PROVE  FaceInv'
<1>1. ASSUME NEW h \in Hosts PROVE FaceSound(h)'
  BY FaceStays
<1>2. QED
  BY <1>1 DEF FaceInv, FaceTypes

LEMMA UnmountKeeps == ASSUME FaceInv, NEW h \in Hosts, Faces!Unmount(h) PROVE FaceInv'
<1>1. Faces!Prune(rec, job, mounted') /\ UNCHANGED <<job, saved, hint, self, own, known, overruled>>
  BY DEF Faces!Unmount, Faces!me, Faces!history
<1>2. rec \in [Hosts -> FaceRecords]
  BY DEF FaceInv, FaceTypes
<1>3. rec' \in [Hosts -> FaceRecords] /\ \A g \in Hosts : rec'[g] = rec[g] \/ rec'[g] = Faces!Blank
  BY <1>1, <1>2, Pruned
<1>4. QED
  BY <1>1, <1>3, OnlyRecords

LEMMA ShowKeeps == ASSUME FaceInv, NEW v, Faces!Show(v) PROVE FaceInv'
<1>1. UNCHANGED <<rec, job, saved, hint, self, own, known, overruled>>
  BY DEF Faces!Show, Faces!me, Faces!history
<1>2. rec' \in [Hosts -> FaceRecords]
  BY <1>1 DEF FaceInv, FaceTypes
<1>3. QED
  BY <1>1, <1>2, OnlyRecords

LEMMA AgeKeeps == ASSUME FaceInv, NEW h \in Hosts, Faces!Age(h) PROVE FaceInv'
<1>1. /\ UNCHANGED <<job, saved, hint, self, own, known, overruled>>
      /\ \/ rec' = [rec EXCEPT ![h].seen = "old"]
         \/ rec' = [rec EXCEPT ![h].recent = FALSE]
  BY DEF Faces!Age, Faces!me, Faces!history
<1>2. rec \in [Hosts -> FaceRecords] /\ rec[h] \in FaceRecords
  BY DEF FaceInv, FaceTypes
<1>3. /\ [rec[h] EXCEPT !.seen = "old"] \in FaceRecords /\ [rec[h] EXCEPT !.seen = "old"].url = rec[h].url
      /\ [rec[h] EXCEPT !.seen = "old"].miss = rec[h].miss /\ [rec[h] EXCEPT !.seen = "old"].primed = rec[h].primed
  BY <1>2 DEF FaceRecords
<1>4. /\ [rec[h] EXCEPT !.recent = FALSE] \in FaceRecords /\ [rec[h] EXCEPT !.recent = FALSE].url = rec[h].url
      /\ [rec[h] EXCEPT !.recent = FALSE].miss = rec[h].miss
      /\ [rec[h] EXCEPT !.recent = FALSE].primed = rec[h].primed
  BY <1>2 DEF FaceRecords
<1>5. /\ rec' \in [Hosts -> FaceRecords]
      /\ \A g \in Hosts : /\ rec'[g].url = rec[g].url /\ rec'[g].miss = rec[g].miss
                          /\ rec'[g].primed = rec[g].primed
  BY <1>1, <1>2, <1>3, <1>4
<1>6. QED
  BY <1>1, <1>5, OnlyRecords

LEMMA AgeSavedKeeps == ASSUME FaceInv, NEW h \in Hosts, Faces!AgeSaved(h) PROVE FaceInv'
<1>1. /\ UNCHANGED <<rec, job, hint, self, own, known, overruled>>
      /\ saved' = [saved EXCEPT ![h].old = TRUE]
  BY DEF Faces!AgeSaved, Faces!me, Faces!history
<1>2. saved \in [Hosts -> FaceCopies] /\ saved[h] \in FaceCopies
  BY DEF FaceInv, FaceTypes
<1>3. /\ [saved[h] EXCEPT !.old = TRUE] \in FaceCopies /\ [saved[h] EXCEPT !.old = TRUE].has = saved[h].has
      /\ [saved[h] EXCEPT !.old = TRUE].broken = saved[h].broken
      /\ [saved[h] EXCEPT !.old = TRUE].face = saved[h].face
  BY <1>2 DEF FaceCopies
<1>4. /\ saved' \in [Hosts -> FaceCopies]
      /\ \A g \in Hosts : /\ saved'[g].has = saved[g].has /\ saved'[g].broken = saved[g].broken
                          /\ saved'[g].face = saved[g].face
  BY <1>1, <1>2, <1>3
<1>5. ASSUME NEW g \in Hosts PROVE FaceSound(g)'
  BY <1>1, <1>4, FaceStays
<1>6. QED
  BY <1>1, <1>4, <1>5 DEF FaceInv, FaceTypes

LEMMA RestartKeeps == ASSUME FaceInv, Faces!Restart PROVE FaceInv'
<1>1. /\ rec' = [h \in Hosts |-> Faces!Blank] /\ job' = [h \in Hosts |-> Faces!Idle]
      /\ hint' = [h \in Hosts |-> 0] /\ overruled' = [h \in Hosts |-> FALSE]
      /\ UNCHANGED <<self, own, saved, known>>
  BY DEF Faces!Restart, Faces!Fresh, Faces!me
<1>2. FaceTypes'
  BY <1>1, FaceShapes, FaceAssumed DEF FaceInv, FaceTypes
<1>3. ASSUME NEW h \in Hosts PROVE FaceSound(h)'
  BY <1>1, FaceShapes DEF FaceInv, FaceSound
<1>4. QED
  BY <1>2, <1>3 DEF FaceInv

LEMMA VoidFacts ==
  ASSUME NEW j \in FaceJobs
  PROVE  /\ Faces!Void(j) \in FaceJobs /\ Faces!Void(j).at = j.at
         /\ j.at # "idle" => Faces!Void(j).void
BY DEF Faces!Void, FaceJobs

LEMMA PrimeKeeps == ASSUME FaceInv, NEW f \in Picture, Faces!Prime(f) PROVE FaceInv'
<1> DEFINE w == IF f # 0 THEN Faces!WithFace(rec[self], f, 0)
                ELSE [rec[self] EXCEPT !.url = 0, !.seen = "none", !.miss = "none", !.recent = FALSE, !.digest = 0]
           x == [w EXCEPT !.primed = f, !.in = TRUE]
           r == [rec EXCEPT ![self] = x]
<1>1. /\ self # None /\ UNCHANGED <<hint, self>> /\ own' = f
      /\ saved' = IF rec[self].primed # f THEN [saved EXCEPT ![self] = Faces!Copy(f, 0, 0)] ELSE saved
      /\ job' = [job EXCEPT ![self] = Faces!Void(@)]
      /\ Faces!Prune(r, job', mounted)
      /\ known' = [known EXCEPT ![self] = f]
      /\ overruled' = [overruled EXCEPT ![self] = @ \/ job[self].at \in {"queued", "asked"}]
  BY DEF Faces!Prime, Faces!Definite
<1>2. self \in Hosts /\ FaceTypes /\ FaceSound(self)
  BY <1>1 DEF FaceInv, FaceTypes
<1>3. /\ rec[self] \in FaceRecords /\ job[self] \in FaceJobs /\ saved[self] \in FaceCopies
      /\ known[self] \in Picture \cup {None} /\ overruled[self] \in BOOLEAN
  BY <1>2, HostTypes
<1>4. w \in FaceRecords /\ (w.url = f \/ w.url = 0) /\ w.miss = "none"
  <2>1. CASE f # 0
    <3>1. w = Faces!WithFace(rec[self], f, 0)
      BY <2>1
    <3>2. 0 \in Picture
      BY FaceAssumed
    <3> HIDE DEF w
    <3>3. \A d \in Picture : /\ Faces!WithFace(rec[self], f, d) \in FaceRecords
                            /\ Faces!WithFace(rec[self], f, d).url = f /\ Faces!WithFace(rec[self], f, d).miss = "none"
      BY <1>3, RecordFacts
    <3> QED
      BY <3>1, <3>2, <3>3
  <2>2. CASE f = 0
    <3>1. w = [rec[self] EXCEPT !.url = 0, !.seen = "none", !.miss = "none", !.recent = FALSE, !.digest = 0]
      BY <2>2
    <3> HIDE DEF w
    <3> QED
      BY <1>3, <3>1, FaceAssumed DEF FaceRecords
  <2> QED
    BY <2>1, <2>2
<1> HIDE DEF w
<1>5. x \in FaceRecords /\ x.primed = f /\ (x.url = f \/ x.url = 0) /\ x.miss = "none"
  BY <1>4 DEF FaceRecords
<1> HIDE DEF x
<1>6. r \in [Hosts -> FaceRecords] /\ r[self] = x /\ \A h \in Hosts : h # self => r[h] = rec[h]
  BY <1>2, <1>5 DEF FaceTypes
<1> HIDE DEF r
<1>7. rec' \in [Hosts -> FaceRecords] /\ \A h \in Hosts : rec'[h] = r[h] \/ rec'[h] = Faces!Blank
  BY <1>1, <1>6, Pruned
<1>8. Faces!Copy(f, 0, 0) \in FaceCopies /\ Faces!Void(job[self]) \in FaceJobs
  BY <1>3, FaceShapes, FaceAssumed, VoidFacts
<1>9. FaceTypes'
  <2>1. saved' \in [Hosts -> FaceCopies] /\ job' \in [Hosts -> FaceJobs]
    BY <1>1, <1>2, <1>8 DEF FaceTypes
  <2>2. known' \in [Hosts -> Picture \cup {None}] /\ overruled' \in [Hosts -> BOOLEAN]
    BY <1>1, <1>2, <1>3 DEF FaceTypes
  <2> QED
    BY <1>1, <1>2, <1>7, <2>1, <2>2 DEF FaceTypes
<1>10. FaceSound(self)'
  <2>1. /\ known'[self] = f /\ own' = f /\ self' = self /\ f # None
        /\ job'[self] = Faces!Void(job[self])
        /\ overruled'[self] = (overruled[self] \/ job[self].at \in {"queued", "asked"})
    BY <1>1, <1>2, FaceAssumed DEF FaceTypes
  <2>2. /\ ~saved'[self].broken
        /\ saved'[self].has => saved'[self].face = f
    <3>1. CASE rec[self].primed # f
      <4>1. saved'[self] = Faces!Copy(f, 0, 0)
        BY <1>1, <1>2, <3>1 DEF FaceTypes
      <4> QED
        BY <4>1, FaceShapes, FaceAssumed
    <3>2. CASE rec[self].primed = f
      <4>1. saved' = saved /\ f # None
        BY <1>1, <3>2, FaceAssumed
      <4>2. /\ f = own /\ known[self] \in {own, None} /\ ~saved[self].broken
            /\ saved[self].has => saved[self].face = known[self]
        BY <1>2, <3>2, <4>1 DEF FaceSound
      <4>3. saved[self].face \in Picture
        BY <1>3 DEF FaceCopies
      <4> QED
        BY <4>1, <4>2, <4>3, FaceAssumed
    <3> QED
      BY <3>1, <3>2
  <2>3. /\ rec'[self].url # 0 => rec'[self].url = f
        /\ rec'[self].miss # "absent" /\ (rec'[self].primed # None => rec'[self].primed = f)
    BY <1>2, <1>5, <1>6, <1>7, FaceShapes
  <2>4. overruled'[self] = (job'[self].at \in {"queued", "asked"} /\ job'[self].void)
    <3>1. CASE job[self].at \in {"queued", "asked"}
      BY <1>3, <2>1, <3>1, VoidFacts
    <3>2. CASE job[self].at \notin {"queued", "asked"}
      BY <1>2, <1>3, <2>1, <3>2, VoidFacts DEF FaceSound
    <3> QED
      BY <3>1, <3>2
  <2> QED
    BY <2>1, <2>2, <2>3, <2>4 DEF FaceSound
<1>11. ASSUME NEW h \in Hosts, h # self PROVE FaceSound(h)'
  <2>1. /\ job'[h] = job[h] /\ saved'[h] = saved[h] /\ known'[h] = known[h] /\ overruled'[h] = overruled[h]
        /\ rec'[h] = rec[h] \/ rec'[h] = Faces!Blank
    BY <1>1, <1>2, <1>6, <1>7, <1>11 DEF FaceTypes
  <2> QED
    BY <1>1, <1>11, <2>1, FaceStays
<1>12. ASSUME NEW h \in Hosts, h = self PROVE FaceSound(h)'
  BY <1>1, <1>10, <1>12 DEF FaceSound
<1>13. QED
  BY <1>9, <1>11, <1>12 DEF FaceInv

LEMMA DiscardKeeps == ASSUME FaceInv, NEW h \in Hosts, Faces!Discard(h) PROVE FaceInv'
<1> DEFINE x == [Faces!Failed(rec[h]) EXCEPT !.url = 0, !.seen = "none", !.digest = 0]
           r == [rec EXCEPT ![h] = x]
<1>1. /\ UNCHANGED <<hint, self, own>>
      /\ job' = [job EXCEPT ![h] = Faces!Void(@)]
      /\ saved' = [saved EXCEPT ![h] = Faces!NotSaved]
      /\ Faces!Prune(r, job', mounted)
      /\ known' = [known EXCEPT ![h] = None]
      /\ overruled' = [overruled EXCEPT ![h] = @ \/ job[h].at \in {"queued", "asked"}]
  <2>1. r = [rec EXCEPT ![h] = [Faces!Failed(@) EXCEPT !.url = 0, !.seen = "none", !.digest = 0]]
    OBVIOUS
  <2> HIDE DEF r
  <2> QED
    BY <2>1 DEF Faces!Discard, Faces!Definite, Faces!me
<1>2. FaceTypes /\ FaceSound(h)
  BY DEF FaceInv
<1>3. rec[h] \in FaceRecords /\ job[h] \in FaceJobs /\ overruled[h] \in BOOLEAN
  BY <1>2, HostTypes
<1>4. x \in FaceRecords /\ x.primed = rec[h].primed /\ x.url = 0 /\ x.miss = "failed"
  <2> DEFINE w == Faces!Failed(rec[h])
  <2>1. w \in FaceRecords /\ w.miss = "failed" /\ w.primed = rec[h].primed
    BY <1>3, RecordFacts
  <2>2. x = [w EXCEPT !.url = 0, !.seen = "none", !.digest = 0]
    OBVIOUS
  <2> HIDE DEF w, x
  <2> QED
    BY <2>1, <2>2, FaceAssumed DEF FaceRecords
<1> HIDE DEF x
<1>5. r \in [Hosts -> FaceRecords] /\ r[h] = x /\ \A g \in Hosts : g # h => r[g] = rec[g]
  BY <1>2, <1>4 DEF FaceTypes
<1> HIDE DEF r
<1>6. rec' \in [Hosts -> FaceRecords] /\ \A g \in Hosts : rec'[g] = r[g] \/ rec'[g] = Faces!Blank
  BY <1>1, <1>5, Pruned
<1>7. FaceTypes'
  <2>1. saved' \in [Hosts -> FaceCopies] /\ job' \in [Hosts -> FaceJobs]
    BY <1>1, <1>2, <1>3, FaceShapes, VoidFacts DEF FaceTypes
  <2>2. known' \in [Hosts -> Picture \cup {None}] /\ overruled' \in [Hosts -> BOOLEAN]
    BY <1>1, <1>2, <1>3 DEF FaceTypes
  <2> QED
    BY <1>1, <1>2, <1>6, <2>1, <2>2 DEF FaceTypes
<1>8. FaceSound(h)'
  <2>1. /\ known'[h] = None /\ own' = own /\ self' = self /\ saved'[h] = Faces!NotSaved
        /\ job'[h] = Faces!Void(job[h])
        /\ overruled'[h] = (overruled[h] \/ job[h].at \in {"queued", "asked"})
    BY <1>1, <1>2 DEF FaceTypes
  <2>2. /\ rec'[h].url = 0 /\ rec'[h].miss # "absent"
        /\ rec'[h].primed # None => rec'[h].primed = rec[h].primed
    BY <1>4, <1>5, <1>6, FaceShapes
  <2>3. overruled'[h] = (job'[h].at \in {"queued", "asked"} /\ job'[h].void)
    <3>1. CASE job[h].at \in {"queued", "asked"}
      BY <1>3, <2>1, <3>1, VoidFacts
    <3>2. CASE job[h].at \notin {"queued", "asked"}
      BY <1>2, <1>3, <2>1, <3>2, VoidFacts DEF FaceSound
    <3> QED
      BY <3>1, <3>2
  <2> QED
    BY <1>2, <2>1, <2>2, <2>3, FaceShapes DEF FaceSound
<1>9. ASSUME NEW g \in Hosts, g # h PROVE FaceSound(g)'
  <2>1. /\ job'[g] = job[g] /\ saved'[g] = saved[g] /\ known'[g] = known[g] /\ overruled'[g] = overruled[g]
        /\ rec'[g] = rec[g] \/ rec'[g] = Faces!Blank
    BY <1>1, <1>2, <1>5, <1>6, <1>9 DEF FaceTypes
  <2> QED
    BY <1>1, <2>1, FaceStays
<1>10. QED
  BY <1>7, <1>8, <1>9 DEF FaceInv

LEMMA FaceNextKeeps == FaceInv /\ Faces!Next => FaceInv'
BY RestoredKeeps, MountKeeps, UnmountKeeps, DiscardKeeps, AgeKeeps, AgeSavedKeeps, TakeBatchKeeps, ResolveKeeps,
   NoteKeeps, PrimeKeeps, ShowKeeps, RecoverKeeps, RestartKeeps DEF Faces!Next, Faces!Restores, Picture

LEMMA FacesRun ==
  ASSUME [Next]_vars
  PROVE  Faces!Next \/ UNCHANGED Faces!vars
BY DEF Next, StandStill, vars, faces, Faces!vars, Faces!me, Faces!history

LEMMA FaceHolds == Spec => []FaceInv
<1>1. Init => FaceInv
  BY FaceInit DEF Init
<1>2. FaceInv /\ UNCHANGED Faces!vars => FaceInv'
  BY DEF Faces!vars, Faces!me, Faces!history, FaceInv, FaceTypes, FaceSound
<1>3. FaceInv /\ [Next]_vars => FaceInv'
  BY <1>2, FacesRun, FaceNextKeeps
<1>4. QED
  BY <1>1, <1>3, PTL DEF Spec

LEMMA LastWordHolds == Spec => []Faces!LastWordStands
<1>1. FaceInv => Faces!LastWordStands
  BY DEF FaceInv, FaceSound, Faces!LastWordStands
<1>2. QED
  BY <1>1, FaceHolds, PTL

\* NewestWordStands of MCParts: no older answer undoes the deletion of a reply, a tap that is
\* under way, the last definite word on a face or the refusal of an invitation.
THEOREM NewestHolds == Spec => []NewestWordStands
<1>1. /\ Thread!GoneStaysGone /\ Emoji!TapStands /\ Faces!LastWordStands
      /\ Invited!DeclineStands /\ Invited!JoinedIsNotInvited
      => NewestWordStands
  BY DEF NewestWordStands
<1>2. QED
  BY <1>1, GoneHolds, TapHolds, LastWordHolds, RefusalsHold, PTL

---------------------------------------------------------------------------
(* The feed. *)

LEMMA FeedAssumed == PageSize \in Nat \ {0} /\ MaxPosts \in Nat
BY PartsAssumption DEF Feeds!FeedAssumption

LEMMA FeedCounts ==
  ASSUME NEW S \in SUBSET (1..MaxPosts), NEW T \in SUBSET S
  PROVE  /\ Feeds!Cardinality(S) \in Nat /\ Feeds!Cardinality(T) \in Nat
         /\ Feeds!Cardinality(T) <= Feeds!Cardinality(S)
         /\ Feeds!Cardinality({}) = 0
<1>1. IsFiniteSet(1..MaxPosts)
  BY FeedAssumed, FS_Interval
<1>2. IsFiniteSet(S)
  BY <1>1, FS_Subset
<1>3. IsFiniteSet(T) /\ Cardinality(T) <= Cardinality(S)
  BY <1>2, FS_Subset
<1>4. Cardinality(S) \in Nat /\ Cardinality(T) \in Nat /\ Cardinality({}) = 0
  BY <1>2, <1>3, FS_CardinalityType, FS_EmptySet
<1>5. \A X : Feeds!Cardinality(X) = Cardinality(X)
  BY DEF Feeds!Cardinality, Cardinality
<1>6. QED
  BY <1>3, <1>4, <1>5

LEMMA OldestFacts ==
  ASSUME NEW S \in SUBSET Nat, S # {}
  PROVE  Feeds!Oldest(S) \in S /\ \A q \in S : Feeds!Oldest(S) <= q
<1>1. \E p \in S : \A q \in S : p <= q
  BY LeastIndex
<1>2. QED
  BY <1>1 DEF Feeds!Oldest

LEMMA NewestExists ==
  ASSUME NEW S \in SUBSET (1..MaxPosts), S # {}
  PROVE  \E p \in S : \A q \in S : q <= p
<1> DEFINE T == {MaxPosts - p : p \in S}
<1>1. T \in SUBSET Nat /\ T # {}
  <2>1. \A p \in 1..MaxPosts : MaxPosts - p \in Nat
    BY FeedAssumed
  <2> QED
    BY <2>1
<1>2. PICK t \in T : \A u \in T : t <= u
  BY <1>1, LeastIndex
<1>3. PICK p \in S : t = MaxPosts - p
  BY <1>2
<1>4. ASSUME NEW q \in S PROVE q <= p
  <2>1. MaxPosts - q \in T
    OBVIOUS
  <2>2. MaxPosts - p <= MaxPosts - q
    BY <1>2, <1>3, <2>1
  <2> QED
    BY <2>2, FeedAssumed
<1>5. QED
  BY <1>4

(* The posts of a page are the newest before its cursor. *)
LEMMA PageFacts ==
  ASSUME NEW b \in SUBSET (1..MaxPosts), NEW c \in Nat
  PROVE  /\ Feeds!Page(b, c) \in [posts : SUBSET (1..MaxPosts), next : 0..MaxPosts]
         /\ Feeds!Page(b, c).posts \subseteq b /\ \A p \in Feeds!Page(b, c).posts : p < c
         /\ Feeds!Page(b, c).next \in Feeds!Page(b, c).posts \cup {0}
         /\ Feeds!Page(b, c).next # 0 => \A q \in Feeds!Page(b, c).posts : Feeds!Page(b, c).next <= q
         /\ \A p \in b : p < c => \/ p \in Feeds!Page(b, c).posts
                                  \/ Feeds!Page(b, c).next # 0 /\ p < Feeds!Page(b, c).next
<1> DEFINE before == {p \in b : p < c}
           newer(p) == {q \in before : q > p}
           posts == {p \in before : Feeds!Cardinality(newer(p)) < PageSize}
           next == IF posts # before THEN Feeds!Oldest(posts) ELSE 0
<1>1. Feeds!Page(b, c) = [posts |-> posts, next |-> next]
  BY DEF Feeds!Page
<1>2. posts \subseteq before /\ before \in SUBSET (1..MaxPosts) /\ before \subseteq Nat
  <2>1. 1..MaxPosts \subseteq Nat
    BY FeedAssumed
  <2>2. posts \subseteq before /\ before \subseteq b
    OBVIOUS
  <2> HIDE DEF posts, before
  <2> QED
    BY <2>1, <2>2
<1>3. ASSUME NEW p \in before, p \notin posts, NEW q \in posts PROVE p < q
  <2>1. SUFFICES ASSUME ~(p < q) PROVE FALSE
    OBVIOUS
  <2>2. p \in Nat /\ q \in Nat /\ q \in before
    BY <1>2
  <2>3. newer(p) \subseteq newer(q)
    BY <1>2, <2>1, <2>2
  <2>4. newer(q) \in SUBSET (1..MaxPosts)
    BY <1>2
  <2>5. /\ Feeds!Cardinality(newer(p)) \in Nat /\ Feeds!Cardinality(newer(q)) \in Nat
        /\ Feeds!Cardinality(newer(p)) <= Feeds!Cardinality(newer(q))
    BY <2>3, <2>4, FeedCounts
  <2>6. Feeds!Cardinality(newer(q)) < PageSize /\ ~(Feeds!Cardinality(newer(p)) < PageSize)
    BY <1>3
  <2> HIDE DEF newer
  <2> QED
    BY <2>5, <2>6, FeedAssumed
<1>4. ASSUME posts # before PROVE posts # {}
  <2>1. before # {}
    BY <1>2, <1>4
  <2>2. PICK m \in before : \A q \in before : q <= m
    BY <1>2, <2>1, NewestExists
  <2>3. newer(m) = {}
    BY <1>2, <2>2
  <2>4. Feeds!Cardinality(newer(m)) = 0
    BY <2>3, FeedCounts
  <2> QED
    BY <2>2, <2>4, FeedAssumed
<1> HIDE DEF posts, before
<1>5. /\ next \in posts \cup {0}
      /\ next # 0 => \A q \in posts : next <= q
      /\ posts # before => next # 0
  <2>1. CASE posts # before
    <3>1. Feeds!Oldest(posts) \in posts /\ \A q \in posts : Feeds!Oldest(posts) <= q
      BY <1>2, <1>4, <2>1, OldestFacts
    <3> QED
      BY <1>2, <2>1, <3>1
  <2>2. CASE posts = before
    BY <2>2
  <2> QED
    BY <2>1, <2>2
<1> HIDE DEF next
<1>6. ASSUME NEW p \in before PROVE p \in posts \/ (next # 0 /\ p < next)
  BY <1>3, <1>5, <1>6
<1>7. posts \in SUBSET (1..MaxPosts) /\ next \in 0..MaxPosts
  BY <1>2, <1>5, FeedAssumed
<1>8. posts \subseteq b /\ (\A p \in posts : p < c) /\ \A p \in b : p < c => p \in before
  BY <1>2 DEF before
<1>9. /\ Feeds!Page(b, c).posts = posts /\ Feeds!Page(b, c).next = next
      /\ Feeds!Page(b, c) \in [posts : SUBSET (1..MaxPosts), next : 0..MaxPosts]
  BY <1>1, <1>7
<1>10. QED
  BY <1>5, <1>6, <1>8, <1>9

(* A deletion brings older posts to the first page, and takes none from it. *)
LEMMA TopGrows ==
  ASSUME NEW b \in SUBSET (1..MaxPosts), NEW d, NEW c \in Nat
  PROVE  Feeds!Page(b, c).posts \ {d} \subseteq Feeds!Page(b \ {d}, c).posts
<1> DEFINE newer(s, p) == {q \in {x \in s : x < c} : q > p}
<1>1. \A s : Feeds!Page(s, c).posts = {p \in {x \in s : x < c} : Feeds!Cardinality(newer(s, p)) < PageSize}
  BY DEF Feeds!Page
<1>2. SUFFICES ASSUME NEW p \in Feeds!Page(b, c).posts, p # d PROVE p \in Feeds!Page(b \ {d}, c).posts
  OBVIOUS
<1>3. p \in {x \in b : x < c} /\ Feeds!Cardinality(newer(b, p)) < PageSize
  BY <1>1, <1>2
<1>4. newer(b \ {d}, p) \subseteq newer(b, p) /\ newer(b, p) \in SUBSET (1..MaxPosts)
  OBVIOUS
<1>5. /\ Feeds!Cardinality(newer(b, p)) \in Nat /\ Feeds!Cardinality(newer(b \ {d}, p)) \in Nat
      /\ Feeds!Cardinality(newer(b \ {d}, p)) <= Feeds!Cardinality(newer(b, p))
  BY <1>4, FeedCounts
<1> HIDE DEF newer
<1>6. Feeds!Cardinality(newer(b \ {d}, p)) < PageSize
  BY <1>3, <1>5, FeedAssumed
<1>7. QED
  BY <1>1, <1>2, <1>3, <1>6

LEMMA FeedBounds ==
  ASSUME FeedTypes
  PROVE  /\ board \in SUBSET (1..MaxPosts) /\ board \subseteq Nat /\ made \in Nat
         /\ Feeds!Everything \in Nat /\ \A p \in 1..made : p < Feeds!Everything
         /\ 0 \in 0..Feeds!Everything /\ Feeds!Everything \in 0..Feeds!Everything
         /\ made \in 0..Feeds!Everything /\ made <= MaxPosts
<1>1. MaxPosts \in Nat /\ made \in 0..MaxPosts /\ board \subseteq 1..made
  BY FeedAssumed DEF FeedTypes
<1>2. made \in Nat /\ made <= MaxPosts /\ Feeds!Everything = MaxPosts + 1
  BY <1>1 DEF Feeds!Everything
<1>3. 1..made \subseteq 1..MaxPosts /\ 1..made \subseteq Nat
  BY <1>1, <1>2
<1>4. board \in SUBSET (1..MaxPosts) /\ board \subseteq Nat
  BY <1>1, <1>3
<1>5. QED
  BY <1>1, <1>2, <1>4

(* The page of a request that is answered now. *)
LEMMA PageNow ==
  ASSUME FeedTypes, NEW c \in 0..Feeds!Everything
  PROVE  /\ PageSound(Feeds!Page(board, c))
         /\ Feeds!Page(board, c) \in [posts : SUBSET (1..MaxPosts), next : 0..MaxPosts]
         /\ \A p \in Feeds!Page(board, c).posts : p \in board /\ p < c
         /\ \A p \in board : p < c => \/ p \in Feeds!Page(board, c).posts
                                      \/ Feeds!Page(board, c).next # 0 /\ p < Feeds!Page(board, c).next
<1>1. board \in SUBSET (1..MaxPosts) /\ c \in Nat
  BY FeedBounds
<1>2. board \subseteq 1..made
  BY DEF FeedTypes
<1>3. QED
  BY <1>1, <1>2, PageFacts DEF PageSound

LEMMA NewerPosts ==
  ASSUME FeedTypes, BoardChanges, NEW posts \in SUBSET (1..made), NEW p \in board'
  PROVE  \/ p \in board /\ (p \in Feeds!After(posts) => p \in Feeds!After(posts)')
         \/ p = made + 1 /\ p \in Feeds!After(posts)'
<1>1. made \in Nat
  BY FeedBounds
<1>2. \A q \in posts : q \in 1..made /\ made + 1 > q
  BY <1>1
<1>3. CASE p \in board
  BY <1>3 DEF Feeds!After
<1>4. CASE p \notin board
  BY <1>2, <1>4 DEF BoardChanges, Feeds!After
<1>5. QED
  BY <1>3, <1>4

LEMMA PageKept == ASSUME FeedTypes, BoardChanges, NEW g, PageSound(g) PROVE PageSound(g)'
<1>1. made \in Nat /\ made' \in Nat /\ made <= made'
  BY FeedBounds DEF BoardChanges
<1>2. 1..made \subseteq 1..made'
  BY <1>1
<1>3. QED
  BY <1>2 DEF PageSound

LEMMA RequestKept ==
  ASSUME FeedTypes, BoardChanges, NEW r \in Requests, RequestSound(r)
  PROVE  RequestSound(r)'
<1>1. made \in Nat /\ made' \in Nat /\ made <= made'
  BY FeedBounds DEF BoardChanges
<1>2. /\ r.kind # "earlier" => r.at = Feeds!Everything
      /\ r.kind = "earlier" => r.at <= made'
  BY <1>1, FeedBounds DEF RequestSound, Requests
<1>3. ASSUME r.is = "answered", NEW p \in board', p < r.at
      PROVE  \/ p \in r.page.posts
             \/ r.page.next # 0 /\ p < r.page.next
             \/ r.kind # "earlier" /\ p \in Feeds!After(r.page.posts)'
  <2>1. r.page.posts \in SUBSET (1..made)
    BY <1>3 DEF RequestSound, PageSound
  <2>2. CASE p \in board /\ (p \in Feeds!After(r.page.posts) => p \in Feeds!After(r.page.posts)')
    BY <1>3, <2>2 DEF RequestSound
  <2>3. CASE p = made + 1 /\ p \in Feeds!After(r.page.posts)'
    <3>1. r.kind # "earlier"
      <4>1. SUFFICES ASSUME r.kind = "earlier" PROVE FALSE
        OBVIOUS
      <4>2. r.at <= made /\ r.at \in Nat
        BY <4>1, FeedBounds DEF RequestSound, Requests
      <4> QED
        BY <1>1, <1>3, <2>3, <4>2
    <3> QED
      BY <2>3, <3>1
  <2> QED
    BY <2>1, <2>2, <2>3, NewerPosts
<1>4. r.is = "answered" => PageSound(r.page)'
  BY PageKept DEF RequestSound
<1>5. QED
  BY <1>2, <1>3, <1>4 DEF RequestSound, Feeds!Everything

LEMMA SearchKept ==
  ASSUME FeedTypes, SearchSound, BoardChanges, search' = search
  PROVE  SearchSound'
<1>1. made \in Nat /\ made' \in Nat /\ made <= made' /\ search.found \in SUBSET (1..made) /\ search.at \in Nat
  BY FeedBounds DEF BoardChanges, FeedTypes
<1>2. search'.found # {} => search'.at <= made'
  BY <1>1 DEF SearchSound
<1>3. ASSUME search.on, NEW p \in board'
      PROVE  p \in search.found \/ p \in Feeds!After(search.found)' \/ (search.at # 0 /\ p < search.at)
  <2>1. CASE p \in board /\ (p \in Feeds!After(search.found) => p \in Feeds!After(search.found)')
    BY <1>3, <2>1 DEF SearchSound
  <2> QED
    BY <1>1, <2>1, NewerPosts
<1>4. QED
  BY <1>2, <1>3 DEF SearchSound

(* The requests: as they were, one more, one less, or another one in place of one. *)
LEMMA ElementsFacts ==
  ASSUME NEW S, NEW s \in Seq(S)
  PROVE  /\ Elements(s) \subseteq S
         /\ \A e \in S : Append(s, e) \in Seq(S) /\ Elements(Append(s, e)) \subseteq Elements(s) \cup {e}
         /\ \A k \in DOMAIN s : Without(s, k) \in Seq(S) /\ Elements(Without(s, k)) \subseteq Elements(s)
         /\ \A k \in DOMAIN s, e \in S :
              [s EXCEPT ![k] = e] \in Seq(S) /\ Elements([s EXCEPT ![k] = e]) \subseteq Elements(s) \cup {e}
<1>1. Len(s) \in Nat /\ DOMAIN s = 1..Len(s) /\ \A k \in 1..Len(s) : s[k] \in S /\ s[k] \in Elements(s)
  BY LenProperties, ElementOfSeq DEF Elements
<1>2. Elements(s) \subseteq S
  BY <1>1 DEF Elements
<1>3. ASSUME NEW e \in S
      PROVE  Append(s, e) \in Seq(S) /\ Elements(Append(s, e)) \subseteq Elements(s) \cup {e}
  <2> DEFINE t == Append(s, e)
  <2>1. /\ t \in Seq(S) /\ Len(t) = Len(s) + 1 /\ t[Len(s) + 1] = e
        /\ \A k \in 1..Len(s) : t[k] = s[k]
    BY AppendProperties
  <2>2. DOMAIN t = 1..(Len(s) + 1)
    BY <2>1, LenProperties
  <2> HIDE DEF t
  <2>3. ASSUME NEW k \in DOMAIN t PROVE t[k] \in Elements(s) \cup {e}
    <3>1. k \in 1..Len(s) \/ k = Len(s) + 1
      BY <1>1, <2>2, <2>3
    <3> QED
      BY <1>1, <2>1, <3>1
  <2>4. Elements(t) \subseteq Elements(s) \cup {e}
    BY <2>3 DEF Elements
  <2> QED
    BY <2>1, <2>4 DEF t
<1>4. ASSUME NEW k \in DOMAIN s
      PROVE  Without(s, k) \in Seq(S) /\ Elements(Without(s, k)) \subseteq Elements(s)
  <2> DEFINE t == Without(s, k)
  <2>1. /\ t \in Seq(S) /\ Len(t) = Len(s) - 1
        /\ \A j \in 1..(Len(s) - 1) : t[j] = IF j < k THEN s[j] ELSE s[j + 1]
    BY <1>1, WithoutFacts
  <2>2. DOMAIN t = 1..(Len(s) - 1)
    BY <2>1, LenProperties
  <2> HIDE DEF t
  <2>3. ASSUME NEW j \in DOMAIN t PROVE t[j] \in Elements(s)
    <3>1. j \in 1..Len(s) /\ j + 1 \in 1..Len(s) /\ j \in 1..(Len(s) - 1)
      BY <1>1, <2>2, <2>3
    <3> QED
      BY <1>1, <2>1, <3>1
  <2>4. Elements(t) \subseteq Elements(s)
    BY <2>3 DEF Elements
  <2> QED
    BY <2>1, <2>4 DEF t
<1>5. ASSUME NEW k \in DOMAIN s, NEW e \in S
      PROVE  [s EXCEPT ![k] = e] \in Seq(S) /\ Elements([s EXCEPT ![k] = e]) \subseteq Elements(s) \cup {e}
  <2> DEFINE t == [s EXCEPT ![k] = e]
  <2>1. /\ t \in Seq(S) /\ Len(t) = Len(s)
        /\ \A j \in 1..Len(s) : t[j] = IF j = k THEN e ELSE s[j]
    BY <1>1, ExceptSeq
  <2>2. DOMAIN t = 1..Len(s)
    BY <2>1, LenProperties
  <2> HIDE DEF t
  <2>3. Elements(t) \subseteq Elements(s) \cup {e}
    BY <1>1, <2>1, <2>2 DEF Elements
  <2> QED
    BY <2>1, <2>3 DEF t
<1>6. QED
  BY <1>2, <1>3, <1>4, <1>5

LEMMA AsksKept ==
  ASSUME FeedTypes, AsksSound, BoardChanges
  PROVE  /\ Elements(asks') \subseteq Elements(asks) => AsksSound'
         /\ \A n : RequestSound(n)' /\ Elements(asks') \subseteq Elements(asks) \cup {n} => AsksSound'
<1>1. ASSUME NEW r \in Elements(asks) PROVE RequestSound(r)'
  <2>1. r \in Requests
    BY <1>1, ElementsFacts DEF FeedTypes
  <2>2. RequestSound(r)
    BY <1>1 DEF AsksSound
  <2> QED
    BY <2>1, <2>2, RequestKept
<1>2. QED
  BY <1>1 DEF AsksSound

LEMMA AskFacts ==
  ASSUME FeedTypes, AsksSound, UNCHANGED <<board, made>>,
         NEW kind \in {"poll", "full", "earlier"}, NEW c \in 0..Feeds!Everything, Feeds!Ask(kind, c),
         IF kind = "earlier" THEN c <= made ELSE c = Feeds!Everything
  PROVE  asks' \in Seq(Requests) /\ AsksSound'
<1>0. PICK r : r = Feeds!Request(kind, c)
  OBVIOUS
<1>1. r \in Requests /\ r.kind = kind /\ r.at = c /\ r.is = "sent"
  BY <1>0, FeedAssumed DEF Feeds!Request, Feeds!NoPage, Requests
<1>2. RequestSound(r)'
  BY <1>1, FeedBounds DEF RequestSound, Feeds!Everything
<1>3. asks' = Append(asks, r)
  BY <1>0 DEF Feeds!Ask
<1>4. asks \in Seq(Requests)
  BY DEF FeedTypes
<1>5. asks' \in Seq(Requests) /\ Elements(asks') \subseteq Elements(asks) \cup {r}
  BY <1>1, <1>3, <1>4, ElementsFacts
<1>6. AsksSound'
  <2>1. BoardChanges
    BY DEF BoardChanges
  <2> QED
    BY <1>2, <1>5, <2>1, AsksKept
<1>7. QED
  BY <1>5, <1>6

LEMMA DropFacts ==
  ASSUME FeedTypes, AsksSound, UNCHANGED <<board, made>>, NEW k \in DOMAIN asks, Feeds!Drop(k)
  PROVE  asks' \in Seq(Requests) /\ AsksSound'
<1>1. asks' = Without(asks, k) /\ asks \in Seq(Requests)
  BY DEF Feeds!Drop, Feeds!RemoveAt, Without, FeedTypes
<1>2. asks' \in Seq(Requests) /\ Elements(asks') \subseteq Elements(asks)
  BY <1>1, ElementsFacts
<1>3. AsksSound'
  <2>1. BoardChanges
    BY DEF BoardChanges
  <2> QED
    BY <1>2, <2>1, AsksKept
<1>4. QED
  BY <1>2, <1>3

LEMMA SentFacts ==
  ASSUME FeedTypes, AsksSound, NEW k \in DOMAIN asks
  PROVE  /\ asks[k] \in Requests /\ k \in 1..Len(asks) /\ asks[k].at \in 0..Feeds!Everything
         /\ asks[k].kind # "earlier" => asks[k].at = Feeds!Everything
         /\ asks[k].kind = "earlier" => asks[k].at <= made
         /\ asks[k].is = "answered" =>
              /\ PageSound(asks[k].page)
              /\ \A p \in board : p < asks[k].at =>
                   \/ p \in asks[k].page.posts
                   \/ asks[k].page.next # 0 /\ p < asks[k].page.next
                   \/ asks[k].kind # "earlier" /\ p \in Feeds!After(asks[k].page.posts)
<1>1. asks[k] \in Elements(asks) /\ asks \in Seq(Requests)
  BY DEF Elements, FeedTypes
<1>2. asks[k] \in Requests /\ k \in 1..Len(asks)
  BY <1>1, ElementsFacts, LenProperties
<1>3. asks[k].at \in 0..Feeds!Everything
  BY <1>2 DEF Requests
<1>4. RequestSound(asks[k])
  BY <1>1 DEF AsksSound
<1>5. QED
  BY <1>2, <1>3, <1>4 DEF RequestSound

LEMMA FeedInit == ASSUME Feeds!Init PROVE FeedInv
<1>1. /\ made \in 0..MaxPosts /\ board = 1..made /\ landing = {} /\ feed = {} /\ cursor = 0
      /\ cache \in {Feeds!Page(1..n, Feeds!Everything) : n \in 0..made}
      /\ asks = <<Feeds!Request("boot", Feeds!Everything)>> /\ search = Feeds!NoSearch
  BY DEF Feeds!Init
<1>2. PageSound(cache)
  <2>1. PICK n \in 0..made : cache = Feeds!Page(1..n, Feeds!Everything)
    BY <1>1
  <2>2. made \in Nat /\ made <= MaxPosts /\ MaxPosts \in Nat /\ n \in Nat /\ n <= made
    BY <1>1, FeedAssumed
  <2>3. 1..n \subseteq 1..made /\ 1..n \in SUBSET (1..MaxPosts) /\ Feeds!Everything \in Nat
    BY <2>2 DEF Feeds!Everything
  <2> QED
    BY <2>1, <2>3, PageFacts DEF PageSound
<1>3. PICK r : r = Feeds!Request("boot", Feeds!Everything)
  OBVIOUS
<1>4. r \in Requests /\ r.kind = "boot" /\ r.is = "sent" /\ r.at = Feeds!Everything
  BY <1>3, FeedAssumed DEF Feeds!Request, Feeds!NoPage, Requests, Feeds!Everything
<1>5. asks \in Seq(Requests) /\ AsksSound
  <2>1. asks = <<r>>
    BY <1>1, <1>3
  <2>2. RequestSound(r)
    BY <1>4 DEF RequestSound
  <2>3. asks \in Seq(Requests) /\ DOMAIN asks = {1} /\ asks[1] = r
    BY <1>4, <2>1
  <2> QED
    BY <2>2, <2>3 DEF AsksSound, Elements
<1>6. search \in [on : BOOLEAN, target : 0..MaxPosts, found : SUBSET (1..made), at : 0..Feeds!Everything]
      /\ search.found = {} /\ ~search.on
  BY <1>1, FeedAssumed DEF Feeds!NoSearch, Feeds!Everything
<1>7. SearchSound
  BY <1>6 DEF SearchSound
<1>8. FeedTypes
  BY <1>1, <1>2, <1>5, <1>6, FeedAssumed DEF FeedTypes
<1>9. QED
  BY <1>5, <1>7, <1>8 DEF FeedInv

(* The host's board changes, and what is shown does not. *)
LEMMA HostKeepsFeed ==
  ASSUME FeedInv, BoardChanges, UNCHANGED <<feed, cursor, cache, asks, search>>, made' \in 0..MaxPosts,
         board' \subseteq 1..made', landing' \subseteq 1..made'
  PROVE  FeedInv'
<1>1. FeedTypes /\ AsksSound /\ SearchSound
  BY DEF FeedInv
<1>2. made \in Nat /\ made' \in Nat /\ made <= made'
  BY <1>1, FeedBounds DEF BoardChanges
<1>3. PageSound(cache)'
  <2>1. PICK g : g = cache
    OBVIOUS
  <2>2. PageSound(g)
    BY <1>1, <2>1 DEF FeedTypes
  <2>3. PageSound(g)'
    BY <1>1, <2>2, PageKept
  <2> QED
    BY <2>1, <2>3 DEF PageSound
<1>4. 1..made \subseteq 1..made' /\ 0..made \subseteq 0..made'
  BY <1>2
<1>5. search' \in [on : BOOLEAN, target : 0..MaxPosts, found : SUBSET (1..made'), at : 0..Feeds!Everything]
  BY <1>1, <1>4 DEF FeedTypes
<1>6. FeedTypes'
  BY <1>1, <1>3, <1>4, <1>5 DEF FeedTypes, Feeds!Everything
<1>7. AsksSound' /\ SearchSound'
  BY <1>1, AsksKept, SearchKept
<1>8. QED
  BY <1>6, <1>7 DEF FeedInv

LEMMA KeepCreated == ASSUME FeedInv, NEW m \in BOOLEAN, Feeds!Create(m) PROVE FeedInv'
<1>1. /\ made < MaxPosts /\ made' = made + 1 /\ board' = board \cup {made'}
      /\ landing' = landing \/ landing' = landing \cup {made'}
      /\ UNCHANGED <<feed, cursor, cache, asks, search>>
  BY DEF Feeds!Create, Feeds!view
<1>2. /\ made \in 0..MaxPosts /\ board \subseteq 1..made /\ landing \subseteq 1..made /\ MaxPosts \in Nat
  BY FeedAssumed DEF FeedInv, FeedTypes
<1>3. made' \in 0..MaxPosts /\ 1..made \subseteq 1..made' /\ made' \in 1..made'
  BY <1>1, <1>2
<1>4. BoardChanges
  BY <1>1 DEF BoardChanges
<1>5. QED
  BY <1>1, <1>2, <1>3, <1>4, HostKeepsFeed

LEMMA KeepDeleted == ASSUME FeedInv, NEW p, Feeds!Delete(p) PROVE FeedInv'
<1>1. /\ made' = made /\ board' = board \ {p} /\ landing' = landing
      /\ UNCHANGED <<feed, cursor, cache, asks, search>>
  BY DEF Feeds!Delete, Feeds!view
<1>2. /\ made \in 0..MaxPosts /\ board \subseteq 1..made /\ landing \subseteq 1..made
  BY DEF FeedInv, FeedTypes
<1>3. BoardChanges
  BY <1>1 DEF BoardChanges
<1>4. QED
  BY <1>1, <1>2, <1>3, HostKeepsFeed

(* The board stays as it is. *)
LEMMA ViewKeeps ==
  ASSUME FeedInv, UNCHANGED <<board, made>>, landing' \subseteq landing, feed' \subseteq 1..made,
         cursor' \in 0..made, cache' = cache \/ PageSound(cache'),
         asks' \in Seq(Requests), AsksSound', SearchSound',
         search' \in [on : BOOLEAN, target : 0..MaxPosts, found : SUBSET (1..made), at : 0..Feeds!Everything]
  PROVE  FeedInv'
<1>1. PageSound(cache)'
  BY DEF FeedInv, FeedTypes, PageSound
<1>2. FeedTypes'
  BY <1>1 DEF FeedInv, FeedTypes, Feeds!Everything
<1>3. QED
  BY <1>2 DEF FeedInv

LEMMA KeepServed == ASSUME FeedInv, NEW k \in DOMAIN asks, Feeds!Serve(k) PROVE FeedInv'
<1>1. FeedTypes /\ AsksSound /\ SearchSound
  BY DEF FeedInv
<1>2. PICK r : r = asks[k]
  OBVIOUS
<1>3. PICK e : e = [r EXCEPT !.is = "answered", !.page = Feeds!Page(board, r.at)]
  OBVIOUS
<1>4. /\ r \in Requests /\ k \in 1..Len(asks) /\ r.at \in 0..Feeds!Everything
      /\ r.kind # "earlier" => r.at = Feeds!Everything
      /\ r.kind = "earlier" => r.at <= made
  BY <1>1, <1>2, SentFacts
<1>5. /\ PageSound(Feeds!Page(board, r.at))
      /\ Feeds!Page(board, r.at) \in [posts : SUBSET (1..MaxPosts), next : 0..MaxPosts]
      /\ \A p \in board : p < r.at => \/ p \in Feeds!Page(board, r.at).posts
                                      \/ Feeds!Page(board, r.at).next # 0 /\ p < Feeds!Page(board, r.at).next
  BY <1>1, <1>4, PageNow
<1>6. /\ e \in Requests /\ e.kind = r.kind /\ e.at = r.at /\ e.is = "answered"
      /\ e.page = Feeds!Page(board, r.at)
  BY <1>3, <1>4, <1>5 DEF Requests
<1>7. UNCHANGED <<board, made, landing, feed, cursor, cache, search>>
  BY DEF Feeds!Serve, Feeds!service, Feeds!view
<1>8. asks' = [asks EXCEPT ![k] = e]
  BY <1>2, <1>3 DEF Feeds!Serve
<1>9. asks' \in Seq(Requests) /\ Elements(asks') \subseteq Elements(asks) \cup {e}
  BY <1>1, <1>6, <1>8, ElementsFacts DEF FeedTypes
<1>10. RequestSound(e)
  BY <1>4, <1>5, <1>6 DEF RequestSound
<1>11. RequestSound(e)'
  BY <1>7, <1>10 DEF RequestSound, PageSound, Feeds!After, Feeds!Everything
<1>12. BoardChanges
  BY <1>7 DEF BoardChanges
<1>13. AsksSound' /\ SearchSound'
  BY <1>1, <1>7, <1>9, <1>11, <1>12, AsksKept, SearchKept
<1>14. QED
  BY <1>1, <1>7, <1>9, <1>13, ViewKeeps DEF FeedTypes

LEMMA PageTyped ==
  ASSUME FeedTypes, NEW g, PageSound(g)
  PROVE  g.posts \subseteq 1..made /\ g.next \in 0..made
<1>1. made \in Nat
  BY FeedBounds
<1>2. g.posts \subseteq 1..made /\ g.next \in g.posts \cup {0}
  BY DEF PageSound
<1>3. QED
  BY <1>1, <1>2

LEMMA KeepAsking == ASSUME FeedInv, Feeds!Poll \/ Feeds!Reload \/ Feeds!LoadEarlier PROVE FeedInv'
<1>1. FeedTypes /\ AsksSound /\ SearchSound
  BY DEF FeedInv
<1>2. UNCHANGED <<board, made, landing, feed, cursor, cache, search>>
  BY DEF Feeds!Poll, Feeds!Reload, Feeds!LoadEarlier, Feeds!service, Feeds!view
<1>3. PICK kind \in {"poll", "full", "earlier"}, c \in 0..Feeds!Everything :
        /\ Feeds!Ask(kind, c)
        /\ IF kind = "earlier" THEN c <= made ELSE c = Feeds!Everything
  <2>1. cursor \in 0..Feeds!Everything /\ cursor <= made /\ Feeds!Everything \in 0..Feeds!Everything
    BY <1>1, FeedBounds DEF FeedTypes
  <2> QED
    BY <2>1 DEF Feeds!Poll, Feeds!Reload, Feeds!LoadEarlier
<1>4. asks' \in Seq(Requests) /\ AsksSound'
  BY <1>1, <1>2, <1>3, AskFacts
<1>5. SearchSound'
  BY <1>1, <1>2, SearchKept DEF BoardChanges
<1>6. QED
  BY <1>1, <1>2, <1>4, <1>5, ViewKeeps DEF FeedTypes

LEMMA AcceptedFacts ==
  ASSUME FeedInv, NEW k \in DOMAIN asks, Feeds!Accept(k)
  PROVE  /\ UNCHANGED <<board, made, landing, search>> /\ Feeds!Drop(k) /\ asks[k].is = "answered"
         /\ asks[k].kind # "earlier" /\ cache' = asks[k].page
         /\ IF asks[k].kind = "poll" THEN feed' = Feeds!Reconcile(asks[k].page, feed)
            ELSE feed' = asks[k].page.posts
         /\ IF asks[k].kind = "poll" /\ ~(Feeds!Cardinality(asks[k].page.posts) < PageSize) THEN cursor' = cursor
            ELSE cursor' = asks[k].page.next
BY DEF Feeds!Accept, Feeds!AcceptFeed, Feeds!MovesCursor, Feeds!service

LEMMA KeepAccepted == ASSUME FeedInv, NEW k \in DOMAIN asks, Feeds!Accept(k) PROVE FeedInv'
<1>1. FeedTypes /\ AsksSound /\ SearchSound
  BY DEF FeedInv
<1>2. PageSound(asks[k].page)
  BY <1>1, AcceptedFacts, SentFacts
<1>3. feed \subseteq 1..made /\ cursor \in 0..made /\ made \in Nat
  BY <1>1, FeedBounds DEF FeedTypes
<1>4. feed' \subseteq 1..made
  BY <1>2, <1>3, AcceptedFacts DEF PageSound, Feeds!Reconcile
<1>5. cursor' \in 0..made
  BY <1>2, <1>3, AcceptedFacts DEF PageSound
<1>6. asks' \in Seq(Requests) /\ AsksSound'
  BY <1>1, AcceptedFacts, DropFacts
<1>7. SearchSound'
  BY <1>1, AcceptedFacts, SearchKept DEF BoardChanges
<1>8. QED
  BY <1>1, <1>2, <1>4, <1>5, <1>6, <1>7, AcceptedFacts, ViewKeeps DEF FeedTypes

LEMMA KeepEarlier == ASSUME FeedInv, NEW k \in DOMAIN asks, Feeds!AcceptEarlier(k) PROVE FeedInv'
<1>1. FeedTypes /\ AsksSound /\ SearchSound
  BY DEF FeedInv
<1>2. /\ asks[k].is = "answered" /\ feed' = feed \cup asks[k].page.posts /\ cursor' = asks[k].page.next
      /\ Feeds!Drop(k) /\ UNCHANGED <<board, made, landing, cache, search>>
  BY DEF Feeds!AcceptEarlier, Feeds!service
<1>3. PageSound(asks[k].page)
  BY <1>1, <1>2, SentFacts
<1>4. feed' \subseteq 1..made /\ cursor' \in 0..made
  <2>1. feed \subseteq 1..made
    BY <1>1 DEF FeedTypes
  <2>2. asks[k].page.posts \subseteq 1..made /\ asks[k].page.next \in 0..made
    BY <1>1, <1>3, PageTyped
  <2> QED
    BY <1>2, <2>1, <2>2
<1>5. asks' \in Seq(Requests) /\ AsksSound'
  BY <1>1, <1>2, DropFacts
<1>6. SearchSound'
  BY <1>1, <1>2, SearchKept DEF BoardChanges
<1>7. QED
  BY <1>1, <1>2, <1>4, <1>5, <1>6, ViewKeeps DEF FeedTypes

LEMMA KeepFailed == ASSUME FeedInv, NEW k \in DOMAIN asks, Feeds!Fail(k) PROVE FeedInv'
<1>1. FeedTypes /\ AsksSound /\ SearchSound
  BY DEF FeedInv
<1>2. UNCHANGED <<board, made, landing, feed, cursor, cache, search>>
  BY DEF Feeds!Fail, Feeds!service, Feeds!view
<1>3. PICK e : e = Feeds!Request("full", Feeds!Everything)
  OBVIOUS
<1>4. e \in Requests /\ e.kind = "full" /\ e.is = "sent" /\ e.at = Feeds!Everything
  BY <1>3, FeedAssumed DEF Feeds!Request, Feeds!NoPage, Requests, Feeds!Everything
<1>5. asks' \in Seq(Requests) /\ AsksSound'
  <2>1. CASE Feeds!Drop(k)
    BY <1>1, <1>2, <2>1, DropFacts
  <2>2. CASE asks' = [asks EXCEPT ![k] = e]
    <3>1. asks' \in Seq(Requests) /\ Elements(asks') \subseteq Elements(asks) \cup {e}
      BY <1>1, <1>4, <2>2, ElementsFacts DEF FeedTypes
    <3>2. RequestSound(e)'
      BY <1>4 DEF RequestSound, Feeds!Everything
    <3>3. BoardChanges
      BY <1>2 DEF BoardChanges
    <3> QED
      BY <1>1, <3>1, <3>2, <3>3, AsksKept
  <2> QED
    BY <1>3, <2>1, <2>2 DEF Feeds!Fail
<1>6. SearchSound'
  BY <1>1, <1>2, SearchKept DEF BoardChanges
<1>7. QED
  BY <1>1, <1>2, <1>5, <1>6, ViewKeeps DEF FeedTypes

LEMMA AsksStill ==
  ASSUME FeedInv, UNCHANGED <<board, made, asks>>
  PROVE  asks' \in Seq(Requests) /\ AsksSound'
<1>1. FeedTypes /\ AsksSound /\ BoardChanges
  BY DEF FeedInv, BoardChanges
<1>2. QED
  BY <1>1, AsksKept DEF FeedTypes

LEMMA KeepShown == ASSUME FeedInv, Feeds!PaintCached \/ \E p : Feeds!Confirm(p) PROVE FeedInv'
<1>1. FeedTypes /\ AsksSound /\ SearchSound
  BY DEF FeedInv
<1>2. UNCHANGED <<board, made, cache, asks, search>> /\ landing' \subseteq landing
  BY DEF Feeds!PaintCached, Feeds!Confirm, Feeds!service
<1>3. feed' \subseteq 1..made /\ cursor' \in 0..made
  <2>1. PageSound(cache) /\ feed \subseteq 1..made /\ cursor \in 0..made /\ made \in Nat /\ landing \subseteq 1..made
    BY <1>1, FeedBounds DEF FeedTypes
  <2>2. \/ feed' = cache.posts /\ cursor' = cache.next
        \/ cursor' = cursor /\ \E p \in landing : feed' = feed \cup {p}
    BY DEF Feeds!PaintCached, Feeds!Confirm
  <2>3. cache.posts \subseteq 1..made /\ cache.next \in 0..made
    BY <1>1, <2>1, PageTyped
  <2> QED
    BY <2>1, <2>2, <2>3
<1>4. SearchSound'
  BY <1>1, <1>2, SearchKept DEF BoardChanges
<1>5. QED
  BY <1>1, <1>2, <1>3, <1>4, AsksStill, ViewKeeps DEF FeedTypes

LEMMA KeepSearching == FeedInv /\ (Feeds!SearchPage \/ Feeds!EndSearch \/ \E p \in 1..MaxPosts : Feeds!Reveal(p)) => FeedInv'
<1>1. SUFFICES ASSUME FeedInv, Feeds!SearchPage \/ Feeds!EndSearch \/ \E p \in 1..MaxPosts : Feeds!Reveal(p)
               PROVE FeedInv'
  OBVIOUS
<1>2. FeedTypes /\ SearchSound
  BY <1>1 DEF FeedInv
<1>3. UNCHANGED <<board, made, landing, feed, cursor, cache, asks>>
  BY <1>1 DEF Feeds!SearchPage, Feeds!EndSearch, Feeds!Reveal, Feeds!service, Feeds!view
<1> DEFINE T == [on : BOOLEAN, target : 0..MaxPosts, found : SUBSET (1..made), at : 0..Feeds!Everything]
<1>4. search \in T /\ made \in Nat /\ 0 \in 0..Feeds!Everything /\ Feeds!Everything \in 0..Feeds!Everything
      /\ 0 \in 0..MaxPosts /\ 1..MaxPosts \subseteq 0..MaxPosts
  BY <1>2, FeedBounds, FeedAssumed DEF FeedTypes
<1>5. search' \in T /\ SearchSound'
  <2>1. CASE Feeds!EndSearch
    <3>1. search' = Feeds!NoSearch
      BY <2>1 DEF Feeds!EndSearch
    <3> QED
      BY <1>4, <3>1 DEF Feeds!NoSearch, SearchSound
  <2>2. ASSUME NEW p \in 1..MaxPosts, Feeds!Reveal(p) PROVE search' \in T /\ SearchSound'
    <3>1. search' = [on |-> TRUE, target |-> p, found |-> {}, at |-> Feeds!Everything]
      BY <2>2 DEF Feeds!Reveal, Feeds!NoSearch
    <3>2. search' \in T
      BY <1>4, <3>1
    <3>3. SearchSound'
      BY <3>1 DEF SearchSound, Feeds!After
    <3> QED
      BY <3>2, <3>3
  <2>3. CASE Feeds!SearchPage
    <3> DEFINE page == Feeds!Page(board, search.at)
    <3>1. search.at # 0 /\ search' = [search EXCEPT !.found = @ \cup page.posts, !.at = page.next]
          /\ search.on
      BY <2>3 DEF Feeds!SearchPage, Feeds!Searching
    <3>2. search.at \in 0..Feeds!Everything /\ search.found \in SUBSET (1..made)
      BY <1>4
    <3>3. /\ PageSound(page) /\ page.next \in 0..MaxPosts
          /\ \A p \in page.posts : p \in board /\ p < search.at
          /\ \A p \in board : p < search.at => p \in page.posts \/ (page.next # 0 /\ p < page.next)
      BY <1>2, <3>2, PageNow
    <3> HIDE DEF page
    <3>4. /\ page.posts \in SUBSET (1..made) /\ page.next \in 0..Feeds!Everything /\ page.next <= made
      BY <1>2, <1>4, <3>3, FeedBounds DEF PageSound
    <3>5. /\ search' \in T /\ search'.on = search.on /\ search'.found = search.found \cup page.posts
          /\ search'.at = page.next
      BY <1>4, <3>1, <3>4
    <3>6. ASSUME NEW p \in board
          PROVE  \/ p \in search'.found \/ p \in Feeds!After(search'.found)
                 \/ search'.at # 0 /\ p < search'.at
      <4>1. CASE p < search.at
        BY <3>3, <3>5, <4>1
      <4>2. CASE ~(p < search.at)
        <5>1. p \in search.found \/ p \in Feeds!After(search.found)
          BY <1>2, <3>1, <4>2 DEF SearchSound
        <5>2. ASSUME NEW q \in page.posts PROVE p > q
          <6>1. q < search.at /\ q \in Nat /\ p \in Nat /\ search.at \in Nat
            BY <1>2, <1>4, <3>2, <3>3, <5>2, FeedBounds
          <6> QED
            BY <4>2, <6>1
        <5> QED
          BY <3>5, <5>1, <5>2 DEF Feeds!After
      <4> QED
        BY <4>1, <4>2
    <3>7. SearchSound'
      BY <1>3, <3>4, <3>5, <3>6 DEF SearchSound, Feeds!After
    <3> QED
      BY <3>5, <3>7
  <2> QED
    BY <1>1, <2>1, <2>2, <2>3
<1>6. QED
  BY <1>1, <1>2, <1>3, <1>5, AsksStill, ViewKeeps DEF FeedTypes

LEMMA FoundFacts ==
  ASSUME FeedInv, Feeds!Found
  PROVE  /\ UNCHANGED <<board, made, landing, cache, asks>> /\ search' = Feeds!NoSearch
         /\ search.on /\ search.found # {} /\ feed' = feed \cup search.found
         /\ cursor' = cursor \/ cursor' = search.at
<1>1. search.target \in search.found /\ UNCHANGED <<board, made, landing, cache, asks>>
  BY DEF Feeds!Found, Feeds!service
<1>2. search' = Feeds!NoSearch /\ search.on /\ feed' = feed \cup search.found
  BY DEF Feeds!Found
<1>3. cursor' = cursor \/ cursor' = search.at
  BY DEF Feeds!Found
<1>4. QED
  BY <1>1, <1>2, <1>3

LEMMA KeepFound == ASSUME FeedInv, Feeds!Found PROVE FeedInv'
<1>1. FeedTypes /\ SearchSound
  BY DEF FeedInv
<1>2. /\ feed \subseteq 1..made /\ cursor \in 0..made /\ made \in Nat /\ search.at \in Nat
      /\ search.found \subseteq 1..made /\ 0 \in 0..MaxPosts /\ 0 \in 0..Feeds!Everything
  BY <1>1, FeedBounds, FeedAssumed DEF FeedTypes
<1>3. search.at <= made
  BY <1>1, FoundFacts DEF SearchSound
<1>4. feed' \subseteq 1..made /\ cursor' \in 0..made
  <2>1. search.at \in 0..made
    BY <1>2, <1>3
  <2>2. feed' = feed \cup search.found /\ (cursor' = cursor \/ cursor' = search.at)
    BY FoundFacts
  <2> QED
    BY <1>2, <2>1, <2>2
<1>5. /\ search' \in [on : BOOLEAN, target : 0..MaxPosts, found : SUBSET (1..made), at : 0..Feeds!Everything]
      /\ SearchSound'
  <2>1. search' = Feeds!NoSearch
    BY FoundFacts
  <2> QED
    BY <1>2, <2>1 DEF Feeds!NoSearch, SearchSound
<1>6. QED
  BY <1>4, <1>5, FoundFacts, AsksStill, ViewKeeps

LEMMA KeepRestarted == ASSUME FeedInv, Feeds!Restart PROVE FeedInv'
<1>1. FeedTypes
  BY DEF FeedInv
<1>2. /\ UNCHANGED <<board, made, cache>> /\ feed' = {} /\ cursor' = 0 /\ landing' = {}
      /\ search' = Feeds!NoSearch /\ asks' = <<Feeds!Request("boot", Feeds!Everything)>>
  BY DEF Feeds!Restart
<1>3. PICK r : r = Feeds!Request("boot", Feeds!Everything)
  OBVIOUS
<1>4. r \in Requests /\ r.kind = "boot" /\ r.is = "sent" /\ r.at = Feeds!Everything
  BY <1>3, FeedAssumed DEF Feeds!Request, Feeds!NoPage, Requests, Feeds!Everything
<1>5. asks' \in Seq(Requests) /\ AsksSound'
  <2>1. asks' = <<r>>
    BY <1>2, <1>3
  <2>2. RequestSound(r)'
    BY <1>4 DEF RequestSound, Feeds!Everything
  <2>3. asks' \in Seq(Requests) /\ DOMAIN asks' = {1} /\ asks'[1] = r
    BY <1>4, <2>1
  <2> QED
    BY <2>2, <2>3 DEF AsksSound, Elements
<1>6. made \in Nat /\ 0 \in 0..MaxPosts /\ 0 \in 0..Feeds!Everything
  BY <1>1, FeedBounds, FeedAssumed
<1>7. /\ search' \in [on : BOOLEAN, target : 0..MaxPosts, found : SUBSET (1..made), at : 0..Feeds!Everything]
      /\ SearchSound'
  BY <1>2, <1>6 DEF Feeds!NoSearch, SearchSound
<1>8. feed' \subseteq 1..made /\ cursor' \in 0..made /\ landing' \subseteq landing
  BY <1>2, <1>6
<1>9. QED
  BY <1>2, <1>5, <1>7, <1>8, ViewKeeps

LEMMA FeedNextKeeps == FeedInv /\ Feeds!Next => FeedInv'
BY KeepCreated, KeepDeleted, KeepShown, KeepSearching, KeepServed, KeepAccepted, KeepEarlier, KeepFailed,
   KeepAsking, KeepFound, KeepRestarted DEF Feeds!Next

LEMMA FeedsRun ==
  ASSUME [Next]_vars
  PROVE  Feeds!Next \/ UNCHANGED Feeds!vars
BY DEF Next, StandStill, vars, feeds, Feeds!vars, Feeds!service, Feeds!view

LEMMA FeedHolds == Spec => []FeedInv
<1>1. Init => FeedInv
  BY FeedInit DEF Init
<1>2. FeedInv /\ UNCHANGED Feeds!vars => FeedInv'
  <2>1. SUFFICES ASSUME FeedInv, UNCHANGED Feeds!vars PROVE FeedInv'
    OBVIOUS
  <2>2. UNCHANGED <<board, made, landing, feed, cursor, cache, asks, search>>
    BY <2>1 DEF Feeds!vars, Feeds!service, Feeds!view
  <2>3. FeedTypes /\ SearchSound'
    BY <2>1, <2>2, SearchKept DEF FeedInv, BoardChanges
  <2> QED
    BY <2>1, <2>2, <2>3, AsksStill, ViewKeeps DEF FeedTypes
<1>3. FeedInv /\ [Next]_vars => FeedInv'
  BY <1>2, FeedsRun, FeedNextKeeps
<1>4. QED
  BY <1>1, <1>3, PTL DEF Spec

(* What an answer may hide: what it does not know. *)
LEMMA HiddenFacts ==
  ASSUME NEW p
  PROVE  /\ p \in Feeds!Hidden <=> p \in board /\ p \notin feed /\ p \notin Feeds!Top.posts /\ p >= cursor
         /\ p \in Feeds!Hidden' <=> p \in board' /\ p \notin feed' /\ p \notin Feeds!Top'.posts /\ p >= cursor'
BY DEF Feeds!Hidden

LEMMA AcceptHides ==
  ASSUME FeedInv, NEW k \in DOMAIN asks, Feeds!Accept(k), NEW p \in Feeds!Hidden'
  PROVE  p \in Feeds!Hidden \cup Feeds!Unknown
<1> DEFINE g == asks[k].page
<1>1. FeedTypes /\ AsksSound
  BY DEF FeedInv
<1>2. p \in board /\ p \notin feed' /\ p \notin Feeds!Top.posts /\ p >= cursor'
  BY AcceptedFacts, HiddenFacts DEF Feeds!Top, Feeds!Everything
<1>3. SUFFICES ASSUME p \notin Feeds!After(g.posts) PROVE p \in Feeds!Hidden
  BY <1>2 DEF Feeds!Unknown
<1>4. PageSound(g) /\ (p \in g.posts \/ (g.next # 0 /\ p < g.next))
  <2>1. p < asks[k].at
    BY <1>1, <1>2, AcceptedFacts, SentFacts, FeedBounds DEF FeedTypes
  <2> QED
    BY <1>1, <1>2, <1>3, <2>1, AcceptedFacts, SentFacts
<1>5. p \in Nat /\ cursor' \in Nat /\ g.next \in 0..made /\ made \in Nat /\ g.posts \subseteq Nat
  <2>1. FeedTypes'
    BY KeepAccepted DEF FeedInv
  <2>2. cursor' \in 0..made' /\ made' \in Nat
    BY <2>1, FeedAssumed DEF FeedTypes
  <2>3. g.next \in 0..made /\ g.posts \subseteq 1..made
    BY <1>1, <1>4, PageTyped
  <2> QED
    BY <1>1, <1>2, <2>2, <2>3, FeedBounds
<1>6. /\ UNCHANGED <<board, made, landing, search>>
      /\ IF asks[k].kind = "poll" THEN feed' = Feeds!Reconcile(g, feed) ELSE feed' = g.posts
      /\ IF asks[k].kind = "poll" /\ ~(Feeds!Cardinality(g.posts) < PageSize) THEN cursor' = cursor
         ELSE cursor' = g.next
  BY AcceptedFacts
<1> HIDE DEF g
<1>7. p \notin g.posts
  BY <1>2, <1>6 DEF Feeds!Reconcile
<1>8. g.next # 0 /\ p < g.next
  BY <1>4, <1>7
<1>9. asks[k].kind = "poll" /\ ~(Feeds!Cardinality(g.posts) < PageSize) /\ cursor' = cursor
  <2>1. SUFFICES ASSUME cursor' = g.next PROVE FALSE
    BY <1>6
  <2> QED
    BY <1>2, <1>5, <1>8, <2>1
<1>10. p \notin feed
  <2>1. SUFFICES ASSUME p \in feed PROVE FALSE
    OBVIOUS
  <2>2. g.posts # {}
    <3>1. Feeds!Cardinality({}) = 0
      BY FeedCounts
    <3> QED
      BY <1>9, <3>1, FeedAssumed
  <2>3. PICK o : o = Feeds!Oldest(g.posts)
    OBVIOUS
  <2>4. o \in g.posts /\ o \in Nat /\ g.next <= o
    BY <1>4, <1>5, <1>8, <2>2, <2>3, OldestFacts DEF PageSound
  <2>5. p + 1 <= o + 1
    BY <1>5, <1>8, <2>4
  <2>6. (p + 1) \div 2 <= (o + 1) \div 2
    BY <1>5, <2>4, <2>5
  <2>7. p \in Feeds!Reconcile(g, feed)
    BY <1>9, <2>1, <2>3, <2>6 DEF Feeds!Reconcile, Feeds!Time
  <2> QED
    BY <1>2, <1>6, <1>9, <2>7
<1>11. QED
  BY <1>2, <1>9, <1>10, HiddenFacts

(* No other step hides a post that was within reach. *)
LEMMA ReachStep ==
  ASSUME FeedInv, Feeds!Next, feed # {}, feed' # {}, made' = made, ~Feeds!LateEarlier
  PROVE  Feeds!Hidden' \subseteq Feeds!Hidden \cup Feeds!Unknown
<1>1. FeedTypes /\ AsksSound /\ SearchSound
  BY DEF FeedInv
<1>2. board \subseteq Nat /\ cursor \in Nat /\ made \in Nat /\ feed \subseteq Nat
  BY <1>1, FeedBounds DEF FeedTypes
<1>3. FeedTypes'
  BY FeedNextKeeps DEF FeedInv
<1>4. cursor' \in Nat /\ board' \subseteq Nat
  <2>1. made' \in Nat /\ cursor' \in 0..made' /\ board' \subseteq 1..made'
    BY <1>3, FeedAssumed DEF FeedTypes
  <2> QED
    BY <2>1
<1>5. SUFFICES ASSUME NEW p \in Feeds!Hidden' PROVE p \in Feeds!Hidden \cup Feeds!Unknown
  OBVIOUS
<1>6. p \in board' /\ p \notin feed' /\ p \notin Feeds!Top'.posts /\ p >= cursor'
  BY <1>5, HiddenFacts
<1>7. CASE UNCHANGED <<board, cursor>> /\ feed \subseteq feed'
  <2>1. Feeds!Top' = Feeds!Top
    BY <1>7 DEF Feeds!Top, Feeds!Everything
  <2> QED
    BY <1>6, <1>7, <2>1, HiddenFacts
<1>8. ASSUME NEW d, Feeds!Delete(d) PROVE p \in Feeds!Hidden
  <2>1. board' = board \ {d} /\ UNCHANGED <<feed, cursor>>
    BY <1>8 DEF Feeds!Delete, Feeds!view
  <2>2. board \in SUBSET (1..MaxPosts) /\ Feeds!Everything \in Nat
    BY <1>1, FeedBounds
  <2>3. Feeds!Top' = Feeds!Page(board \ {d}, Feeds!Everything)
    BY <2>1 DEF Feeds!Top, Feeds!Everything
  <2>4. Feeds!Top.posts \ {d} \subseteq Feeds!Top'.posts
    BY <2>2, <2>3, TopGrows DEF Feeds!Top
  <2> QED
    BY <1>6, <2>1, <2>4, HiddenFacts
<1>9. ASSUME NEW k \in DOMAIN asks, Feeds!Accept(k) PROVE p \in Feeds!Hidden \cup Feeds!Unknown
  BY <1>5, <1>9, AcceptHides
<1>10. ASSUME NEW k \in DOMAIN asks, Feeds!AcceptEarlier(k) PROVE p \in Feeds!Hidden
  <2>1. /\ asks[k].is = "answered" /\ asks[k].kind = "earlier" /\ feed' = feed \cup asks[k].page.posts
        /\ cursor' = asks[k].page.next /\ UNCHANGED board
    BY <1>10 DEF Feeds!AcceptEarlier, Feeds!service
  <2>2. asks[k].at = cursor
    BY <1>10 DEF Feeds!LateEarlier
  <2>3. p \in board => \/ ~(p < cursor) \/ p \in asks[k].page.posts
                       \/ asks[k].page.next # 0 /\ p < asks[k].page.next
    BY <1>1, <2>1, <2>2, SentFacts
  <2>4. p >= cursor
    <3>1. p \in board /\ p \notin asks[k].page.posts /\ p \in Nat
      BY <1>4, <1>6, <2>1
    <3>2. p >= asks[k].page.next /\ asks[k].page.next \in Nat
      BY <1>4, <1>6, <2>1
    <3>3. ~(p < asks[k].page.next)
      BY <3>1, <3>2
    <3>4. ~(p < cursor)
      BY <2>3, <3>1, <3>3
    <3> QED
      BY <1>2, <3>1, <3>4
  <2>5. Feeds!Top' = Feeds!Top
    BY <2>1 DEF Feeds!Top, Feeds!Everything
  <2> QED
    BY <1>6, <2>1, <2>4, <2>5, HiddenFacts
<1>11. CASE Feeds!Found
  <2>1. /\ UNCHANGED board /\ search.on /\ feed' = feed \cup search.found
        /\ cursor' = cursor \/ cursor' = search.at
    BY <1>11, FoundFacts
  <2>2. CASE cursor' = cursor
    BY <1>7, <2>1, <2>2
  <2>3. CASE cursor' = search.at
    <3>1. p \in search.found \/ p \in Feeds!After(search.found) \/ (search.at # 0 /\ p < search.at)
      BY <1>1, <1>6, <2>1 DEF SearchSound
    <3>2. p \in Feeds!After(search.found)
      BY <1>2, <1>4, <1>6, <2>1, <2>3, <3>1
    <3> QED
      BY <1>11, <2>1, <3>2 DEF Feeds!Unknown, Feeds!After
  <2> QED
    BY <2>1, <2>2, <2>3
<1>12. /\ ~Feeds!Restart /\ ~Feeds!PaintCached
       /\ \A m \in BOOLEAN : ~Feeds!Create(m)
  <2>1. ~Feeds!Restart
    BY DEF Feeds!Restart
  <2>2. ~Feeds!PaintCached
    BY DEF Feeds!PaintCached
  <2>3. \A m \in BOOLEAN : ~Feeds!Create(m)
    <3>1. ASSUME NEW m \in BOOLEAN, Feeds!Create(m) PROVE made' = made + 1
      BY <3>1 DEF Feeds!Create
    <3>2. made # made + 1
      BY <1>2
    <3> QED
      BY <3>1, <3>2
  <2> QED
    BY <2>1, <2>2, <2>3
<1>13. \/ UNCHANGED <<board, cursor>> /\ feed \subseteq feed'
       \/ (\E d \in 1..MaxPosts : Feeds!Delete(d))
       \/ (\E k \in DOMAIN asks : Feeds!Accept(k) \/ Feeds!AcceptEarlier(k))
       \/ Feeds!Found
  BY <1>12 DEF Feeds!Next, Feeds!Confirm, Feeds!Reveal, Feeds!Serve, Feeds!Fail, Feeds!Poll, Feeds!Reload,
     Feeds!LoadEarlier, Feeds!SearchPage, Feeds!EndSearch, Feeds!service, Feeds!view
<1>14. QED
  BY <1>7, <1>8, <1>9, <1>10, <1>11, <1>13

LEMMA ReachHolds == Spec => Feeds!StaysInReach
<1>1. FeedInv /\ [Next]_vars =>
        [feed # {} /\ feed' # {} /\ made' = made /\ ~Feeds!LateEarlier
           => Feeds!Hidden' \subseteq Feeds!Hidden \cup Feeds!Unknown]_Feeds!vars
  BY ReachStep, FeedsRun
<1>2. QED
  BY <1>1, FeedHolds, PTL DEF Spec, Feeds!StaysInReach

(* No answer, however late, takes from the feed or from the open thread what the host    *)
(* still has (acceptFeed, loadEarlierFeed, loadReplies): what a page cannot know is only   *)
(* what was created after it was answered, whatever was deleted meanwhile.               *)
THEOREM NothingSlipsAwayHolds == Spec => NothingSlipsAway
BY ReachHolds, RepliesHold, PTL DEF NothingSlipsAway

---------------------------------------------------------------------------
(* The hints. *)

(* A record goes only if no request is under way. *)
LEMMA PrunedIdle ==
  ASSUME NEW r \in [Hosts -> FaceRecords], NEW j, NEW m, Faces!Prune(r, j, m), NEW h \in Hosts
  PROVE  rec'[h] = r[h] \/ (rec'[h] = Faces!Blank /\ j[h].at = "idle")
<1> DEFINE idle == {g \in {k \in Hosts : r[k].in} : j[g].at = "idle" /\ g \notin m}
<1>1. \E n : \E away \in Faces!kSubset(n, idle) : rec' = [g \in Hosts |-> IF g \in away THEN Faces!Blank ELSE r[g]]
  BY DEF Faces!Prune
<1>2. PICK n : \E away \in Faces!kSubset(n, idle) : rec' = [g \in Hosts |-> IF g \in away THEN Faces!Blank ELSE r[g]]
  BY <1>1
<1>3. PICK away \in Faces!kSubset(n, idle) : rec' = [g \in Hosts |-> IF g \in away THEN Faces!Blank ELSE r[g]]
  BY <1>2
<1>4. away \subseteq idle
  BY <1>3 DEF Faces!kSubset
<1>5. QED
  BY <1>3, <1>4

(* A host whose request, hint and answer stay, or whose record goes. *)
LEMMA HintStays ==
  ASSUME NEW h \in Hosts, HintSound(h), job'[h] = job[h], hint'[h] = hint[h], overtaken'[h] = overtaken[h],
         h \in mounted' => h \in mounted,
         \/ rec'[h] = Faces!Blank /\ job[h].at = "idle"
         \/ /\ rec'[h].url = rec[h].url /\ rec'[h].miss = rec[h].miss /\ rec'[h].primed = rec[h].primed
            /\ rec'[h].digest = rec[h].digest /\ rec'[h].checked = rec[h].checked
  PROVE  HintSound(h)'
<1>1. CASE rec'[h] = Faces!Blank /\ job[h].at = "idle"
  BY <1>1, FaceShapes DEF HintSound, Faces!Answered
<1>2. CASE /\ rec'[h].url = rec[h].url /\ rec'[h].miss = rec[h].miss /\ rec'[h].primed = rec[h].primed
           /\ rec'[h].digest = rec[h].digest /\ rec'[h].checked = rec[h].checked
  BY <1>2 DEF HintSound, Follows, Faces!Answered
<1>3. QED
  BY <1>1, <1>2

(* cachedAvatar: whoever is asked of has a request under way, and the others' answers stay. *)
LEMMA HintAsked ==
  ASSUME FaceInv, NEW hs \in SUBSET Hosts, Faces!Ask(hs), NEW h \in Hosts
  PROVE  /\ h \in hs => job'[h].at = "restoring"
         /\ h \notin hs => job'[h] = job[h]
         /\ \/ rec'[h] = Faces!Blank /\ job'[h].at = "idle"
            \/ /\ rec'[h].url = rec[h].url /\ rec'[h].miss = rec[h].miss /\ rec'[h].primed = rec[h].primed
               /\ rec'[h].digest = rec[h].digest /\ rec'[h].checked = rec[h].checked
<1> DEFINE r == Faces!InCache(rec, hs)
<1>1. /\ \A g \in Hosts : rec[g] \in FaceRecords
      /\ job'[h] = IF h \in hs THEN [Faces!Idle EXCEPT !.at = "restoring", !.void = rec[h].url # 0] ELSE job[h]
  BY HostTypes DEF Faces!Ask, Faces!Promised, FaceInv
<1>2. h \in hs => job'[h].at = "restoring"
  BY <1>1, FaceShapes DEF FaceJobs
<1>3. ASSUME NEW g \in Hosts
      PROVE  /\ [rec[g] EXCEPT !.in = TRUE] \in FaceRecords
             /\ [rec[g] EXCEPT !.in = TRUE].url = rec[g].url /\ [rec[g] EXCEPT !.in = TRUE].miss = rec[g].miss
             /\ [rec[g] EXCEPT !.in = TRUE].primed = rec[g].primed /\ [rec[g] EXCEPT !.in = TRUE].in
             /\ [rec[g] EXCEPT !.in = TRUE].digest = rec[g].digest
             /\ [rec[g] EXCEPT !.in = TRUE].checked = rec[g].checked
  BY <1>1, <1>3 DEF FaceRecords
<1>4. /\ r \in [Hosts -> FaceRecords] /\ r[h] = IF h \in hs THEN [rec[h] EXCEPT !.in = TRUE] ELSE rec[h]
  BY <1>1, <1>3 DEF Faces!InCache
<1>5. Faces!Prune(r, job', mounted')
  BY DEF Faces!Ask
<1> HIDE DEF r
<1>6. rec'[h] = r[h] \/ (rec'[h] = Faces!Blank /\ job'[h].at = "idle")
  BY <1>4, <1>5, PrunedIdle
<1>7. /\ r[h].url = rec[h].url /\ r[h].miss = rec[h].miss /\ r[h].primed = rec[h].primed
      /\ r[h].digest = rec[h].digest /\ r[h].checked = rec[h].checked
  BY <1>3, <1>4
<1>8. h \notin hs => job'[h] = job[h]
  BY <1>1
<1>9. QED
  BY <1>2, <1>6, <1>7, <1>8

LEMMA HintMount == ASSUME FaceInv, HintInv, NEW h \in Hosts, Faces!Mount(h) PROVE HintInv'
<1> DEFINE hs == {h} \ {g \in Hosts : Faces!IsCurrent(g, rec[g], hint[g])}
<1>1. /\ mounted' = mounted \cup {h} /\ Faces!Ask(hs) /\ UNCHANGED <<hint, overtaken>>
      /\ h \notin hs => Faces!IsCurrent(h, rec[h], hint[h])
      /\ hs \in SUBSET Hosts /\ \A g \in hs : g = h
  BY DEF Faces!Mount, Faces!history
<1> HIDE DEF hs
<1>2. ASSUME NEW g \in Hosts PROVE HintSound(g)'
  <2>1. HintSound(g)
    BY DEF HintInv
  <2>2. CASE g \in hs
    <3>1. job'[g].at = "restoring"
      BY <1>1, <2>2, HintAsked
    <3> QED
      BY <3>1 DEF HintSound, Follows
  <2>3. CASE g \notin hs /\ g # h
    BY <1>1, <2>1, <2>3, HintAsked, HintStays
  <2>4. CASE g = h /\ h \notin hs
    <3>1. /\ job'[h] = job[h]
          /\ \/ rec'[h] = Faces!Blank /\ job'[h].at = "idle"
             \/ /\ rec'[h].url = rec[h].url /\ rec'[h].miss = rec[h].miss /\ rec'[h].primed = rec[h].primed
                /\ rec'[h].digest = rec[h].digest /\ rec'[h].checked = rec[h].checked
      BY <1>1, <2>4, HintAsked
    <3>2. hint[h] # 0 /\ rec[h].primed = None => Follows(h)
      BY <1>1, <2>4 DEF Faces!IsCurrent, Faces!AnswerIsCurrent, Follows
    <3> QED
      BY <1>1, <2>1, <2>4, <3>1, <3>2, FaceShapes DEF HintSound, Follows, Faces!Answered
  <2> QED
    BY <1>1, <2>2, <2>3, <2>4
<1>3. QED
  BY <1>1, <1>2 DEF HintInv

LEMMA HintUnmount == ASSUME FaceInv, HintInv, NEW h \in Hosts, Faces!Unmount(h) PROVE HintInv'
<1>1. /\ mounted' = mounted \ {h} /\ Faces!Prune(rec, job, mounted') /\ UNCHANGED <<job, hint, overtaken>>
      /\ rec \in [Hosts -> FaceRecords]
  BY DEF Faces!Unmount, Faces!history, FaceInv, FaceTypes
<1>2. ASSUME NEW g \in Hosts PROVE HintSound(g)'
  <2>1. HintSound(g) /\ (rec'[g] = rec[g] \/ (rec'[g] = Faces!Blank /\ job[g].at = "idle"))
    BY <1>1, PrunedIdle DEF HintInv
  <2> QED
    BY <1>1, <2>1, HintStays
<1>3. QED
  BY <1>1, <1>2 DEF HintInv

LEMMA HintRecover == ASSUME FaceInv, HintInv, Faces!Recover PROVE HintInv'
<1> DEFINE hs == {h \in watched \cap mounted : rec[h].url = 0 /\ ~Faces!IsCurrent(h, rec[h], hint[h])}
<1>1. /\ mounted' = mounted /\ Faces!Ask(hs) /\ UNCHANGED <<hint, overtaken>> /\ hs \in SUBSET Hosts
  BY DEF Faces!Recover, Faces!history, HintInv
<1> HIDE DEF hs
<1>2. ASSUME NEW g \in Hosts PROVE HintSound(g)'
  <2>1. HintSound(g)
    BY DEF HintInv
  <2>2. CASE g \in hs
    <3>1. job'[g].at = "restoring"
      BY <1>1, <2>2, HintAsked
    <3> QED
      BY <3>1 DEF HintSound, Follows
  <2>3. CASE g \notin hs
    BY <1>1, <2>1, <2>3, HintAsked, HintStays
  <2> QED
    BY <2>2, <2>3
<1>3. QED
  BY <1>1, <1>2 DEF HintInv

LEMMA HintNote == ASSUME FaceInv, HintInv, NEW h \in Hosts, NEW d \in Faces!Faces, Faces!Note(h, d) PROVE HintInv'
<1> DEFINE hs == IF Faces!Rechecks(h, d) THEN {h} ELSE {}
<1>1. /\ mounted' = mounted /\ Faces!Ask(hs) /\ hint' = [hint EXCEPT ![h] = d]
      /\ overtaken' = [overtaken EXCEPT ![h] = @ \/ job[h].at = "asked"]
      /\ hs \in SUBSET Hosts /\ (\A g \in hs : g = h) /\ (h \notin hs => ~Faces!Rechecks(h, d))
      /\ hint \in [Hosts -> Picture] /\ overtaken \in [Hosts -> BOOLEAN]
  BY DEF Faces!Note, HintInv, FaceInv, FaceTypes
<1> HIDE DEF hs
<1>2. ASSUME NEW g \in Hosts PROVE HintSound(g)'
  <2>1. HintSound(g)
    BY DEF HintInv
  <2>2. CASE g \in hs
    <3>1. job'[g].at = "restoring"
      BY <1>1, <2>2, HintAsked
    <3> QED
      BY <3>1 DEF HintSound, Follows
  <2>3. CASE g \notin hs /\ g # h
    BY <1>1, <2>1, <2>3, HintAsked, HintStays
  <2>4. CASE g = h /\ h \notin hs
    <3>1. /\ job'[h] = job[h] /\ hint'[h] = d /\ overtaken'[h] = (overtaken[h] \/ job[h].at = "asked")
          /\ \/ rec'[h] = Faces!Blank /\ job'[h].at = "idle"
             \/ /\ rec'[h].url = rec[h].url /\ rec'[h].miss = rec[h].miss /\ rec'[h].primed = rec[h].primed
                /\ rec'[h].digest = rec[h].digest /\ rec'[h].checked = rec[h].checked
      BY <1>1, <2>4, HintAsked
    <3>2. h \in mounted /\ Faces!Answered(rec[h]) => Faces!IsCurrent(h, rec[h], d)
      BY <1>1, <2>4 DEF Faces!Rechecks
    <3>3. h \in mounted /\ Faces!Answered(rec[h]) /\ d # 0 /\ rec[h].primed = None =>
            job[h].at # "idle" \/ rec[h].checked = d \/ (rec[h].url # 0 /\ rec[h].digest = d)
      BY <3>2 DEF Faces!IsCurrent, Faces!AnswerIsCurrent
    <3> QED
      BY <1>1, <2>1, <2>4, <3>1, <3>3, FaceShapes DEF HintSound, Follows, Faces!Answered
  <2> QED
    BY <1>1, <2>2, <2>3, <2>4
<1>3. QED
  BY <1>1, <1>2 DEF HintInv

LEMMA HintShow == ASSUME FaceInv, HintInv, NEW v, Faces!Show(v) PROVE HintInv'
<1>1. UNCHANGED <<rec, job, mounted, hint, overtaken>>
  BY DEF Faces!Show, Faces!history
<1>2. QED
  BY <1>1 DEF HintInv, HintSound, Follows, Faces!Answered

LEMMA HintAge == ASSUME FaceInv, HintInv, NEW h \in Hosts, Faces!Age(h) PROVE HintInv'
<1>1. /\ UNCHANGED <<job, mounted, hint, overtaken>>
      /\ \/ rec' = [rec EXCEPT ![h] = [rec[h] EXCEPT !.seen = "old"]]
         \/ rec' = [rec EXCEPT ![h] = [rec[h] EXCEPT !.recent = FALSE]]
  BY DEF Faces!Age, Faces!history
<1>2. rec \in [Hosts -> FaceRecords] /\ rec[h] \in FaceRecords
  BY DEF FaceInv, FaceTypes
<1>3. ASSUME NEW x, x = [rec[h] EXCEPT !.seen = "old"] \/ x = [rec[h] EXCEPT !.recent = FALSE]
      PROVE  /\ x.url = rec[h].url /\ x.miss = rec[h].miss /\ x.primed = rec[h].primed
             /\ x.digest = rec[h].digest /\ x.checked = rec[h].checked
  BY <1>2, <1>3 DEF FaceRecords
<1>4. ASSUME NEW g \in Hosts PROVE HintSound(g)'
  <2>1. HintSound(g)
    BY DEF HintInv
  <2>2. /\ rec'[g].url = rec[g].url /\ rec'[g].miss = rec[g].miss /\ rec'[g].primed = rec[g].primed
        /\ rec'[g].digest = rec[g].digest /\ rec'[g].checked = rec[g].checked
    BY <1>1, <1>2, <1>3
  <2> QED
    BY <1>1, <2>1, <2>2, HintStays
<1>5. QED
  BY <1>1, <1>4 DEF HintInv

LEMMA HintAgeSaved == ASSUME FaceInv, HintInv, NEW h \in Hosts, Faces!AgeSaved(h) PROVE HintInv'
<1>1. UNCHANGED <<rec, job, mounted, hint, overtaken>>
  BY DEF Faces!AgeSaved, Faces!history
<1>2. QED
  BY <1>1 DEF HintInv, HintSound, Follows, Faces!Answered

LEMMA HintRestored ==
  ASSUME FaceInv, HintInv, NEW h \in Hosts, NEW read \in BOOLEAN, Faces!Restored(h, read)
  PROVE  HintInv'
<1> DEFINE s == saved[h]
           usable == read /\ s.has /\ ~job[h].void /\ ~s.broken
           found == IF s.face # 0
                    THEN [Faces!WithFace(rec[h], s.face, s.digest) EXCEPT !.seen = IF s.old THEN "old" ELSE @]
                    ELSE [Faces!Absent(rec[h]) EXCEPT !.recent = ~s.old]
           r == IF usable THEN [found EXCEPT !.checked = s.checked] ELSE rec[h]
           settled == usable /\ Faces!AnswerIsCurrent(h, r, hint[h])
           j == [Faces!Idle EXCEPT !.at = "queued", !.back = r.url # 0]
<1>1. /\ rec' = [rec EXCEPT ![h] = r] /\ job' = [job EXCEPT ![h] = IF settled THEN Faces!Idle ELSE j]
      /\ settled => Faces!AnswerIsCurrent(h, r, hint[h])
      /\ UNCHANGED <<mounted, hint, overtaken>>
  BY DEF Faces!Restored
<1> HIDE DEF r, settled
<1>2. j.at = "queued" /\ ~j.void
  BY FaceShapes DEF FaceJobs
<1>3. job'[h] = (IF settled THEN Faces!Idle ELSE j) /\ rec'[h] = r
  BY <1>1 DEF FaceInv, FaceTypes
<1>4. job'[h].at = (IF settled THEN "idle" ELSE "queued") /\ ~job'[h].void
  BY <1>2, <1>3, FaceShapes
<1>5. HintSound(h)'
  <2>1. CASE settled
    <3>1. hint[h] # 0 /\ r.primed = None => r.checked = hint[h] \/ (r.url # 0 /\ r.digest = hint[h])
      BY <1>1, <2>1 DEF Faces!AnswerIsCurrent
    <3> QED
      BY <1>1, <1>3, <1>4, <2>1, <3>1 DEF HintSound, Follows
  <2>2. CASE ~settled
    BY <1>4, <2>2 DEF HintSound, Follows
  <2> QED
    BY <2>1, <2>2
<1>6. ASSUME NEW g \in Hosts, g # h PROVE HintSound(g)'
  <2>1. HintSound(g) /\ job'[g] = job[g] /\ rec'[g] = rec[g]
    BY <1>1, <1>6 DEF HintInv, FaceInv, FaceTypes
  <2> QED
    BY <1>1, <2>1, HintStays
<1>7. QED
  BY <1>1, <1>5, <1>6 DEF HintInv

LEMMA HintTaken == ASSUME FaceInv, HintInv, NEW l \in Faces!Lanes, Faces!TakeBatch(l) PROVE HintInv'
<1>1. UNCHANGED <<rec, hint, mounted>>
  BY DEF Faces!TakeBatch
<1>2. ASSUME NEW h \in Hosts
      PROVE  /\ overtaken'[h] \in BOOLEAN
             /\ \/ job'[h] = job[h] /\ overtaken'[h] = overtaken[h]
                \/ /\ job[h].at = "queued" /\ job'[h].at = "asked" /\ job'[h].void = job[h].void
                   /\ job'[h].digest = hint[h]
  <2>1. job[h] \in FaceJobs /\ hint[h] \in Picture /\ overtaken[h] \in BOOLEAN
    BY HostTypes DEF FaceInv, HintInv
  <2>2. /\ [job[h] EXCEPT !.at = "asked", !.digest = hint[h]].at = "asked"
        /\ [job[h] EXCEPT !.at = "asked", !.digest = hint[h]].void = job[h].void
        /\ [job[h] EXCEPT !.at = "asked", !.digest = hint[h]].digest = hint[h]
    BY <2>1 DEF FaceJobs
  <2>3. \E batch : /\ job'[h] = (IF h \in batch THEN [job[h] EXCEPT !.at = "asked", !.digest = hint[h]] ELSE job[h])
                   /\ overtaken'[h] = (overtaken[h] /\ h \notin batch)
                   /\ h \in batch => job[h].at = "queued"
    BY DEF Faces!TakeBatch
  <2> QED
    BY <2>1, <2>2, <2>3
<1>3. overtaken' \in [Hosts -> BOOLEAN]
  <2>1. overtaken' = [h \in Hosts |-> overtaken'[h]]
    BY DEF Faces!TakeBatch
  <2> QED
    BY <1>2, <2>1
<1>4. ASSUME NEW h \in Hosts PROVE HintSound(h)'
  <2>1. HintSound(h)
    BY DEF HintInv
  <2>2. CASE job'[h] = job[h] /\ overtaken'[h] = overtaken[h]
    BY <1>1, <2>1, <2>2, HintStays
  <2>3. CASE /\ job[h].at = "queued" /\ job'[h].at = "asked" /\ job'[h].void = job[h].void
             /\ job'[h].digest = hint[h]
    BY <1>1, <2>1, <2>3 DEF HintSound, Follows
  <2> QED
    BY <1>2, <2>2, <2>3
<1>5. QED
  BY <1>1, <1>3, <1>4 DEF HintInv

LEMMA HintResolved == ASSUME FaceInv, HintInv, NEW l \in Faces!Lanes, Faces!Resolve(l) PROVE HintInv'
<1> DEFINE hs == Faces!Out(l)
           new(a, h) == CASE a[h].is = "face" -> Faces!WithFace(rec[h], a[h].face, a[h].digest)
                          [] a[h].is = "missing" -> Faces!Absent(rec[h])
                          [] OTHER -> Faces!Failed(rec[h])
           r(a) == [h \in Hosts |-> IF h \in hs /\ Faces!Applied(h)
                                    THEN [new(a, h) EXCEPT !.checked = job[h].digest] ELSE rec[h]]
<1>1. PICK a :
        /\ \A h \in hs : a[h] \in Faces!Answers(h)
        /\ job' = [h \in Hosts |-> IF h \in hs THEN Faces!Idle ELSE job[h]]
        /\ Faces!Prune(r(a), job', mounted)
        /\ UNCHANGED <<hint, mounted, overtaken>>
  BY DEF Faces!Resolve
<1>2. hs = {h \in Hosts : job[h].at = "asked" /\ Faces!LaneOf(h) = l}
  BY DEF Faces!Out
<1> HIDE DEF hs
<1>3. \A h \in Hosts : rec[h] \in FaceRecords /\ job[h] \in FaceJobs
  BY HostTypes DEF FaceInv
<1>4. ASSUME NEW h \in hs PROVE new(a, h) \in FaceRecords /\ job[h].digest \in Picture
  <2>1. /\ h \in Hosts /\ rec[h] \in FaceRecords /\ job[h].digest \in Picture /\ a[h] \in Faces!Answers(h) /\ FaceTypes
    BY <1>1, <1>2, <1>3 DEF FaceJobs, FaceInv
  <2>2. a[h].face \in Picture /\ a[h].digest \in Picture
    BY <2>1, AnswersFacts
  <2>3. CASE a[h].is = "face"
    <3>1. new(a, h) = Faces!WithFace(rec[h], a[h].face, a[h].digest)
      BY <2>3
    <3> HIDE DEF new
    <3>2. \A f, d \in Picture : Faces!WithFace(rec[h], f, d) \in FaceRecords
      BY <2>1, RecordFacts
    <3> QED
      BY <2>1, <2>2, <3>1, <3>2
  <2>4. CASE a[h].is = "missing"
    <3>1. new(a, h) = Faces!Absent(rec[h])
      BY <2>4
    <3> HIDE DEF new
    <3> QED
      BY <2>1, <3>1, RecordFacts
  <2>5. CASE a[h].is \notin {"face", "missing"}
    <3>1. new(a, h) = Faces!Failed(rec[h])
      BY <2>5
    <3> HIDE DEF new
    <3> QED
      BY <2>1, <3>1, RecordFacts
  <2> QED
    BY <2>1, <2>3, <2>4, <2>5
<1> HIDE DEF new
<1>5. ASSUME NEW h \in hs, Faces!Applied(h) PROVE r(a)[h] \in FaceRecords /\ r(a)[h].checked = job[h].digest
  <2>1. r(a)[h] = [new(a, h) EXCEPT !.checked = job[h].digest]
    BY <1>2, <1>5
  <2> HIDE DEF r
  <2> QED
    BY <1>4, <1>5, <2>1 DEF FaceRecords
<1>6. ASSUME NEW h \in Hosts, ~(h \in hs /\ Faces!Applied(h)) PROVE r(a)[h] = rec[h]
  BY <1>6
<1>7. r(a) \in [Hosts -> FaceRecords]
  <2>1. \A h \in Hosts : r(a)[h] \in FaceRecords
    BY <1>3, <1>5, <1>6
  <2>2. r(a) = [h \in Hosts |-> r(a)[h]]
    OBVIOUS
  <2> HIDE DEF r
  <2> QED
    BY <2>1, <2>2
<1> HIDE DEF r
<1>8. \A h \in Hosts : /\ rec'[h] = r(a)[h] \/ (rec'[h] = Faces!Blank /\ job'[h].at = "idle")
                       /\ job'[h] = IF h \in hs THEN Faces!Idle ELSE job[h]
  BY <1>1, <1>7, PrunedIdle
<1>9. ASSUME NEW h \in Hosts PROVE HintSound(h)'
  <2>1. HintSound(h)
    BY DEF HintInv
  <2>2. CASE h \notin hs
    BY <1>1, <1>6, <1>8, <2>1, <2>2, HintStays
  <2>3. CASE h \in hs
    <3>1. job[h].at = "asked" /\ job'[h].at = "idle"
      BY <1>2, <1>8, <2>3, FaceShapes
    <3>2. CASE rec'[h] = Faces!Blank
      BY <3>1, <3>2, FaceShapes DEF HintSound, Faces!Answered
    <3>3. CASE rec'[h] = r(a)[h] /\ Faces!Applied(h)
      <4>1. rec'[h].checked = hint[h] \/ overtaken[h]
        BY <1>5, <2>1, <2>3, <3>1, <3>3 DEF HintSound
      <4> QED
        BY <1>1, <3>1, <4>1 DEF HintSound, Follows
    <3>4. CASE rec'[h] = rec[h] /\ ~Faces!Applied(h)
      <4>1. rec[h].primed # None \/ rec[h].miss = "failed"
        BY <2>1, <3>1, <3>4 DEF HintSound, Faces!Applied
      <4> QED
        BY <3>1, <3>4, <4>1 DEF HintSound, Follows
    <3> QED
      BY <1>6, <1>8, <3>2, <3>3, <3>4
  <2> QED
    BY <2>2, <2>3
<1>10. QED
  BY <1>1, <1>9 DEF HintInv

(* A definite word of one host, after which its record is primed or failed. *)
LEMMA Overruled ==
  ASSUME FaceInv, HintInv, NEW h \in Hosts, NEW x \in FaceRecords, x.primed # None \/ x.miss = "failed",
         job' = [job EXCEPT ![h] = Faces!Void(@)], Faces!Prune([rec EXCEPT ![h] = x], job', mounted),
         UNCHANGED <<mounted, hint, overtaken>>
  PROVE  HintInv'
<1> DEFINE r == [rec EXCEPT ![h] = x]
<1>1. /\ rec \in [Hosts -> FaceRecords] /\ job \in [Hosts -> FaceJobs] /\ Faces!Prune(r, job', mounted)
  BY DEF FaceInv, FaceTypes
<1>2. r \in [Hosts -> FaceRecords] /\ r[h] = x /\ \A g \in Hosts : g # h => r[g] = rec[g]
  BY <1>1
<1> HIDE DEF r
<1>3. \A g \in Hosts : rec'[g] = r[g] \/ (rec'[g] = Faces!Blank /\ job'[g].at = "idle")
  BY <1>1, <1>2, PrunedIdle
<1>4. HintSound(h)'
  <2>1. job'[h] = Faces!Void(job[h])
    BY <1>1
  <2>2. job'[h].at = job[h].at /\ (job[h].at = "asked" => job'[h].digest = job[h].digest)
    BY <1>1, <2>1 DEF Faces!Void, FaceJobs
  <2>3. HintSound(h)
    BY DEF HintInv
  <2>4. CASE rec'[h] = x
    BY <2>2, <2>3, <2>4 DEF HintSound, Follows
  <2>5. CASE rec'[h] = Faces!Blank /\ job'[h].at = "idle"
    BY <2>5, FaceShapes DEF HintSound, Faces!Answered
  <2> QED
    BY <1>2, <1>3, <2>4, <2>5
<1>5. ASSUME NEW g \in Hosts, g # h PROVE HintSound(g)'
  <2>1. HintSound(g) /\ job'[g] = job[g] /\ (rec'[g] = rec[g] \/ (rec'[g] = Faces!Blank /\ job[g].at = "idle"))
    BY <1>1, <1>2, <1>3, <1>5 DEF HintInv
  <2> QED
    BY <2>1, HintStays
<1>6. QED
  BY <1>4, <1>5 DEF HintInv

LEMMA HintPrime == ASSUME FaceInv, HintInv, NEW f \in Picture, Faces!Prime(f) PROVE HintInv'
<1> DEFINE w == IF f # 0 THEN Faces!WithFace(rec[self], f, 0)
                ELSE [rec[self] EXCEPT !.url = 0, !.seen = "none", !.miss = "none", !.recent = FALSE, !.digest = 0]
           x == [w EXCEPT !.primed = f, !.in = TRUE]
<1>1. /\ self # None /\ UNCHANGED <<mounted, hint, overtaken>>
      /\ job' = [job EXCEPT ![self] = Faces!Void(@)]
      /\ Faces!Prune([rec EXCEPT ![self] = x], job', mounted)
  BY DEF Faces!Prime
<1>2. self \in Hosts /\ rec[self] \in FaceRecords
  BY <1>1, HostTypes DEF FaceInv, FaceTypes
<1>3. w \in FaceRecords
  <2>1. CASE f # 0
    <3>1. w = Faces!WithFace(rec[self], f, 0)
      BY <2>1
    <3> HIDE DEF w
    <3>2. \A d \in Picture : Faces!WithFace(rec[self], f, d) \in FaceRecords
      BY <1>2, RecordFacts
    <3> QED
      BY <3>1, <3>2, FaceAssumed
  <2>2. CASE f = 0
    <3>1. w = [rec[self] EXCEPT !.url = 0, !.seen = "none", !.miss = "none", !.recent = FALSE, !.digest = 0]
      BY <2>2
    <3> HIDE DEF w
    <3> QED
      BY <1>2, <3>1, FaceAssumed DEF FaceRecords
  <2> QED
    BY <2>1, <2>2
<1> HIDE DEF w
<1>4. x \in FaceRecords /\ x.primed # None
  BY <1>3, FaceAssumed DEF FaceRecords
<1> HIDE DEF x
<1>5. QED
  BY <1>1, <1>2, <1>4, Overruled

LEMMA HintDiscard == ASSUME FaceInv, HintInv, NEW h \in Hosts, Faces!Discard(h) PROVE HintInv'
<1> DEFINE w == Faces!Failed(rec[h])
           x == [w EXCEPT !.url = 0, !.seen = "none", !.digest = 0]
<1>1. rec[h] \in FaceRecords
  BY HostTypes DEF FaceInv
<1>2. w \in FaceRecords /\ w.miss = "failed"
  BY <1>1, RecordFacts
<1>3. /\ UNCHANGED <<mounted, hint, overtaken>> /\ job' = [job EXCEPT ![h] = Faces!Void(@)]
      /\ Faces!Prune([rec EXCEPT ![h] = [Faces!Failed(@) EXCEPT !.url = 0, !.seen = "none", !.digest = 0]], job', mounted)
  BY DEF Faces!Discard
<1>4. [rec EXCEPT ![h] = [Faces!Failed(@) EXCEPT !.url = 0, !.seen = "none", !.digest = 0]] = [rec EXCEPT ![h] = x]
  OBVIOUS
<1> HIDE DEF w
<1>5. x \in FaceRecords /\ x.miss = "failed"
  BY <1>2, FaceAssumed DEF FaceRecords
<1> HIDE DEF x
<1>6. QED
  BY <1>3, <1>4, <1>5, Overruled

LEMMA HintRestart == FaceInv /\ HintInv /\ Faces!Restart => HintInv'
<1>1. SUFFICES ASSUME Faces!Restart PROVE HintInv'
  OBVIOUS
<1>2. /\ rec' = [h \in Hosts |-> Faces!Blank] /\ job' = [h \in Hosts |-> Faces!Idle] /\ mounted' = {}
      /\ overtaken' = [h \in Hosts |-> FALSE]
  BY <1>1 DEF Faces!Restart, Faces!Fresh
<1>3. QED
  BY <1>2, FaceShapes DEF HintInv, HintSound

LEMMA HintHolds == Spec => []HintInv
<1>1. Init => HintInv
  <2>1. SUFFICES ASSUME Faces!Init PROVE HintInv
    BY DEF Init
  <2>2. /\ rec = [h \in Hosts |-> Faces!Blank] /\ job = [h \in Hosts |-> Faces!Idle] /\ mounted = {}
        /\ overtaken = [h \in Hosts |-> FALSE]
    BY <2>1 DEF Faces!Init, Faces!Fresh
  <2> QED
    BY <2>2, FaceShapes DEF HintInv, HintSound
<1>2. FaceInv /\ HintInv /\ Faces!Next => HintInv'
  BY HintRestored, HintMount, HintUnmount, HintDiscard, HintAge, HintAgeSaved, HintTaken, HintResolved, HintNote,
     HintPrime, HintShow, HintRecover, HintRestart DEF Faces!Next, Faces!Restores, Picture
<1>3. HintInv /\ UNCHANGED Faces!vars => HintInv'
  BY DEF Faces!vars, Faces!history, HintInv, HintSound, Follows, Faces!Answered
<1>4. FaceInv /\ HintInv /\ [Next]_vars => HintInv'
  BY <1>2, <1>3, FacesRun
<1>5. QED
  BY <1>1, <1>4, FaceHolds, PTL DEF Spec

LEMMA OnScreenHolds == Spec => []Faces!OnScreenFollowsHint
<1>1. HintInv => Faces!OnScreenFollowsHint
  BY DEF HintInv, HintSound, Follows, Faces!OnScreenFollowsHint
<1>2. QED
  BY <1>1, HintHolds, PTL

---------------------------------------------------------------------------
(* The conversations. *)

LEMMA ChatAssumed ==
  /\ ChatBudget \in Nat /\ None \notin Chats!Convs /\ None \notin Chats!Thread /\ None \notin Chats!Load
  /\ Peers \subseteq Chats!Convs /\ Groups \subseteq Chats!Convs
BY PartsAssumption DEF Chats!ConversationsAssumption, Chats!Convs, Chats!Thread, Chats!Load, Chats!Record

LEMMA ChatShapes ==
  /\ Chats!Absent \in Chats!Record /\ ~Chats!Absent.unread /\ Chats!Absent.status = "none"
  /\ [Chats!Absent EXCEPT !.status = "accepted"] \in Chats!Record
  /\ ~[Chats!Absent EXCEPT !.status = "accepted"].unread
  /\ Chats!Undecided \in Answered /\ Chats!Undecided.at = "idle" /\ ~Chats!Undecided.mounted
  /\ \A c \in Chats!Convs, a \in BOOLEAN : [conv |-> c, asks |-> a] \in Chats!Thread
  /\ \A th \in Chats!Thread : th # None /\ th.conv \in Chats!Convs /\ th.asks \in BOOLEAN
BY ChatAssumed DEF Chats!Absent, Chats!Record, Chats!Undecided, Answered, Chats!Thread

LEMMA FreshLoad ==
  /\ Chats!Fresh \in Chats!Load /\ Chats!Fresh # None /\ ~Chats!Fresh.listed /\ Chats!Fresh.todo = {}
  /\ \A c \in Chats!Convs : Chats!Fresh.got[c] = Chats!Absent
<1>1. [c \in Chats!Convs |-> Chats!Absent] \in [Chats!Convs -> Chats!Record]
  BY ChatShapes
<1>2. Chats!Fresh \in Chats!Load
  BY <1>1 DEF Chats!Fresh, Chats!Load
<1>3. QED
  BY <1>2, ChatAssumed DEF Chats!Fresh

(* What a load of the window has, and what the others leave of the thread's requests. *)
LEMMA LoadFacts ==
  ASSUME ChatTypes, load # None
  PROVE  /\ load \in Chats!Load /\ load.listed \in BOOLEAN /\ load.old \in BOOLEAN
         /\ load.todo \subseteq Chats!Convs /\ load.got \in [Chats!Convs -> Chats!Record]
BY DEF ChatTypes, Chats!Load

LEMMA UnmountedFacts ==
  ASSUME ChatTypes
  PROVE  /\ Chats!Unmounted \in [Chats!Convs -> Answered]
         /\ \A c \in Chats!Convs : /\ ~Chats!Unmounted[c].mounted /\ Chats!Unmounted[c].act = decisions[c].act
                                   /\ Chats!Unmounted[c].at = decisions[c].at
BY DEF ChatTypes, Chats!Unmounted, Answered

LEMMA ReadsFacts ==
  ASSUME NEW th \in Chats!Thread \union {None}, NEW front
  PROVE  Chats!Reads(th, front) \subseteq Chats!Convs
BY ChatShapes DEF Chats!Reads

LEMMA SpendFacts == ASSUME ChatTypes, Chats!Spend PROVE spent' \in 0..ChatBudget
BY ChatAssumed DEF ChatTypes, Chats!Spend

(* A step that leaves the service, the loads and what is listed alone, and does not take   *)
(* the thread off the screen.                                                          *)
LEMMA ChatAside ==
  ASSUME ChatInv, UNCHANGED <<convs, due, behind, access, list, listState, load, stale>>,
         ChatTypes', thread' = None => thread = None
  PROVE  Listing' /\ Chats!ListIsCurrent'
BY DEF ChatInv, Listing, Chats!ListIsCurrent

(* A step that starts a load. *)
LEMMA ChatReloads ==
  ASSUME ChatTypes', load' = Chats!Fresh
  PROVE  Listing' /\ Chats!ListIsCurrent'
BY FreshLoad DEF Listing, Chats!ListIsCurrent

(* A change of a record at the service. *)
LEMMA ChatWrites ==
  ASSUME ChatInv, NEW c \in Chats!Convs, NEW r \in Chats!Record, Chats!Write(c, r), r.unread => r.status = "accepted",
         UNCHANGED <<behind, access, list, listState, load, thread, stale>>
  PROVE  /\ convs' \in [Chats!Convs -> Chats!Record] /\ due' \in BOOLEAN
         /\ \A d \in Chats!Convs : convs'[d].unread => convs'[d].status = "accepted"
         /\ Listing' /\ Chats!ListIsCurrent'
<1>1. ChatTypes /\ ChatsSound /\ convs' = [convs EXCEPT ![c] = r] /\ due' = (due \/ r # convs[c])
  BY DEF ChatInv, Chats!Write
<1>2. convs' \in [Chats!Convs -> Chats!Record] /\ due' \in BOOLEAN
  BY <1>1 DEF ChatTypes
<1>3. ~due' => convs' = convs /\ ~due
  BY <1>1 DEF ChatTypes
<1>4. \A d \in Chats!Convs : convs'[d].unread => convs'[d].status = "accepted"
  BY <1>1 DEF ChatTypes, ChatsSound
<1>5. Listing' /\ Chats!ListIsCurrent'
  BY <1>3 DEF ChatInv, Listing, Chats!ListIsCurrent
<1>6. QED
  BY <1>2, <1>4, <1>5

LEMMA ChatArrive == ASSUME ChatInv, NEW c \in Chats!Convs, Chats!Arrive(c) PROVE ChatInv'
<1>1. /\ Chats!Spend /\ Chats!Write(c, Chats!Incoming(convs[c])) /\ ChatTypes /\ ChatsSound
      /\ UNCHANGED <<behind, access, list, listState, load, thread, foreground, stale, clears, decisions, notice, making, lost>>
  BY DEF Chats!Arrive, Chats!screen, Chats!asked, ChatInv
<1>2. convs[c] \in Chats!Record /\ (convs[c].unread => convs[c].status = "accepted")
  BY <1>1 DEF ChatTypes, ChatsSound
<1>3. Chats!Incoming(convs[c]) \in Chats!Record
      /\ (Chats!Incoming(convs[c]).unread => Chats!Incoming(convs[c]).status = "accepted")
  BY <1>2 DEF Chats!Incoming, Chats!Record
<1>4. /\ convs' \in [Chats!Convs -> Chats!Record] /\ due' \in BOOLEAN
      /\ \A d \in Chats!Convs : convs'[d].unread => convs'[d].status = "accepted"
      /\ Listing' /\ Chats!ListIsCurrent'
  BY <1>1, <1>3, ChatWrites
<1>5. ChatTypes'
  BY <1>1, <1>4, SpendFacts DEF ChatTypes
<1>6. ChatsSound'
  BY <1>1, <1>4 DEF ChatsSound, Chats!On
<1>7. QED
  BY <1>4, <1>5, <1>6 DEF ChatInv

LEMMA ChatBump == ASSUME ChatInv, Chats!Bump PROVE ChatInv'
<1>1. /\ due' = FALSE /\ behind' = TRUE
      /\ UNCHANGED <<convs, access, list, listState, load, thread, foreground, stale, clears, decisions, notice, making, lost, spent>>
  BY DEF Chats!Bump, Chats!screen, Chats!asked
<1>2. QED
  BY <1>1 DEF ChatInv, ChatTypes, ChatsSound, Listing, Chats!ListIsCurrent, Chats!On

LEMMA ChatNotice == ASSUME ChatInv, Chats!Notice PROVE ChatInv'
<1>1. /\ behind' = FALSE /\ (IF access THEN load' = Chats!Fresh ELSE load' = load)
      /\ clears' = clears \union Chats!Receipts /\ lost' = lost \ Chats!Receipts
      /\ UNCHANGED <<convs, due, access, list, listState, thread, foreground, stale, decisions, notice, making, spent>>
      /\ ChatTypes /\ ChatsSound
  BY DEF Chats!Notice, Chats!service, Chats!Heard, Chats!Reload, ChatInv
<1>2. Chats!Receipts \subseteq Chats!Convs
  BY <1>1, ReadsFacts DEF Chats!Receipts, ChatTypes
<1>3. ChatTypes'
  BY <1>1, <1>2, FreshLoad DEF ChatTypes
<1>4. ChatsSound'
  BY <1>1 DEF ChatsSound, Chats!On
<1>5. Listing' /\ Chats!ListIsCurrent'
  <2>1. CASE access
    BY <1>1, <1>3, <2>1, ChatReloads
  <2>2. CASE ~access
    BY <1>1, <2>2 DEF ChatInv, Listing, Chats!ListIsCurrent
  <2> QED
    BY <2>1, <2>2
<1>6. QED
  BY <1>3, <1>4, <1>5 DEF ChatInv

LEMMA ChatForeground == ASSUME ChatInv, Chats!Foreground PROVE ChatInv'
<1>1. /\ Chats!Spend /\ foreground' = ~foreground /\ ChatTypes /\ ChatsSound
      /\ clears' = clears \union Chats!Reads(thread, ~foreground) /\ lost' = lost \ Chats!Reads(thread, ~foreground)
      /\ UNCHANGED <<convs, due, behind, access, list, listState, load, thread, stale, decisions, notice, making>>
  BY DEF Chats!Foreground, Chats!service, ChatInv
<1>2. Chats!Reads(thread, ~foreground) \subseteq Chats!Convs
  BY <1>1, ReadsFacts DEF ChatTypes
<1>3. ChatTypes'
  BY <1>1, <1>2, SpendFacts DEF ChatTypes
<1>4. ChatsSound'
  BY <1>1 DEF ChatsSound, Chats!On
<1>5. QED
  BY <1>1, <1>3, <1>4, ChatAside DEF ChatInv

LEMMA ChatAccess == ASSUME ChatInv, Chats!AccessChanges PROVE ChatInv'
<1>1. /\ Chats!Spend /\ access' = ~access /\ ChatTypes /\ ChatsSound
      /\ UNCHANGED <<convs, due, behind, foreground, clears, notice, making, lost>>
      /\ \/ load' = Chats!Fresh /\ UNCHANGED <<list, listState, thread, decisions, stale>>
         \/ /\ load' = None /\ list' = [c \in Chats!Convs |-> Chats!Absent] /\ listState' = "loading"
            /\ thread' = None /\ decisions' = Chats!Unmounted /\ stale' = FALSE
  BY DEF Chats!AccessChanges, Chats!service, Chats!Reload, ChatInv
<1>2. CASE load' = Chats!Fresh /\ UNCHANGED <<list, listState, thread, decisions, stale>>
  <2>1. ChatTypes'
    BY <1>1, <1>2, SpendFacts, FreshLoad DEF ChatTypes
  <2>2. ChatsSound'
    BY <1>1, <1>2 DEF ChatsSound, Chats!On
  <2> QED
    BY <1>2, <2>1, <2>2, ChatReloads DEF ChatInv
<1>3. CASE /\ load' = None /\ list' = [c \in Chats!Convs |-> Chats!Absent] /\ listState' = "loading"
           /\ thread' = None /\ decisions' = Chats!Unmounted /\ stale' = FALSE
  <2>1. ChatTypes'
    BY <1>1, <1>3, SpendFacts, ChatShapes, UnmountedFacts DEF ChatTypes
  <2>2. ChatsSound'
    BY <1>1, <1>3, UnmountedFacts DEF ChatsSound, Chats!On
  <2>3. Listing' /\ Chats!ListIsCurrent'
    BY <1>3 DEF Listing, Chats!ListIsCurrent
  <2> QED
    BY <2>1, <2>2, <2>3 DEF ChatInv
<1>4. QED
  BY <1>1, <1>2, <1>3

LEMMA ChatListAll == ASSUME ChatInv, Chats!ListAll PROVE ChatInv'
<1> DEFINE todo == {c \in Chats!Convs : convs[c] # Chats!Absent}
<1>1. /\ load # None /\ ~load.listed /\ load' = [load EXCEPT !.listed = TRUE, !.todo = todo]
      /\ UNCHANGED <<convs, due, behind, access, list, listState, thread, foreground, stale, clears, decisions, notice, making, lost, spent>>
      /\ ChatTypes /\ ChatsSound /\ Listing
  BY DEF Chats!ListAll, Chats!service, Chats!asked, ChatInv
<1>2. load \in Chats!Load
  BY <1>1, LoadFacts
<1>3. /\ load' \in Chats!Load /\ load' # None /\ load'.listed /\ load'.todo = todo /\ load'.got = load.got
  BY <1>1, <1>2, ChatAssumed DEF Chats!Load
<1>4. ChatTypes'
  BY <1>1, <1>3 DEF ChatTypes
<1>5. ChatsSound'
  BY <1>1 DEF ChatsSound, Chats!On
<1>6. \A c \in Chats!Convs : load.got[c] = Chats!Absent
  BY <1>1 DEF Listing
<1>7. Listing' /\ Chats!ListIsCurrent'
  BY <1>1, <1>3, <1>6 DEF Listing, Chats!ListIsCurrent
<1>8. QED
  BY <1>4, <1>5, <1>7 DEF ChatInv

LEMMA ChatRead == ASSUME ChatInv, NEW c \in Chats!Convs, Chats!Read(c) PROVE ChatInv'
<1>1. /\ load # None /\ c \in load.todo
      /\ \/ load' = [load EXCEPT !.todo = @ \ {c}, !.got[c] = convs[c]] /\ UNCHANGED spent
         \/ Chats!Spend /\ load' = [load EXCEPT !.todo = @ \ {c}, !.got[c] = list[c], !.old = TRUE]
      /\ UNCHANGED <<convs, due, behind, access, list, listState, thread, foreground, stale, clears, decisions, notice, making, lost>>
      /\ ChatTypes /\ ChatsSound /\ Listing
  BY DEF Chats!Read, Chats!service, Chats!asked, ChatInv
<1>2. load \in Chats!Load /\ load.got \in [Chats!Convs -> Chats!Record]
  BY <1>1, LoadFacts
<1>3. load.listed
  BY <1>1 DEF Listing
<1>4. /\ load' \in Chats!Load /\ load' # None /\ load'.listed /\ load'.todo = load.todo \ {c}
      /\ \A d \in Chats!Convs : d # c => load'.got[d] = load.got[d]
      /\ ~load'.old => ~load.old /\ load'.got[c] = convs[c]
  <2> DEFINE todo == load.todo \ {c}
             read == [load.got EXCEPT ![c] = convs[c]]
             kept == [load.got EXCEPT ![c] = list[c]]
  <2>1. /\ todo \subseteq Chats!Convs /\ load.listed \in BOOLEAN /\ load.old \in BOOLEAN
        /\ read \in [Chats!Convs -> Chats!Record] /\ kept \in [Chats!Convs -> Chats!Record] /\ read[c] = convs[c]
        /\ \A d \in Chats!Convs : d # c => read[d] = load.got[d] /\ kept[d] = load.got[d]
    BY <1>1, <1>2, LoadFacts DEF ChatTypes
  <2>2. \/ load' = [load EXCEPT !.todo = todo, !.got = read]
        \/ load' = [load EXCEPT !.todo = todo, !.got = kept, !.old = TRUE]
    BY <1>1, <1>2 DEF Chats!Load
  <2> HIDE DEF todo, read, kept
  <2>3. CASE load' = [load EXCEPT !.todo = todo, !.got = read]
    <3>1. /\ load' \in Chats!Load /\ load'.listed = load.listed /\ load'.todo = todo /\ load'.got = read
          /\ load'.old = load.old
      BY <1>2, <2>1, <2>3 DEF Chats!Load
    <3> QED
      BY <1>3, <2>1, <3>1, ChatAssumed DEF todo
  <2>4. CASE load' = [load EXCEPT !.todo = todo, !.got = kept, !.old = TRUE]
    <3>1. /\ load' \in Chats!Load /\ load'.listed = load.listed /\ load'.todo = todo /\ load'.got = kept
          /\ load'.old = TRUE
      BY <1>2, <2>1, <2>4 DEF Chats!Load
    <3> QED
      BY <1>3, <2>1, <3>1, ChatAssumed DEF todo
  <2> QED
    BY <2>2, <2>3, <2>4
<1>5. spent' \in 0..ChatBudget
  BY <1>1, SpendFacts DEF ChatTypes
<1>6. ChatTypes'
  BY <1>1, <1>4, <1>5 DEF ChatTypes
<1>7. ChatsSound'
  BY <1>1 DEF ChatsSound, Chats!On
<1>8. Listing' /\ Chats!ListIsCurrent'
  BY <1>1, <1>3, <1>4 DEF Listing, Chats!ListIsCurrent
<1>9. QED
  BY <1>6, <1>7, <1>8 DEF ChatInv

LEMMA ChatLoaded == ASSUME ChatInv, Chats!Loaded PROVE ChatInv'
<1>1. /\ load # None /\ load.listed /\ load.todo = {}
      /\ list' = load.got /\ listState' = "ready" /\ stale' = load.old /\ load' = None
      /\ UNCHANGED <<convs, due, behind, access, thread, foreground, clears, decisions, notice, making, lost, spent>>
      /\ ChatTypes /\ ChatsSound /\ Listing
  BY DEF Chats!Loaded, Chats!service, Chats!asked, ChatInv
<1>2. /\ load.old \in BOOLEAN /\ load.got \in [Chats!Convs -> Chats!Record]
  BY <1>1, LoadFacts
<1>3. ChatTypes'
  BY <1>1, <1>2 DEF ChatTypes
<1>4. ChatsSound'
  BY <1>1 DEF ChatsSound, Chats!On
<1>5. access /\ ~due /\ ~behind /\ ~load.old => load.got = convs
  BY <1>1, <1>2 DEF Listing, ChatTypes
<1>6. Listing' /\ Chats!ListIsCurrent'
  BY <1>1, <1>5 DEF Listing, Chats!ListIsCurrent
<1>7. QED
  BY <1>3, <1>4, <1>6 DEF ChatInv

LEMMA ChatLoadFails == ASSUME ChatInv, Chats!LoadFails PROVE ChatInv'
<1>1. /\ Chats!Spend /\ listState' = "error" /\ load' = None
      /\ UNCHANGED <<convs, due, behind, access, list, thread, foreground, stale, clears, decisions, notice, making, lost>>
      /\ ChatTypes /\ ChatsSound
  BY DEF Chats!LoadFails, Chats!service, Chats!asked, ChatInv
<1>2. ChatTypes'
  BY <1>1, SpendFacts DEF ChatTypes
<1>3. ChatsSound'
  BY <1>1 DEF ChatsSound, Chats!On
<1>4. QED
  BY <1>1, <1>2, <1>3 DEF ChatInv, Listing, Chats!ListIsCurrent

LEMMA ChatRetry == ASSUME ChatInv, Chats!RetryLoad PROVE ChatInv'
<1>1. /\ Chats!Spend /\ load' = Chats!Fresh
      /\ UNCHANGED <<convs, due, behind, access, list, listState, thread, foreground, stale, clears, decisions, notice, making, lost>>
      /\ ChatTypes /\ ChatsSound
  BY DEF Chats!RetryLoad, Chats!Reload, Chats!service, Chats!asked, ChatInv
<1>2. ChatTypes'
  BY <1>1, SpendFacts, FreshLoad DEF ChatTypes
<1>3. ChatsSound'
  BY <1>1 DEF ChatsSound, Chats!On
<1>4. QED
  BY <1>1, <1>2, <1>3, ChatReloads DEF ChatInv

(* A thread comes on screen where none was, or in another one's place. *)
LEMMA ChatDisplays ==
  ASSUME ChatInv, NEW th \in Chats!Thread, Chats!Display(th),
         \/ decisions' = Chats!Unmounted
         \/ decisions' \in [Chats!Convs -> Answered] /\ \A c \in Chats!Convs :
              /\ decisions'[c].mounted => c = th.conv
              /\ decisions'[c].at = "asked" => decisions'[c].act # "no"
  PROVE  /\ thread' \in Chats!Thread /\ thread' # None /\ clears' \subseteq Chats!Convs /\ lost' \subseteq Chats!Convs
         /\ decisions' \in [Chats!Convs -> Answered]
         /\ convs' = convs => ChatsSound'
<1>1. ChatTypes /\ ChatsSound /\ thread' = th /\ th # None
      /\ clears' = clears \union Chats!Reads(th, foreground) /\ lost' = lost \ Chats!Reads(th, foreground)
  BY ChatShapes DEF Chats!Display, ChatInv
<1>2. Chats!Reads(th, foreground) \subseteq Chats!Convs
  BY ReadsFacts
<1>3. clears' \subseteq Chats!Convs /\ lost' \subseteq Chats!Convs
  BY <1>1, <1>2 DEF ChatTypes
<1>4. /\ decisions' \in [Chats!Convs -> Answered] /\ \A c \in Chats!Convs :
           /\ decisions'[c].mounted => c = th.conv
           /\ decisions'[c].at = "asked" => decisions'[c].act # "no"
  <2>1. CASE decisions' = Chats!Unmounted
    BY <1>1, <2>1, UnmountedFacts DEF ChatsSound
  <2> QED
    BY <2>1
<1>5. convs' = convs => ChatsSound'
  BY <1>1, <1>4 DEF ChatsSound, Chats!On
<1>6. QED
  BY <1>1, <1>3, <1>4, <1>5

LEMMA ChatNone ==
  ASSUME ChatInv, thread = None
  PROVE  /\ decisions \in [Chats!Convs -> Answered]
         /\ \A c \in Chats!Convs : /\ ~decisions[c].mounted /\ (decisions[c].at = "asked" => decisions[c].act # "no")
BY DEF ChatInv, ChatTypes, ChatsSound, Chats!On

LEMMA ChatOpens ==
  ASSUME ChatInv, thread = None, Chats!Spend, NEW c \in Chats!Convs, NEW a \in BOOLEAN,
         Chats!Display([conv |-> c, asks |-> a]),
         UNCHANGED <<convs, due, behind, access, list, listState, load, foreground, stale, decisions, notice, making>>
  PROVE  ChatInv'
<1>1. ChatTypes /\ [conv |-> c, asks |-> a] \in Chats!Thread
  BY ChatShapes DEF ChatInv
<1>2. /\ thread' \in Chats!Thread /\ thread' # None /\ clears' \subseteq Chats!Convs /\ lost' \subseteq Chats!Convs
      /\ ChatsSound'
  BY <1>1, ChatNone, ChatDisplays
<1>3. ChatTypes'
  BY <1>1, <1>2, SpendFacts DEF ChatTypes
<1>4. QED
  BY <1>2, <1>3, ChatAside DEF ChatInv

LEMMA ChatRow == ASSUME ChatInv, NEW c \in Chats!Convs, Chats!OpenRow(c) PROVE ChatInv'
<1> DEFINE a == list[c].status = "pending"
<1>1. /\ thread = None /\ Chats!Spend /\ Chats!Display([conv |-> c, asks |-> a])
      /\ UNCHANGED <<convs, due, behind, access, list, listState, load, foreground, stale, decisions, notice, making>>
  BY DEF Chats!OpenRow, Chats!service
<1>2. a \in BOOLEAN
  OBVIOUS
<1> HIDE DEF a
<1>3. QED
  BY <1>1, <1>2, ChatOpens

LEMMA ChatPerson == ASSUME ChatInv, NEW p \in Peers, Chats!OpenPerson(p) PROVE ChatInv'
<1>1. /\ thread = None /\ Chats!Spend /\ Chats!Display([conv |-> p, asks |-> FALSE])
      /\ UNCHANGED <<convs, due, behind, access, list, listState, load, foreground, stale, decisions, notice, making>>
  BY DEF Chats!OpenPerson, Chats!service
<1>2. p \in Chats!Convs /\ FALSE \in BOOLEAN
  BY ChatAssumed
<1>3. QED
  BY <1>1, <1>2, ChatOpens

LEMMA ChatTap == ASSUME ChatInv, NEW c \in Chats!Convs, Chats!Tap(c) PROVE ChatInv'
<1>1. /\ Chats!Spend /\ notice' = c /\ ChatTypes /\ ChatsSound
      /\ UNCHANGED <<convs, due, behind, access, list, listState, load, thread, foreground, stale, clears, decisions, making, lost>>
  BY DEF Chats!Tap, Chats!service, Chats!screen, ChatInv
<1>2. ChatTypes'
  BY <1>1, SpendFacts DEF ChatTypes
<1>3. ChatsSound'
  BY <1>1 DEF ChatsSound, Chats!On
<1>4. QED
  BY <1>1, <1>2, <1>3, ChatAside DEF ChatInv

(* A conversation shown over whatever is on screen, which stays if it is that one. *)
LEMMA ChatShown ==
  ASSUME ChatInv, NEW c \in Chats!Convs, NEW a \in BOOLEAN, Chats!Shows([conv |-> c, asks |-> a]), convs' = convs
  PROVE  /\ thread' \in Chats!Thread /\ thread' # None /\ clears' \subseteq Chats!Convs /\ lost' \subseteq Chats!Convs
         /\ decisions' \in [Chats!Convs -> Answered] /\ ChatsSound'
<1> DEFINE th == [conv |-> c, asks |-> a]
<1>1. th \in Chats!Thread /\ th.conv = c
  BY ChatShapes
<1> HIDE DEF th
<1>2. \/ Chats!On(c) /\ UNCHANGED <<thread, clears, lost, decisions>>
      \/ Chats!Display(th) /\ decisions' = Chats!Unmounted
  BY <1>1 DEF Chats!Shows, th
<1>3. CASE Chats!On(c) /\ UNCHANGED <<thread, clears, lost, decisions>>
  BY <1>3 DEF Chats!On, ChatInv, ChatTypes, ChatsSound
<1>4. CASE Chats!Display(th) /\ decisions' = Chats!Unmounted
  BY <1>1, <1>4, ChatDisplays
<1>5. QED
  BY <1>2, <1>3, <1>4

LEMMA ChatTapOpens == ASSUME ChatInv, Chats!TapOpens PROVE ChatInv'
<1> DEFINE a == convs[notice].status = "pending"
<1>1. /\ notice # None /\ notice' = None /\ ChatTypes /\ ChatsSound
      /\ Chats!Shows([conv |-> notice, asks |-> a]) \/ UNCHANGED <<thread, clears, lost, decisions>>
      /\ UNCHANGED <<convs, due, behind, access, list, listState, load, foreground, stale, making, spent>>
  BY DEF Chats!TapOpens, Chats!service, ChatInv
<1>2. notice \in Chats!Convs /\ a \in BOOLEAN
  BY <1>1 DEF ChatTypes
<1> HIDE DEF a
<1>3. CASE Chats!Shows([conv |-> notice, asks |-> a])
  <2>1. /\ thread' \in Chats!Thread /\ thread' # None /\ clears' \subseteq Chats!Convs /\ lost' \subseteq Chats!Convs
        /\ decisions' \in [Chats!Convs -> Answered] /\ ChatsSound'
    BY <1>1, <1>2, <1>3, ChatShown
  <2>2. ChatTypes'
    BY <1>1, <2>1 DEF ChatTypes
  <2> QED
    BY <1>1, <2>1, <2>2, ChatAside DEF ChatInv
<1>4. CASE UNCHANGED <<thread, clears, lost, decisions>>
  <2>1. ChatTypes'
    BY <1>1, <1>4 DEF ChatTypes
  <2>2. ChatsSound'
    BY <1>1, <1>4 DEF ChatsSound, Chats!On
  <2> QED
    BY <1>1, <1>4, <2>1, <2>2, ChatAside DEF ChatInv
<1>5. QED
  BY <1>1, <1>3, <1>4

LEMMA ChatBack == ASSUME ChatInv, Chats!Back PROVE ChatInv'
<1>1. /\ thread' = None /\ decisions' = Chats!Unmounted /\ load' = Chats!Fresh /\ ChatTypes /\ ChatsSound
      /\ UNCHANGED <<convs, due, behind, access, list, listState, foreground, stale, clears, notice, making, lost, spent>>
  BY DEF Chats!Back, Chats!Leave, Chats!Reload, Chats!service, ChatInv
<1>2. ChatTypes'
  BY <1>1, FreshLoad, UnmountedFacts DEF ChatTypes
<1>3. ChatsSound'
  BY <1>1, UnmountedFacts DEF ChatsSound, Chats!On
<1>4. QED
  BY <1>1, <1>2, <1>3, ChatReloads DEF ChatInv

LEMMA ChatFirst == ASSUME ChatInv, NEW p \in Peers, Chats!FirstSend(p) PROVE ChatInv'
<1>1. /\ Chats!Write(p, [Chats!Absent EXCEPT !.status = "accepted"]) /\ ChatTypes /\ ChatsSound
      /\ UNCHANGED <<behind, access, list, listState, load, thread, foreground, stale, clears, decisions, notice, making, lost, spent>>
  BY DEF Chats!FirstSend, Chats!screen, Chats!asked, ChatInv
<1>2. /\ convs' \in [Chats!Convs -> Chats!Record] /\ due' \in BOOLEAN
      /\ \A d \in Chats!Convs : convs'[d].unread => convs'[d].status = "accepted"
      /\ Listing' /\ Chats!ListIsCurrent'
  BY <1>1, ChatAssumed, ChatShapes, ChatWrites
<1>3. ChatTypes'
  BY <1>1, <1>2 DEF ChatTypes
<1>4. ChatsSound'
  BY <1>1, <1>2 DEF ChatsSound, Chats!On
<1>5. QED
  BY <1>2, <1>3, <1>4 DEF ChatInv

LEMMA ChatCleared == ASSUME ChatInv, NEW c \in Chats!Convs, Chats!Cleared(c) PROVE ChatInv'
<1> DEFINE r == [convs[c] EXCEPT !.unread = FALSE]
<1>1. /\ clears' = clears \ {c} /\ Chats!Write(c, r) /\ ChatTypes /\ ChatsSound
      /\ UNCHANGED <<behind, access, list, listState, load, thread, foreground, stale, decisions, notice, making, lost, spent>>
  BY DEF Chats!Cleared, Chats!screen, ChatInv
<1>2. r \in Chats!Record /\ ~r.unread
  BY <1>1 DEF ChatTypes, Chats!Record
<1> HIDE DEF r
<1>3. /\ convs' \in [Chats!Convs -> Chats!Record] /\ due' \in BOOLEAN
      /\ \A d \in Chats!Convs : convs'[d].unread => convs'[d].status = "accepted"
      /\ Listing' /\ Chats!ListIsCurrent'
  BY <1>1, <1>2, ChatWrites
<1>4. ChatTypes'
  BY <1>1, <1>3 DEF ChatTypes
<1>5. ChatsSound'
  BY <1>1, <1>3 DEF ChatsSound, Chats!On
<1>6. QED
  BY <1>3, <1>4, <1>5 DEF ChatInv

LEMMA ChatClearFails == ASSUME ChatInv, NEW c \in Chats!Convs, Chats!ClearFails(c) PROVE ChatInv'
<1>1. /\ Chats!Spend /\ clears' = clears \ {c} /\ lost' = lost \union {c} /\ ChatTypes /\ ChatsSound
      /\ UNCHANGED <<convs, due, behind, access, list, listState, load, thread, foreground, stale, decisions, notice, making>>
  BY DEF Chats!ClearFails, Chats!service, Chats!screen, ChatInv
<1>2. ChatTypes'
  BY <1>1, SpendFacts DEF ChatTypes
<1>3. ChatsSound'
  BY <1>1 DEF ChatsSound, Chats!On
<1>4. QED
  BY <1>1, <1>2, <1>3, ChatAside DEF ChatInv

LEMMA ChatDecide ==
  ASSUME ChatInv, NEW c \in Chats!Convs, NEW act \in {"accepted", "declined"}, Chats!Decide(c, act)
  PROVE  ChatInv'
<1> DEFINE d == [act |-> act, at |-> "asked", mounted |-> TRUE]
<1>1. /\ Chats!On(c) /\ decisions' = [decisions EXCEPT ![c] = d] /\ ChatTypes /\ ChatsSound
      /\ UNCHANGED <<convs, due, behind, access, list, listState, load, thread, foreground, stale, clears, notice, making, lost, spent>>
  BY DEF Chats!Decide, Chats!service, Chats!screen, ChatInv
<1>2. d \in Answered /\ d.act # "no"
  BY DEF Answered
<1> HIDE DEF d
<1>3. ChatTypes'
  BY <1>1, <1>2 DEF ChatTypes
<1>4. ChatsSound'
  BY <1>1, <1>2 DEF ChatsSound, ChatTypes, Chats!On
<1>5. QED
  BY <1>1, <1>3, <1>4, ChatAside DEF ChatInv

LEMMA ChatServed == ASSUME ChatInv, NEW c \in Chats!Convs, Chats!DecisionServed(c) PROVE ChatInv'
<1> DEFINE r == [status |-> decisions[c].act, unread |-> FALSE]
<1>1. /\ decisions[c].at = "asked" /\ ChatTypes /\ ChatsSound
      /\ \E at \in {"done", "failed"} : decisions' = [decisions EXCEPT ![c].at = at]
      /\ UNCHANGED spent \/ Chats!Spend
      /\ Chats!Write(c, r) \/ UNCHANGED <<convs, due>>
      /\ UNCHANGED <<behind, access, list, listState, load, thread, foreground, stale, clears, notice, making, lost>>
  BY DEF Chats!DecisionServed, Chats!service, Chats!screen, ChatInv
<1>2. r \in Chats!Record /\ ~r.unread
  BY <1>1 DEF ChatTypes, ChatsSound, Answered, Chats!Record
<1> HIDE DEF r
<1>3. /\ convs' \in [Chats!Convs -> Chats!Record] /\ due' \in BOOLEAN
      /\ \A e \in Chats!Convs : convs'[e].unread => convs'[e].status = "accepted"
      /\ Listing' /\ Chats!ListIsCurrent'
  <2>1. CASE Chats!Write(c, r)
    BY <1>1, <1>2, <2>1, ChatWrites
  <2>2. CASE UNCHANGED <<convs, due>>
    BY <1>1, <2>2 DEF ChatInv, ChatTypes, ChatsSound, Listing, Chats!ListIsCurrent
  <2> QED
    BY <1>1, <2>1, <2>2
<1>4. /\ decisions' \in [Chats!Convs -> Answered] /\ decisions'[c].at # "asked"
      /\ decisions'[c].mounted = decisions[c].mounted
      /\ \A e \in Chats!Convs : e # c => decisions'[e] = decisions[e]
  <2>1. PICK at \in {"done", "failed"} : decisions' = [decisions EXCEPT ![c].at = at]
    BY <1>1
  <2> DEFINE d == [decisions[c] EXCEPT !.at = at]
  <2>2. d \in Answered /\ d.at = at /\ d.mounted = decisions[c].mounted
    BY <1>1, <2>1 DEF ChatTypes, Answered
  <2>3. decisions' = [decisions EXCEPT ![c] = d]
    BY <2>1
  <2> HIDE DEF d
  <2> QED
    BY <1>1, <2>1, <2>2, <2>3 DEF ChatTypes
<1>5. spent' \in 0..ChatBudget
  BY <1>1, SpendFacts DEF ChatTypes
<1>6. ChatTypes'
  BY <1>1, <1>3, <1>4, <1>5 DEF ChatTypes
<1>7. ChatsSound'
  BY <1>1, <1>3, <1>4 DEF ChatsSound, Chats!On
<1>8. QED
  BY <1>3, <1>6, <1>7 DEF ChatInv

LEMMA ChatDecided == ASSUME ChatInv, NEW c \in Chats!Convs, Chats!Decided(c) PROVE ChatInv'
<1> DEFINE ended == [decisions EXCEPT ![c] = Chats!Undecided]
           closed == [Chats!Unmounted EXCEPT ![c] = Chats!Undecided]
           th == [conv |-> c, asks |-> FALSE]
<1>1. /\ \/ decisions[c].mounted /\ Chats!Display(th) /\ decisions' = ended /\ UNCHANGED load
         \/ decisions' = ended /\ UNCHANGED <<load, thread, clears, lost>>
         \/ thread' = None /\ load' = Chats!Fresh /\ decisions' = closed /\ UNCHANGED <<clears, lost>>
      /\ UNCHANGED <<convs, due, behind, access, list, listState, foreground, stale, notice, making, spent>>
      /\ ChatTypes /\ ChatsSound
  BY DEF Chats!Decided, Chats!Reload, Chats!service, ChatInv
<1>2. /\ ended \in [Chats!Convs -> Answered] /\ ended[c] = Chats!Undecided
      /\ \A d \in Chats!Convs : d # c => ended[d] = decisions[d]
  BY <1>1, ChatShapes DEF ChatTypes
<1>3. /\ closed \in [Chats!Convs -> Answered] /\ closed[c] = Chats!Undecided
      /\ \A d \in Chats!Convs : d # c => closed[d] = Chats!Unmounted[d]
  BY <1>1, ChatShapes, UnmountedFacts
<1>4. th \in Chats!Thread /\ th.conv = c
  BY ChatShapes
<1> HIDE DEF ended, closed, th
<1>5. CASE decisions[c].mounted /\ Chats!Display(th) /\ decisions' = ended /\ UNCHANGED load
  <2>1. \A d \in Chats!Convs : /\ ended[d].mounted => d = th.conv
                               /\ ended[d].at = "asked" => ended[d].act # "no"
    BY <1>1, <1>2, <1>4, <1>5, ChatShapes DEF ChatsSound, Chats!On
  <2>2. /\ thread' \in Chats!Thread /\ thread' # None /\ clears' \subseteq Chats!Convs /\ lost' \subseteq Chats!Convs
        /\ ChatsSound'
    BY <1>1, <1>2, <1>4, <1>5, <2>1, ChatDisplays
  <2>3. ChatTypes'
    BY <1>1, <1>2, <1>5, <2>2 DEF ChatTypes
  <2> QED
    BY <1>1, <1>5, <2>2, <2>3, ChatAside DEF ChatInv
<1>6. CASE decisions' = ended /\ UNCHANGED <<load, thread, clears, lost>>
  <2>1. ChatTypes'
    BY <1>1, <1>2, <1>6 DEF ChatTypes
  <2>2. ChatsSound'
    BY <1>1, <1>2, <1>6, ChatShapes DEF ChatsSound, Chats!On
  <2> QED
    BY <1>1, <1>6, <2>1, <2>2, ChatAside DEF ChatInv
<1>7. CASE thread' = None /\ load' = Chats!Fresh /\ decisions' = closed /\ UNCHANGED <<clears, lost>>
  <2>1. ChatTypes'
    BY <1>1, <1>3, <1>7, FreshLoad DEF ChatTypes
  <2>2. ChatsSound'
    BY <1>1, <1>3, <1>7, ChatShapes, UnmountedFacts DEF ChatsSound, Chats!On
  <2> QED
    BY <1>7, <2>1, <2>2, ChatReloads DEF ChatInv
<1>8. QED
  BY <1>1, <1>5, <1>6, <1>7

LEMMA ChatCreate == ASSUME ChatInv, Chats!Create PROVE ChatInv'
<1>1. /\ Chats!Spend /\ making' = "creating" /\ ChatTypes /\ ChatsSound
      /\ UNCHANGED <<convs, due, behind, access, list, listState, load, thread, foreground, stale, clears, decisions, notice, lost>>
  BY DEF Chats!Create, Chats!service, Chats!screen, ChatInv
<1>2. ChatTypes'
  BY <1>1, SpendFacts DEF ChatTypes
<1>3. ChatsSound'
  BY <1>1 DEF ChatsSound, Chats!On
<1>4. QED
  BY <1>1, <1>2, <1>3, ChatAside DEF ChatInv

LEMMA ChatCreateServed == ASSUME ChatInv, NEW g \in Groups, Chats!CreateServed(g) PROVE ChatInv'
<1> DEFINE r == [Chats!Absent EXCEPT !.status = "accepted"]
<1>1. /\ Chats!Write(g, r) \/ UNCHANGED <<convs, due>>
      /\ making' \in {"opening", "closed"} /\ ChatTypes /\ ChatsSound
      /\ UNCHANGED <<behind, access, list, listState, load, thread, foreground, stale, clears, decisions, notice, lost, spent>>
  BY DEF Chats!CreateServed, Chats!service, Chats!screen, ChatInv
<1>2. r \in Chats!Record /\ ~r.unread /\ g \in Chats!Convs
  BY ChatShapes, ChatAssumed
<1> HIDE DEF r
<1>3. /\ convs' \in [Chats!Convs -> Chats!Record] /\ due' \in BOOLEAN
      /\ \A d \in Chats!Convs : convs'[d].unread => convs'[d].status = "accepted"
      /\ Listing' /\ Chats!ListIsCurrent'
  <2>1. CASE Chats!Write(g, r)
    BY <1>1, <1>2, <2>1, ChatWrites
  <2>2. CASE UNCHANGED <<convs, due>>
    BY <1>1, <2>2 DEF ChatInv, ChatTypes, ChatsSound, Listing, Chats!ListIsCurrent
  <2> QED
    BY <1>1, <2>1, <2>2
<1>4. ChatTypes'
  BY <1>1, <1>3 DEF ChatTypes
<1>5. ChatsSound'
  BY <1>1, <1>3 DEF ChatsSound, Chats!On
<1>6. QED
  BY <1>3, <1>4, <1>5 DEF ChatInv

LEMMA ChatOpenCreated == ASSUME ChatInv, NEW g \in Groups, Chats!OpenCreated(g) PROVE ChatInv'
<1>1. /\ \/ /\ making' = "closed" /\ load' = None /\ list' = [list EXCEPT ![g] = convs[g]]
            /\ Chats!Shows([conv |-> g, asks |-> FALSE])
         \/ making' = "created" /\ UNCHANGED <<load, list, thread, clears, lost, decisions>>
      /\ UNCHANGED <<convs, due, behind, access, listState, foreground, stale, notice, spent>>
      /\ ChatTypes /\ ChatsSound /\ g \in Chats!Convs /\ FALSE \in BOOLEAN
  BY ChatAssumed DEF Chats!OpenCreated, Chats!service, ChatInv
<1>2. CASE /\ making' = "closed" /\ load' = None /\ list' = [list EXCEPT ![g] = convs[g]]
           /\ Chats!Shows([conv |-> g, asks |-> FALSE])
  <2>1. /\ thread' \in Chats!Thread /\ thread' # None /\ clears' \subseteq Chats!Convs /\ lost' \subseteq Chats!Convs
        /\ decisions' \in [Chats!Convs -> Answered] /\ ChatsSound'
    BY <1>1, <1>2, ChatShown
  <2>2. ChatTypes'
    BY <1>1, <1>2, <2>1 DEF ChatTypes
  <2>3. Listing' /\ Chats!ListIsCurrent'
    BY <1>2, <2>1 DEF Listing, Chats!ListIsCurrent
  <2> QED
    BY <2>1, <2>2, <2>3 DEF ChatInv
<1>3. CASE making' = "created" /\ UNCHANGED <<load, list, thread, clears, lost, decisions>>
  <2>1. ChatTypes'
    BY <1>1, <1>3 DEF ChatTypes
  <2>2. ChatsSound'
    BY <1>1, <1>3 DEF ChatsSound, Chats!On
  <2> QED
    BY <1>1, <1>3, <2>1, <2>2, ChatAside DEF ChatInv
<1>4. QED
  BY <1>1, <1>2, <1>3

LEMMA ChatOpenAgain == ASSUME ChatInv, Chats!OpenAgain PROVE ChatInv'
<1>1. /\ making' \in {"reopening", "closed"} /\ ChatTypes /\ ChatsSound
      /\ UNCHANGED <<convs, due, behind, access, list, listState, load, thread, foreground, stale, clears, decisions, notice, lost, spent>>
  BY DEF Chats!OpenAgain, Chats!service, Chats!screen, ChatInv
<1>2. ChatTypes'
  BY <1>1 DEF ChatTypes
<1>3. ChatsSound'
  BY <1>1 DEF ChatsSound, Chats!On
<1>4. QED
  BY <1>1, <1>2, <1>3, ChatAside DEF ChatInv

LEMMA ChatInit == ASSUME Chats!Init PROVE ChatInv
<1> DEFINE agreed == [Chats!Absent EXCEPT !.status = "accepted"]
<1>1. /\ convs \in [Chats!Convs -> {Chats!Absent, agreed}] /\ due = FALSE /\ behind = FALSE /\ access = TRUE
      /\ list = [c \in Chats!Convs |-> Chats!Absent] /\ listState = "loading" /\ load = Chats!Fresh
      /\ thread = None /\ foreground = TRUE /\ clears = {} /\ decisions = [c \in Chats!Convs |-> Chats!Undecided]
      /\ notice = None /\ making = "closed" /\ stale = FALSE /\ lost = {} /\ spent = 0
  BY DEF Chats!Init
<1>2. agreed \in Chats!Record /\ ~agreed.unread
  BY ChatShapes
<1> HIDE DEF agreed
<1>3. \A c \in Chats!Convs : convs[c] \in Chats!Record /\ ~convs[c].unread
  BY <1>1, <1>2, ChatShapes
<1>4. convs \in [Chats!Convs -> Chats!Record]
  <2>1. convs = [c \in Chats!Convs |-> convs[c]]
    BY <1>1
  <2> QED
    BY <1>3, <2>1
<1>5. spent \in 0..ChatBudget
  BY <1>1, ChatAssumed
<1>6. ChatTypes
  BY <1>1, <1>4, <1>5, ChatShapes, FreshLoad DEF ChatTypes
<1>7. ChatsSound
  BY <1>1, <1>3, ChatShapes DEF ChatsSound
<1>8. Listing /\ Chats!ListIsCurrent
  BY <1>1, FreshLoad DEF Listing, Chats!ListIsCurrent
<1>9. QED
  BY <1>6, <1>7, <1>8 DEF ChatInv

LEMMA ChatNextKeeps == ChatInv /\ Chats!Next => ChatInv'
<1>1. ASSUME ChatInv, Chats!Loads PROVE ChatInv'
  BY <1>1, ChatNotice, ChatListAll, ChatLoaded, ChatLoadFails, ChatRetry, ChatRead DEF Chats!Loads
<1>2. ASSUME ChatInv, Chats!Opens PROVE ChatInv'
  BY <1>2, ChatRow, ChatTap, ChatPerson, ChatFirst, ChatTapOpens, ChatBack, ChatForeground, ChatAccess DEF Chats!Opens
<1>3. ASSUME ChatInv, Chats!Decides PROVE ChatInv'
  BY <1>3, ChatDecide, ChatServed, ChatDecided DEF Chats!Decides
<1>4. ASSUME ChatInv, Chats!Makes PROVE ChatInv'
  BY <1>4, ChatCreate, ChatOpenAgain, ChatCreateServed, ChatOpenCreated DEF Chats!Makes
<1>5. QED
  BY <1>1, <1>2, <1>3, <1>4, ChatBump, ChatArrive, ChatCleared, ChatClearFails DEF Chats!Next

LEMMA ChatRuns == ASSUME [Next]_vars PROVE Chats!Next \/ UNCHANGED Chats!vars
BY DEF Next, StandStill, vars, conversations, Chats!vars, Chats!service, Chats!screen, Chats!asked

LEMMA ChatsHold == Spec => []ChatInv
<1>1. Init => ChatInv
  BY ChatInit DEF Init
<1>2. ChatInv /\ UNCHANGED Chats!vars => ChatInv'
  BY DEF Chats!vars, Chats!service, Chats!screen, Chats!asked, ChatInv, ChatTypes, ChatsSound, Listing,
         Chats!ListIsCurrent, Chats!On
<1>3. ChatInv /\ [Next]_vars => ChatInv'
  BY <1>2, ChatRuns, ChatNextKeeps
<1>4. QED
  BY <1>1, <1>3, PTL DEF Spec

LEMMA ListHolds == Spec => []Chats!ListIsCurrent
<1>1. ChatInv => Chats!ListIsCurrent
  BY DEF ChatInv
<1>2. QED
  BY <1>1, ChatsHold, PTL

---------------------------------------------------------------------------
(* The group on screen. *)

LEMMA GroupAssumed == GroupBudget \in Nat /\ None \notin Members /\ None \notin Roster!Read
BY PartsAssumption DEF Roster!GroupScreenAssumption, Roster!Read, Roster!Record

LEMMA GroupShapes ==
  /\ Roster!Asked \in Roster!Read /\ Roster!Asked # None /\ Roster!Asked.at = "asked"
  /\ Roster!Undecided \in GroupAnswers /\ Roster!Undecided.at = "idle"
  /\ Roster!NoSheet \in Sheets /\ Roster!NoSheet.mode = "closed" /\ Roster!NoSheet.at = "idle"
BY GroupAssumed DEF Roster!Asked, Roster!Read, Roster!Undecided, GroupAnswers, Roster!NoSheet, Sheets

LEMMA GroupSpends == ASSUME GroupTypes, Roster!Spend PROVE groupSpent' \in 0..GroupBudget
BY GroupAssumed DEF GroupTypes, Roster!Spend

(* The record changes at the service. *)
LEMMA GroupChanges ==
  ASSUME GroupInv, NEW g \in Roster!Record, Roster!Change(g)
  PROVE  /\ group' = g /\ groupDue' \in BOOLEAN /\ acked' \subseteq acked /\ acked' \subseteq group'.members
         /\ acked' \subseteq Members /\ (~groupDue' => group' = group /\ ~groupDue)
BY DEF GroupInv, GroupTypes, Roster!Change

(* What a change of the record leaves sound, the owner's own answers and forms as they are. *)
LEMMA GroupAnswersKept ==
  ASSUME GroupInv, NEW g \in Roster!Record, Roster!Change(g),
         UNCHANGED <<groupBehind, groupOpen, shown, refresh, failed, older>>
  PROVE  /\ refresh' # None /\ refresh'.at = "read" =>
              refresh'.got \in Roster!Record /\ acked' \subseteq refresh'.got.members
         /\ refresh' # None => groupOpen'
         /\ refresh' # None /\ refresh'.at = "read" /\ ~groupDue' /\ ~groupBehind' => refresh'.got = group'
         /\ Roster!InvitedIsShown' /\ Roster!ShownIsCurrent'
<1>1. AnswersSound /\ Roster!InvitedIsShown /\ Roster!ShownIsCurrent
  BY DEF GroupInv
<1>2. acked' \subseteq acked /\ (~groupDue' => group' = group /\ ~groupDue)
  BY GroupChanges
<1>3. Roster!InvitedIsShown'
  BY <1>1, <1>2 DEF Roster!InvitedIsShown
<1>4. Roster!ShownIsCurrent'
  BY <1>1, <1>2 DEF Roster!ShownIsCurrent
<1>5. QED
  BY <1>1, <1>2, <1>3, <1>4 DEF AnswersSound

LEMMA GroupElsewhere == ASSUME GroupInv, Roster!Elsewhere PROVE GroupInv'
<1>1. GroupTypes /\ RolesSound /\ AnswersSound
  BY DEF GroupInv
<1>2. /\ Roster!Spend
      /\ UNCHANGED <<creator, groupBehind, groupOpen, shown, refresh, failed, decision, sheet, older>>
      /\ \E g \in Roster!Record : Roster!Change(g) /\ (group.status = "accepted" => g.status = "accepted")
  <2>1. /\ \A ms \in SUBSET Members : /\ [group EXCEPT !.members = ms] \in Roster!Record
                                      /\ [group EXCEPT !.members = ms].status = group.status
        /\ [group EXCEPT !.closed = TRUE] \in Roster!Record /\ [group EXCEPT !.closed = TRUE].status = group.status
        /\ \A s \in {"accepted", "declined"} : [group EXCEPT !.status = s] \in Roster!Record
    BY <1>1 DEF GroupTypes, Roster!Record
  <2>2. /\ Roster!Spend
        /\ UNCHANGED <<creator, groupBehind, groupOpen, shown, refresh, failed, decision, sheet, older>>
        /\ \/ \E ms \in SUBSET Members : Roster!Change([group EXCEPT !.members = ms])
           \/ Roster!Change([group EXCEPT !.closed = TRUE])
           \/ /\ group.status = "pending"
              /\ \E s \in {"accepted", "declined"} : Roster!Change([group EXCEPT !.status = s])
    BY DEF Roster!Elsewhere, Roster!screen
  <2>3. CASE \E ms \in SUBSET Members : Roster!Change([group EXCEPT !.members = ms])
    BY <2>1, <2>2, <2>3
  <2>4. CASE Roster!Change([group EXCEPT !.closed = TRUE])
    BY <2>1, <2>2, <2>4
  <2>5. CASE /\ group.status = "pending"
             /\ \E s \in {"accepted", "declined"} : Roster!Change([group EXCEPT !.status = s])
    BY <2>1, <2>2, <2>5
  <2> QED
    BY <2>2, <2>3, <2>4, <2>5
<1>3. PICK g \in Roster!Record : Roster!Change(g) /\ (group.status = "accepted" => g.status = "accepted")
  BY <1>2
<1>4. /\ group' = g /\ groupDue' \in BOOLEAN /\ acked' \subseteq acked /\ acked' \subseteq group'.members
      /\ acked' \subseteq Members
  BY <1>3, GroupChanges
<1>5. GroupTypes'
  BY <1>1, <1>2, <1>4, GroupSpends DEF GroupTypes
<1>6. RolesSound'
  BY <1>1, <1>2, <1>3, <1>4 DEF RolesSound, Asking
<1>7. AnswersSound' /\ Roster!InvitedIsShown' /\ Roster!ShownIsCurrent'
  BY <1>1, <1>2, <1>3, <1>4, GroupAnswersKept DEF AnswersSound, Asking
<1>8. QED
  BY <1>5, <1>6, <1>7 DEF GroupInv

LEMMA GroupAnnounce == ASSUME GroupInv, Roster!Announce PROVE GroupInv'
<1>1. /\ groupDue' = FALSE /\ groupBehind' = TRUE
      /\ UNCHANGED <<creator, group, groupOpen, shown, refresh, failed, decision, sheet, acked, older, groupSpent>>
  BY DEF Roster!Announce, Roster!screen
<1>2. QED
  BY <1>1 DEF GroupInv, GroupTypes, RolesSound, AnswersSound, Asking, Roster!InvitedIsShown, Roster!ShownIsCurrent

LEMMA GroupOpens == ASSUME GroupInv, Roster!Open PROVE GroupInv'
<1>1. /\ groupOpen' = TRUE /\ Roster!Spend /\ shown' \in {shown, group} /\ refresh' = Roster!Asked
      /\ failed' = FALSE /\ older' = FALSE /\ acked' = {} /\ decision' = Roster!Undecided
      /\ sheet' = Roster!NoSheet /\ UNCHANGED <<creator, group, groupDue, groupBehind>>
      /\ GroupTypes /\ RolesSound
  BY DEF Roster!Open, Roster!service, GroupInv
<1>2. GroupTypes'
  BY <1>1, GroupSpends, GroupShapes DEF GroupTypes
<1>3. RolesSound'
  BY <1>1, GroupShapes DEF RolesSound, Asking, Managed
<1>4. AnswersSound'
  BY <1>1, GroupShapes DEF AnswersSound, Asking
<1>5. Roster!InvitedIsShown' /\ Roster!ShownIsCurrent'
  BY <1>1, GroupShapes DEF Roster!InvitedIsShown, Roster!ShownIsCurrent
<1>6. QED
  BY <1>2, <1>3, <1>4, <1>5 DEF GroupInv

(* The thread is gone from the screen, and what it had asked for with it. *)
LEMMA GroupGoes ==
  ASSUME GroupInv, Roster!Gone, UNCHANGED <<creator, group, groupDue, groupBehind, shown, failed, acked, older, groupSpent>>
  PROVE  GroupInv'
<1>1. /\ groupOpen' = FALSE /\ refresh' = None /\ decision' = Roster!Undecided /\ sheet' = Roster!NoSheet
      /\ GroupTypes /\ RolesSound /\ AnswersSound
  BY DEF Roster!Gone, GroupInv
<1>2. GroupTypes'
  BY <1>1, GroupShapes DEF GroupTypes
<1>3. RolesSound'
  BY <1>1, GroupShapes DEF RolesSound, Asking, Managed
<1>4. AnswersSound' /\ Roster!InvitedIsShown' /\ Roster!ShownIsCurrent'
  BY <1>1, GroupShapes DEF AnswersSound, Asking, Roster!InvitedIsShown, Roster!ShownIsCurrent
<1>5. QED
  BY <1>2, <1>3, <1>4 DEF GroupInv

LEMMA GroupLeaves == ASSUME GroupInv, Roster!Leave PROVE GroupInv'
BY GroupGoes DEF Roster!Leave, Roster!service

(* A refresh begins. *)
LEMMA GroupBegins ==
  ASSUME GroupInv, groupOpen, refresh' = Roster!Asked, groupBehind' \in BOOLEAN,
         UNCHANGED <<creator, group, groupDue, groupOpen, shown, failed, decision, sheet, acked, older, groupSpent>>
  PROVE  GroupInv'
<1>1. GroupTypes /\ RolesSound /\ AnswersSound /\ Roster!InvitedIsShown
  BY DEF GroupInv
<1>2. GroupTypes'
  BY <1>1, GroupShapes DEF GroupTypes
<1>3. RolesSound'
  BY <1>1, GroupShapes DEF RolesSound, Asking
<1>4. AnswersSound'
  BY <1>1, GroupShapes DEF AnswersSound, Asking
<1>5. Roster!InvitedIsShown' /\ Roster!ShownIsCurrent'
  BY <1>1, GroupShapes DEF Roster!InvitedIsShown, Roster!ShownIsCurrent
<1>6. QED
  BY <1>2, <1>3, <1>4, <1>5 DEF GroupInv

LEMMA GroupNotice == ASSUME GroupInv, Roster!Notice PROVE GroupInv'
<1>1. /\ groupBehind' = FALSE /\ refresh' = IF groupOpen THEN Roster!Asked ELSE refresh
      /\ UNCHANGED <<creator, group, groupDue, groupOpen, shown, failed, decision, sheet, acked, older, groupSpent>>
  BY DEF Roster!Notice, Roster!Begun, Roster!service
<1>2. CASE groupOpen
  BY <1>1, <1>2, GroupBegins
<1>3. CASE ~groupOpen
  <2>1. refresh' = refresh /\ refresh = None
    BY <1>1, <1>3 DEF GroupInv, AnswersSound
  <2> QED
    BY <1>1, <1>3, <2>1
       DEF GroupInv, GroupTypes, RolesSound, AnswersSound, Asking, Roster!InvitedIsShown, Roster!ShownIsCurrent
<1>4. QED
  BY <1>2, <1>3

LEMMA GroupTriesAgain == ASSUME GroupInv, Roster!TryAgain PROVE GroupInv'
<1>1. /\ groupOpen /\ refresh' = Roster!Asked
      /\ UNCHANGED <<creator, group, groupDue, groupBehind, groupOpen, shown, failed, decision, sheet, acked, older, groupSpent>>
  BY DEF Roster!TryAgain, Roster!Begun, Roster!service
<1>2. groupBehind' \in BOOLEAN
  BY <1>1 DEF GroupInv, GroupTypes
<1>3. QED
  BY <1>1, <1>2, GroupBegins

LEMMA GroupReads == ASSUME GroupInv, Roster!ReadRecord PROVE GroupInv'
<1>1. /\ refresh = Roster!Asked /\ refresh' = [at |-> "read", got |-> group]
      /\ UNCHANGED <<creator, group, groupDue, groupBehind, groupOpen, shown, failed, decision, sheet, acked, older, groupSpent>>
      /\ GroupTypes /\ RolesSound /\ AnswersSound /\ Roster!InvitedIsShown
  BY DEF Roster!ReadRecord, Roster!service, GroupInv
<1>2. refresh' \in Roster!Read /\ refresh' # None /\ refresh'.got = group
  BY <1>1, GroupAssumed DEF GroupTypes, Roster!Read
<1>3. GroupTypes'
  BY <1>1, <1>2 DEF GroupTypes
<1>4. RolesSound'
  BY <1>1, <1>2 DEF RolesSound, Asking
<1>5. AnswersSound'
  BY <1>1, <1>2, GroupShapes DEF AnswersSound, Asking, GroupTypes
<1>6. Roster!InvitedIsShown' /\ Roster!ShownIsCurrent'
  BY <1>1, <1>2 DEF Roster!InvitedIsShown, Roster!ShownIsCurrent
<1>7. QED
  BY <1>3, <1>4, <1>5, <1>6 DEF GroupInv

LEMMA GroupRefreshed == ASSUME GroupInv, Roster!Refreshed PROVE GroupInv'
<1>1. /\ refresh # None /\ refresh' = None
      /\ UNCHANGED <<creator, group, groupDue, groupBehind, groupOpen, decision, sheet, acked>>
      /\ \/ refresh.at = "read" /\ shown' = refresh.got /\ failed' = FALSE /\ older' = FALSE /\ UNCHANGED groupSpent
         \/ failed' = TRUE /\ Roster!Spend /\ UNCHANGED <<shown, older>>
      /\ GroupTypes /\ RolesSound /\ AnswersSound /\ Roster!InvitedIsShown
  BY DEF Roster!Refreshed, Roster!service, GroupInv
<1>2. CASE refresh.at = "read" /\ shown' = refresh.got /\ failed' = FALSE /\ older' = FALSE /\ UNCHANGED groupSpent
  <2>1. /\ refresh.got \in Roster!Record /\ acked \subseteq refresh.got.members
        /\ (creator => refresh.got.status = "accepted") /\ (~groupDue /\ ~groupBehind => refresh.got = group)
    BY <1>1, <1>2 DEF RolesSound, AnswersSound
  <2>2. GroupTypes'
    BY <1>1, <1>2, <2>1 DEF GroupTypes
  <2>3. RolesSound' /\ AnswersSound'
    BY <1>1, <1>2, <2>1 DEF RolesSound, AnswersSound, Asking
  <2>4. Roster!InvitedIsShown' /\ Roster!ShownIsCurrent'
    BY <1>1, <1>2, <2>1 DEF Roster!InvitedIsShown, Roster!ShownIsCurrent
  <2> QED
    BY <2>2, <2>3, <2>4 DEF GroupInv
<1>3. CASE failed' = TRUE /\ Roster!Spend /\ UNCHANGED <<shown, older>>
  <2>1. GroupTypes'
    BY <1>1, <1>3, GroupSpends DEF GroupTypes
  <2>2. RolesSound' /\ AnswersSound'
    BY <1>1, <1>3 DEF RolesSound, AnswersSound, Asking
  <2>3. Roster!InvitedIsShown' /\ Roster!ShownIsCurrent'
    BY <1>1, <1>3 DEF Roster!InvitedIsShown, Roster!ShownIsCurrent
  <2> QED
    BY <2>1, <2>2, <2>3 DEF GroupInv
<1>4. QED
  BY <1>1, <1>2, <1>3

LEMMA GroupDecides == ASSUME GroupInv, NEW act \in {"accepted", "declined"}, Roster!Decide(act) PROVE GroupInv'
<1>1. /\ shown.status = "pending" /\ decision = Roster!Undecided
      /\ decision' = [Roster!Undecided EXCEPT !.act = act, !.at = "asked"]
      /\ UNCHANGED <<creator, group, groupDue, groupBehind, groupOpen, shown, refresh, failed, sheet, acked, older, groupSpent>>
      /\ GroupTypes /\ RolesSound /\ AnswersSound
  BY DEF Roster!Decide, Roster!service, Roster!screen, GroupInv
<1>2. decision' \in GroupAnswers /\ decision'.at = "asked" /\ decision'.act # "no"
  BY <1>1 DEF GroupAnswers, Roster!Undecided
<1>3. GroupTypes'
  BY <1>1, <1>2 DEF GroupTypes
<1>4. RolesSound' /\ AnswersSound'
  BY <1>1, <1>2 DEF RolesSound, AnswersSound, Asking
<1>5. QED
  BY <1>1, <1>3, <1>4 DEF GroupInv, Roster!InvitedIsShown, Roster!ShownIsCurrent

LEMMA GroupDecisionServed == ASSUME GroupInv, Roster!DecisionServed PROVE GroupInv'
<1> DEFINE g == [group EXCEPT !.status = decision.act]
<1>1. /\ decision.at = "asked" /\ Roster!Change(g) /\ decision' = [decision EXCEPT !.at = "served"]
      /\ UNCHANGED <<creator, groupBehind, groupOpen, shown, refresh, failed, sheet, older, groupSpent>>
      /\ GroupTypes /\ RolesSound /\ AnswersSound
  BY DEF Roster!DecisionServed, Roster!screen, GroupInv
<1>2. g \in Roster!Record /\ ~creator
  <2>1. decision.act \in {"accepted", "declined"}
    BY <1>1 DEF GroupTypes, GroupAnswers, RolesSound
  <2> QED
    BY <1>1, <2>1, GroupShapes DEF GroupTypes, Roster!Record, RolesSound
<1>3. decision' \in GroupAnswers /\ decision'.at = "served" /\ decision'.act # "no"
  BY <1>1 DEF GroupTypes, GroupAnswers, RolesSound
<1> HIDE DEF g
<1>4. /\ group' = g /\ groupDue' \in BOOLEAN /\ acked' \subseteq acked /\ acked' \subseteq group'.members
      /\ acked' \subseteq Members
  BY <1>1, <1>2, GroupChanges
<1>5. GroupTypes'
  BY <1>1, <1>2, <1>3, <1>4 DEF GroupTypes
<1>6. RolesSound'
  BY <1>1, <1>2, <1>3, <1>4 DEF RolesSound, Asking
<1>7. AnswersSound' /\ Roster!InvitedIsShown' /\ Roster!ShownIsCurrent'
  BY <1>1, <1>2, <1>3, <1>4, GroupAnswersKept DEF AnswersSound, Asking
<1>8. QED
  BY <1>5, <1>6, <1>7 DEF GroupInv

LEMMA GroupDecisionFails == ASSUME GroupInv, Roster!DecisionFails PROVE GroupInv'
<1>1. /\ decision' = Roster!Undecided /\ (UNCHANGED groupSpent \/ Roster!Spend)
      /\ UNCHANGED <<creator, group, groupDue, groupBehind, groupOpen, shown, refresh, failed, sheet, acked, older>>
      /\ GroupTypes /\ RolesSound /\ AnswersSound
  BY DEF Roster!DecisionFails, Roster!service, Roster!screen, GroupInv
<1>2. groupSpent' \in 0..GroupBudget
  BY <1>1, GroupSpends DEF GroupTypes
<1>3. GroupTypes'
  BY <1>1, <1>2, GroupShapes DEF GroupTypes
<1>4. RolesSound' /\ AnswersSound'
  BY <1>1, GroupShapes DEF RolesSound, AnswersSound, Asking
<1>5. QED
  BY <1>1, <1>3, <1>4 DEF GroupInv, Roster!InvitedIsShown, Roster!ShownIsCurrent

LEMMA GroupDeclined == ASSUME GroupInv, Roster!Declined PROVE GroupInv'
BY GroupGoes DEF Roster!Declined, Roster!service

LEMMA GroupReadsAccepted == ASSUME GroupInv, Roster!ReadAccepted PROVE GroupInv'
<1>1. /\ decision.at = "served" /\ decision' = [decision EXCEPT !.at = "read", !.got = group]
      /\ UNCHANGED <<creator, group, groupDue, groupBehind, groupOpen, shown, refresh, failed, sheet, acked, older, groupSpent>>
      /\ GroupTypes /\ RolesSound /\ AnswersSound
  BY DEF Roster!ReadAccepted, Roster!service, Roster!screen, GroupInv
<1>2. decision' \in GroupAnswers /\ decision'.at = "read" /\ decision'.got = group /\ ~creator
  BY <1>1, GroupShapes DEF GroupTypes, GroupAnswers, RolesSound
<1>3. GroupTypes'
  BY <1>1, <1>2 DEF GroupTypes
<1>4. RolesSound' /\ AnswersSound'
  BY <1>1, <1>2 DEF RolesSound, AnswersSound, Asking, GroupTypes
<1>5. QED
  BY <1>1, <1>3, <1>4 DEF GroupInv, Roster!InvitedIsShown, Roster!ShownIsCurrent

LEMMA GroupAccepted == ASSUME GroupInv, Roster!Accepted PROVE GroupInv'
<1>1. /\ decision.at = "read" /\ shown' = decision.got /\ older' = (decision.got # group)
      /\ decision' = Roster!Undecided
      /\ UNCHANGED <<creator, group, groupDue, groupBehind, groupOpen, refresh, failed, sheet, acked, groupSpent>>
      /\ GroupTypes /\ RolesSound /\ AnswersSound
  BY DEF Roster!Accepted, Roster!Put, Roster!service, GroupInv
<1>2. decision.got \in Roster!Record /\ ~creator /\ acked = {}
  BY <1>1, GroupShapes DEF AnswersSound, RolesSound
<1>3. GroupTypes'
  BY <1>1, <1>2, GroupShapes DEF GroupTypes
<1>4. RolesSound' /\ AnswersSound'
  BY <1>1, <1>2, GroupShapes DEF RolesSound, AnswersSound, Asking
<1>5. QED
  BY <1>1, <1>2, <1>3, <1>4 DEF GroupInv, Roster!InvitedIsShown, Roster!ShownIsCurrent

(* A step of the form alone. *)
LEMMA GroupFormMoves ==
  ASSUME GroupInv, sheet' \in Sheets, sheet'.at # "served",
         sheet'.mode \in Managed => creator, sheet'.at = "asked" => sheet'.mode \in Managed,
         sheet'.at = "asked" /\ sheet'.mode = "invite" =>
           sheet'.who \in Members /\ sheet'.got \in Roster!Record /\ sheet'.got.status = "accepted",
         groupSpent' \in 0..GroupBudget,
         UNCHANGED <<creator, group, groupDue, groupBehind, groupOpen, shown, refresh, failed, decision, acked, older>>
  PROVE  GroupInv'
<1>1. GroupTypes /\ RolesSound /\ AnswersSound
  BY DEF GroupInv
<1>2. GroupTypes'
  BY <1>1 DEF GroupTypes
<1>3. RolesSound' /\ AnswersSound'
  BY <1>1 DEF RolesSound, AnswersSound, Asking
<1>4. QED
  BY <1>2, <1>3 DEF GroupInv, Roster!InvitedIsShown, Roster!ShownIsCurrent

LEMMA GroupShows == ASSUME GroupInv, NEW mode \in {"details", "invite", "delete"}, Roster!Show(mode) PROVE GroupInv'
<1>1. /\ mode \in {"invite", "delete"} => creator
      /\ sheet' = [Roster!NoSheet EXCEPT !.mode = mode] /\ GroupTypes
      /\ UNCHANGED <<creator, group, groupDue, groupBehind, groupOpen, shown, refresh, failed, decision, acked, older, groupSpent>>
  BY DEF Roster!Show, Roster!CanManage, Roster!service, Roster!screen, GroupInv
<1>2. sheet' \in Sheets /\ sheet'.at = "idle" /\ sheet'.mode = mode
  BY <1>1 DEF Roster!NoSheet, Sheets
<1>3. groupSpent' \in 0..GroupBudget
  BY <1>1 DEF GroupTypes
<1>4. QED
  BY <1>1, <1>2, <1>3, GroupFormMoves DEF Managed

LEMMA GroupSubmits == ASSUME GroupInv, Roster!Submit PROVE GroupInv'
<1>1. /\ \/ /\ sheet.mode = "invite"
            /\ \E m \in Members : sheet' = [sheet EXCEPT !.at = "asked", !.who = m, !.got = shown]
         \/ sheet.mode \in {"delete", "deleted"} /\ sheet' = [sheet EXCEPT !.at = "asked"]
      /\ UNCHANGED <<creator, group, groupDue, groupBehind, groupOpen, shown, refresh, failed, decision, acked, older, groupSpent>>
      /\ GroupTypes /\ RolesSound
  BY DEF Roster!Submit, Roster!service, Roster!screen, GroupInv
<1>2. /\ sheet' \in Sheets /\ sheet'.at = "asked" /\ sheet'.mode = sheet.mode /\ sheet.mode \in Managed
      /\ sheet.mode = "invite" => sheet'.who \in Members /\ sheet'.got = shown
  <2>1. CASE /\ sheet.mode = "invite"
             /\ \E m \in Members : sheet' = [sheet EXCEPT !.at = "asked", !.who = m, !.got = shown]
    BY <1>1, <2>1 DEF GroupTypes, Sheets, Managed
  <2>2. CASE sheet.mode \in {"delete", "deleted"} /\ sheet' = [sheet EXCEPT !.at = "asked"]
    BY <1>1, <2>2 DEF GroupTypes, Sheets, Managed
  <2> QED
    BY <1>1, <2>1, <2>2
<1>3. creator /\ shown \in Roster!Record /\ shown.status = "accepted" /\ groupSpent' \in 0..GroupBudget
  BY <1>1, <1>2 DEF RolesSound, GroupTypes
<1>4. QED
  BY <1>1, <1>2, <1>3, GroupFormMoves

LEMMA GroupSubmitFails == ASSUME GroupInv, Roster!SubmitFails PROVE GroupInv'
<1>1. /\ sheet' = [sheet EXCEPT !.at = "idle", !.who = None, !.got = None] /\ (UNCHANGED groupSpent \/ Roster!Spend)
      /\ UNCHANGED <<creator, group, groupDue, groupBehind, groupOpen, shown, refresh, failed, decision, acked, older>>
      /\ GroupTypes /\ RolesSound
  BY DEF Roster!SubmitFails, Roster!service, Roster!screen, GroupInv
<1>2. sheet' \in Sheets /\ sheet'.at = "idle" /\ sheet'.mode = sheet.mode
  BY <1>1 DEF GroupTypes, Sheets
<1>3. groupSpent' \in 0..GroupBudget
  BY <1>1, GroupSpends DEF GroupTypes
<1>4. QED
  BY <1>1, <1>2, <1>3, GroupFormMoves DEF RolesSound

LEMMA GroupServes == ASSUME GroupInv, Roster!Serve PROVE GroupInv'
<1>1. /\ sheet.at = "asked" /\ GroupTypes /\ RolesSound /\ AnswersSound
      /\ UNCHANGED <<creator, groupBehind, groupOpen, shown, refresh, failed, decision, older, groupSpent>>
      /\ \/ /\ sheet.mode = "invite"
            /\ Roster!Change([group EXCEPT !.members = @ \union {sheet.who}])
            /\ sheet' = [sheet EXCEPT !.at = "served", !.got.members = group.members \union {sheet.who}]
         \/ /\ sheet.mode # "invite" /\ Roster!Change([group EXCEPT !.closed = TRUE])
            /\ sheet' = [sheet EXCEPT !.at = "served"]
  BY DEF Roster!Serve, Roster!screen, GroupInv
<1>2. PICK g \in Roster!Record :
        /\ Roster!Change(g) /\ g.status = group.status
        /\ sheet' \in Sheets /\ sheet'.at = "served" /\ sheet'.mode = sheet.mode
        /\ sheet.mode = "invite" =>
             /\ sheet'.who \in Members /\ sheet'.got \in Roster!Record /\ sheet'.got.status = sheet.got.status
             /\ sheet'.who \in g.members /\ sheet'.got.members = g.members
  <2>1. CASE sheet.mode = "invite"
    <3> DEFINE ms == group.members \union {sheet.who}
               g == [group EXCEPT !.members = ms]
               answer == [sheet.got EXCEPT !.members = ms]
    <3>1. sheet.who \in Members /\ sheet.got \in Roster!Record
      BY <1>1, <2>1 DEF AnswersSound, Asking
    <3>2. ms \subseteq Members
      BY <1>1, <3>1 DEF GroupTypes, Roster!Record
    <3>3. Roster!Change(g) /\ sheet' = [sheet EXCEPT !.at = "served", !.got = answer]
      BY <1>1, <2>1 DEF GroupTypes, Sheets
    <3>4. sheet.who \in ms
      OBVIOUS
    <3> HIDE DEF ms
    <3>5. g \in Roster!Record /\ g.status = group.status /\ g.members = ms
      BY <1>1, <3>2 DEF GroupTypes, Roster!Record
    <3>6. answer \in Roster!Record /\ answer.status = sheet.got.status /\ answer.members = ms
      BY <3>1, <3>2 DEF Roster!Record
    <3> HIDE DEF g, answer
    <3>7. sheet' \in Sheets /\ sheet'.at = "served" /\ sheet'.mode = sheet.mode /\ sheet'.who = sheet.who /\ sheet'.got = answer
      BY <1>1, <3>3, <3>6 DEF GroupTypes, Sheets
    <3> QED
      BY <3>1, <3>3, <3>4, <3>5, <3>6, <3>7
  <2>2. CASE sheet.mode # "invite"
    <3> DEFINE g == [group EXCEPT !.closed = TRUE]
    <3>1. g \in Roster!Record /\ g.status = group.status
      BY <1>1 DEF GroupTypes, Roster!Record
    <3>2. Roster!Change(g) /\ sheet' \in Sheets /\ sheet'.at = "served" /\ sheet'.mode = sheet.mode
      BY <1>1, <2>2 DEF GroupTypes, Sheets
    <3> HIDE DEF g
    <3> QED
      BY <2>2, <3>1, <3>2
  <2> QED
    BY <2>1, <2>2
<1>3. /\ group' = g /\ groupDue' \in BOOLEAN /\ acked' \subseteq acked /\ acked' \subseteq group'.members
      /\ acked' \subseteq Members
  BY <1>2, GroupChanges
<1>4. GroupTypes'
  BY <1>1, <1>2, <1>3 DEF GroupTypes
<1>5. RolesSound'
  BY <1>1, <1>2, <1>3 DEF RolesSound, Asking
<1>6. AnswersSound' /\ Roster!InvitedIsShown' /\ Roster!ShownIsCurrent'
  <2>1. acked' \union {sheet'.who} \subseteq sheet'.got.members \/ sheet.mode # "invite"
    BY <1>2, <1>3
  <2> QED
    BY <1>1, <1>2, <1>3, <2>1, GroupAnswersKept DEF AnswersSound, Asking
<1>7. QED
  BY <1>4, <1>5, <1>6 DEF GroupInv

LEMMA GroupInvited == ASSUME GroupInv, Roster!Invited PROVE GroupInv'
<1>1. /\ sheet.at = "served" /\ sheet.mode = "invite" /\ GroupTypes /\ RolesSound /\ AnswersSound
      /\ refresh' = None /\ shown' = sheet.got /\ older' = (sheet.got # group)
      /\ acked' = acked \union ({sheet.who} \intersect group.members)
      /\ \E at \in {"idle", "partly"} : sheet' = [Roster!NoSheet EXCEPT !.mode = "invite", !.at = at]
      /\ UNCHANGED <<creator, group, groupDue, groupBehind, groupOpen, failed, decision, groupSpent>>
  BY DEF Roster!Invited, Roster!Cancelled, Roster!Put, Roster!service, GroupInv
<1>2. /\ creator /\ sheet.who \in Members /\ sheet.got \in Roster!Record /\ sheet.got.status = "accepted"
      /\ acked \union {sheet.who} \subseteq sheet.got.members
  BY <1>1 DEF RolesSound, AnswersSound, Asking, Managed
<1>3. sheet' \in Sheets /\ sheet'.mode = "invite" /\ sheet'.at \in {"idle", "partly"}
  BY <1>1 DEF Roster!NoSheet, Sheets
<1>4. acked' \subseteq Members /\ acked' \subseteq sheet.got.members /\ acked' \subseteq group.members
  BY <1>1, <1>2 DEF GroupTypes, AnswersSound
<1>5. GroupTypes'
  BY <1>1, <1>2, <1>3, <1>4 DEF GroupTypes
<1>6. RolesSound'
  BY <1>1, <1>2, <1>3 DEF RolesSound, Asking, Managed
<1>7. AnswersSound'
  BY <1>1, <1>3, <1>4 DEF AnswersSound, Asking
<1>8. Roster!InvitedIsShown' /\ Roster!ShownIsCurrent'
  BY <1>1, <1>4 DEF Roster!InvitedIsShown, Roster!ShownIsCurrent
<1>9. QED
  BY <1>5, <1>6, <1>7, <1>8 DEF GroupInv

LEMMA GroupDeleted == ASSUME GroupInv, Roster!Deleted PROVE GroupInv'
<1>1. /\ sheet.at = "served" /\ GroupTypes /\ RolesSound
      /\ \/ Roster!Gone
         \/ /\ sheet' = [Roster!NoSheet EXCEPT !.mode = "deleted", !.at = "partly"]
            /\ UNCHANGED <<groupOpen, refresh, decision>>
      /\ UNCHANGED <<creator, group, groupDue, groupBehind, shown, failed, acked, older, groupSpent>>
  BY DEF Roster!Deleted, Roster!service, GroupInv
<1>2. CASE Roster!Gone
  BY <1>1, <1>2, GroupGoes
<1>3. CASE /\ sheet' = [Roster!NoSheet EXCEPT !.mode = "deleted", !.at = "partly"]
           /\ UNCHANGED <<groupOpen, refresh, decision>>
  <2>1. sheet' \in Sheets /\ sheet'.mode = "deleted" /\ sheet'.at = "partly"
    BY <1>3 DEF Roster!NoSheet, Sheets
  <2>2. creator /\ groupSpent' \in 0..GroupBudget
    BY <1>1 DEF RolesSound, Asking, GroupTypes
  <2> QED
    BY <1>1, <1>3, <2>1, <2>2, GroupFormMoves
<1>4. QED
  BY <1>1, <1>2, <1>3

LEMMA GroupCloses == ASSUME GroupInv, Roster!Close PROVE GroupInv'
<1>1. /\ GroupTypes
      /\ \/ Roster!Gone
         \/ sheet' = Roster!NoSheet /\ UNCHANGED <<groupOpen, refresh, decision>>
      /\ UNCHANGED <<creator, group, groupDue, groupBehind, shown, failed, acked, older, groupSpent>>
  BY DEF Roster!Close, Roster!service, GroupInv
<1>2. CASE Roster!Gone
  BY <1>1, <1>2, GroupGoes
<1>3. CASE sheet' = Roster!NoSheet /\ UNCHANGED <<groupOpen, refresh, decision>>
  BY <1>1, <1>3, GroupShapes, GroupFormMoves DEF GroupTypes, Managed
<1>4. QED
  BY <1>1, <1>2, <1>3

LEMMA GroupInit == ASSUME Roster!Init PROVE GroupInv
<1>1. /\ creator \in BOOLEAN /\ groupDue = FALSE /\ groupBehind = FALSE /\ groupOpen = FALSE /\ shown = group
      /\ refresh = None /\ failed = FALSE /\ decision = Roster!Undecided /\ sheet = Roster!NoSheet
      /\ acked = {} /\ older = FALSE /\ groupSpent = 0
      /\ \E ms \in SUBSET Members :
           group = [status |-> IF creator THEN "accepted" ELSE "pending", members |-> ms, closed |-> FALSE]
  BY DEF Roster!Init
<1>2. group \in Roster!Record /\ (creator => group.status = "accepted")
  BY <1>1 DEF Roster!Record
<1>3. groupSpent \in 0..GroupBudget
  BY <1>1, GroupAssumed
<1>4. GroupTypes
  BY <1>1, <1>2, <1>3, GroupShapes DEF GroupTypes
<1>5. RolesSound /\ AnswersSound
  BY <1>1, <1>2, GroupShapes DEF RolesSound, AnswersSound, Asking, Managed
<1>6. QED
  BY <1>1, <1>4, <1>5 DEF GroupInv, Roster!InvitedIsShown, Roster!ShownIsCurrent

LEMMA GroupNextKeeps == GroupInv /\ Roster!Next => GroupInv'
<1>1. ASSUME GroupInv, Roster!Decides PROVE GroupInv'
  BY <1>1, GroupDecides, GroupDecisionServed, GroupDecisionFails, GroupDeclined, GroupReadsAccepted, GroupAccepted
     DEF Roster!Decides
<1>2. ASSUME GroupInv, Roster!Manages PROVE GroupInv'
  BY <1>2, GroupShows, GroupSubmits, GroupServes, GroupSubmitFails, GroupInvited, GroupDeleted, GroupCloses
     DEF Roster!Manages
<1>3. QED
  BY <1>1, <1>2, GroupElsewhere, GroupAnnounce, GroupOpens, GroupLeaves, GroupNotice, GroupTriesAgain, GroupReads,
     GroupRefreshed DEF Roster!Next

LEMMA GroupRuns == ASSUME [Next]_vars PROVE Roster!Next \/ UNCHANGED Roster!vars
BY DEF Next, StandStill, vars, groups, Roster!vars, Roster!service, Roster!screen

LEMMA GroupsHold == Spec => []GroupInv
<1>1. Init => GroupInv
  BY GroupInit DEF Init
<1>2. GroupInv /\ UNCHANGED Roster!vars => GroupInv'
  BY DEF Roster!vars, Roster!service, Roster!screen, GroupInv, GroupTypes, RolesSound, AnswersSound, Asking,
         Roster!InvitedIsShown, Roster!ShownIsCurrent
<1>3. GroupInv /\ [Next]_vars => GroupInv'
  BY <1>2, GroupRuns, GroupNextKeeps
<1>4. QED
  BY <1>1, <1>3, PTL DEF Spec

LEMMA ShownHolds == Spec => [](Roster!InvitedIsShown /\ Roster!ShownIsCurrent)
<1>1. GroupInv => Roster!InvitedIsShown /\ Roster!ShownIsCurrent
  BY DEF GroupInv
<1>2. QED
  BY <1>1, GroupsHold, PTL

---------------------------------------------------------------------------
(* The badge. *)

LEMMA BadgeAssumed ==
  /\ MaxUnread \in Nat /\ MaxVersion \in Nat /\ BadgeBudget \in Nat
  /\ Sidebar!Revision \subseteq Int /\ -1 \in Sidebar!Revision /\ 0 \in Sidebar!Count
  /\ \A v \in 0..MaxVersion : v \in Sidebar!Revision /\ v \in Nat
  /\ \A v \in Sidebar!Revision : v \in Int /\ -1 <= v
<1>1. MaxUnread \in Nat /\ MaxVersion \in Nat /\ BadgeBudget \in Nat
  BY PartsAssumption DEF Sidebar!BadgeAssumption
<1>2. QED
  BY <1>1 DEF Sidebar!Revision, Sidebar!Count

LEMMA BadgeShapes ==
  /\ Sidebar!NotNoted \in Notes /\ Sidebar!NotNoted.rev = -1
  /\ Sidebar!NoAck \in Acks /\ Sidebar!NoAck.rev = -1
  /\ Sidebar!Idle \in Reports /\ Sidebar!Idle.at = "idle"
BY BadgeAssumed DEF Sidebar!NotNoted, Sidebar!NoAck, Sidebar!Idle, Notes, Acks, Reports, Steps

LEMMA BadgeNumbers ==
  ASSUME BadgeTypes
  PROVE  /\ storedVersion \in Nat /\ noted.rev \in Int /\ -1 <= noted.rev /\ mobius.rev \in Int /\ -1 <= mobius.rev
         /\ ack.rev \in Int /\ -1 <= ack.rev
         /\ \A r \in Reporters : /\ reports[r] \in Reports /\ reports[r].rev \in Int /\ -1 <= reports[r].rev
                                 /\ reports[r].stored \in Int /\ reports[r].count \in Sidebar!Count
                                 /\ reports[r].rev \in Sidebar!Revision /\ reports[r].stored \in Sidebar!Revision
<1>1. storedVersion \in Nat
  BY BadgeAssumed DEF BadgeTypes
<1>2. noted.rev \in Sidebar!Revision /\ mobius.rev \in Sidebar!Revision /\ ack.rev \in Sidebar!Revision
  BY DEF BadgeTypes, Notes, Acks
<1>3. ASSUME NEW r \in Reporters
      PROVE  /\ reports[r] \in Reports /\ reports[r].rev \in Sidebar!Revision
             /\ reports[r].stored \in Sidebar!Revision /\ reports[r].count \in Sidebar!Count
  BY DEF BadgeTypes, Reports
<1>4. QED
  BY <1>1, <1>2, <1>3, BadgeAssumed

(* A step of one request, which changes neither the badge nor what Möbius shows. *)
LEMMA BadgeReport ==
  ASSUME BadgeInv, NEW r \in Reporters, NEW j \in Reports,
         reports' = [reports EXCEPT ![r] = j],
         UNCHANGED <<noted, mobius, astray, storedVersion>>, ack'.rev = ack.rev,
         ReportSound(j), Harmless(j) \/ ~Settled,
         Writing(j) => Writing(reports[r]) \/ \A s \in Reporters : ~Writing(reports[s])
  PROVE  OneWriter' /\ BadgeOrder' /\ \A s \in Reporters : ReportSound(reports[s])'
<1>1. /\ reports \in [Reporters -> Reports] /\ OneWriter /\ BadgeOrder
      /\ \A s \in Reporters : ReportSound(reports[s])
  BY DEF BadgeInv, BadgeTypes
<1>2. reports'[r] = j /\ \A s \in Reporters : s # r => reports'[s] = reports[s]
  BY <1>1
<1>3. OneWriter'
  BY <1>1, <1>2 DEF OneWriter, Writing
<1>4. Settled => Settled'
  BY <1>1, <1>2 DEF Settled, Harmless
<1>5. BadgeOrder'
  BY <1>1, <1>4 DEF BadgeOrder
<1>6. ASSUME NEW s \in Reporters PROVE ReportSound(reports[s])'
  <2>1. CASE s = r
    BY <1>2, <1>4, <2>1 DEF ReportSound
  <2>2. CASE s # r
    <3>1. ReportSound(reports[s]) /\ reports'[s] = reports[s]
      BY <1>1, <1>2, <2>2
    <3> QED
      BY <1>4, <3>1 DEF ReportSound
  <2> QED
    BY <2>1, <2>2
<1>7. QED
  BY <1>3, <1>5, <1>6

LEMMA BadgeAt ==
  ASSUME NEW j \in Reports, NEW at \in Steps
  PROVE  /\ [j EXCEPT !.at = at] \in Reports /\ [j EXCEPT !.at = at].at = at
         /\ [j EXCEPT !.at = at].rev = j.rev /\ [j EXCEPT !.at = at].count = j.count
         /\ [j EXCEPT !.at = at].stored = j.stored
BY DEF Reports

(* A request at a step that says nothing. *)
LEMMA BadgeSilent ==
  ASSUME NEW j, j.at \in {"idle", "due"}
  PROVE  ReportSound(j) /\ Harmless(j) /\ ~Writing(j)
BY DEF ReportSound, Harmless, Told, Writing

LEMMA BadgeChange == ASSUME BadgeInv, NEW r \in Reporters, Sidebar!Change(r) PROVE BadgeInv'
<1> DEFINE j == [reports[r] EXCEPT !.at = "changed"]
<1>1. /\ unread' \in Sidebar!Count /\ storedVersion < MaxVersion /\ reports' = [reports EXCEPT ![r] = j]
      /\ \A s \in Reporters : ~Writing(reports[s])
      /\ UNCHANGED <<storedVersion, noted, ack, mobius, supports, badgeLeft, torn, astray>>
  BY DEF Sidebar!Change, Sidebar!Go, Sidebar!Locked, Reporters, Writing
<1>2. BadgeTypes /\ reports[r] \in Reports /\ "changed" \in Steps
  BY BadgeNumbers DEF BadgeInv, Steps
<1>3. j \in Reports /\ j.at = "changed"
  BY <1>2, BadgeAt
<1> HIDE DEF j
<1>4. OneWriter' /\ BadgeOrder' /\ \A s \in Reporters : ReportSound(reports[s])'
  <2>1. ReportSound(j) /\ Harmless(j)
    BY <1>1, <1>3 DEF ReportSound, Harmless, Told
  <2> QED
    BY <1>1, <1>3, <2>1, BadgeReport
<1>5. BadgeTypes'
  BY <1>1, <1>2, <1>3 DEF BadgeTypes
<1>6. QED
  BY <1>4, <1>5 DEF BadgeInv

LEMMA BadgeServe == ASSUME BadgeInv, NEW r \in Reporters, Sidebar!Serve(r) PROVE BadgeInv'
<1> DEFINE j == [reports[r] EXCEPT !.at = "due"]
<1>1. /\ reports' = [reports EXCEPT ![r] = j]
      /\ UNCHANGED <<unread, storedVersion, noted, ack, mobius, supports, badgeLeft, torn, astray>>
  BY DEF Sidebar!Serve, Sidebar!Go, Sidebar!storage
<1>2. BadgeTypes /\ reports[r] \in Reports /\ "due" \in Steps
  BY BadgeNumbers DEF BadgeInv, Steps
<1>3. j \in Reports /\ j.at = "due"
  BY <1>2, BadgeAt
<1> HIDE DEF j
<1>4. OneWriter' /\ BadgeOrder' /\ \A s \in Reporters : ReportSound(reports[s])'
  <2>1. ReportSound(j) /\ Harmless(j) /\ ~Writing(j)
    BY <1>3, BadgeSilent
  <2> QED
    BY <1>1, <1>3, <2>1, BadgeReport
<1>5. BadgeTypes'
  BY <1>1, <1>2, <1>3 DEF BadgeTypes
<1>6. QED
  BY <1>4, <1>5 DEF BadgeInv

LEMMA BadgeDie == ASSUME BadgeInv, NEW r \in Reporters, Sidebar!Die(r) PROVE BadgeInv'
<1>1. /\ reports' = [reports EXCEPT ![r] = Sidebar!Idle]
      /\ badgeLeft > 0 /\ badgeLeft' = badgeLeft - 1 /\ torn' \in BOOLEAN
      /\ UNCHANGED <<unread, storedVersion, noted, ack, mobius, supports, astray>>
  BY DEF Sidebar!Die, Sidebar!End, Sidebar!storage, BadgeInv, BadgeTypes
<1>2. BadgeTypes
  BY DEF BadgeInv
<1>3. OneWriter' /\ BadgeOrder' /\ \A s \in Reporters : ReportSound(reports[s])'
  <2>1. ReportSound(Sidebar!Idle) /\ Harmless(Sidebar!Idle) /\ ~Writing(Sidebar!Idle)
    BY BadgeShapes, BadgeSilent
  <2> QED
    BY <1>1, <2>1, BadgeShapes, BadgeReport
<1>4. badgeLeft' \in 0..BadgeBudget
  BY <1>1, <1>2, BadgeAssumed DEF BadgeTypes
<1>5. BadgeTypes'
  BY <1>1, <1>2, <1>4, BadgeShapes DEF BadgeTypes
<1>6. QED
  BY <1>3, <1>5 DEF BadgeInv

(* The end of a request that has nothing more to say. *)
LEMMA BadgeEnds ==
  ASSUME BadgeInv, NEW r \in Reporters, Sidebar!End(r), ack' \in Acks, ack'.rev = ack.rev,
         UNCHANGED <<unread, storedVersion, noted, mobius, supports, badgeLeft, torn, astray>>
  PROVE  BadgeInv'
<1>1. reports' = [reports EXCEPT ![r] = Sidebar!Idle] /\ BadgeTypes
  BY DEF Sidebar!End, BadgeInv
<1>2. OneWriter' /\ BadgeOrder' /\ \A s \in Reporters : ReportSound(reports[s])'
  <2>1. ReportSound(Sidebar!Idle) /\ Harmless(Sidebar!Idle) /\ ~Writing(Sidebar!Idle)
    BY BadgeShapes, BadgeSilent
  <2> QED
    BY <1>1, <2>1, BadgeShapes, BadgeReport
<1>3. BadgeTypes'
  BY <1>1, BadgeShapes DEF BadgeTypes
<1>4. QED
  BY <1>2, <1>3 DEF BadgeInv

LEMMA BadgeReadAck == ASSUME BadgeInv, NEW r \in Reporters, Sidebar!ReadAck(r) PROVE BadgeInv'
<1> DEFINE j == [reports[r] EXCEPT !.at = "put"]
<1>1. /\ reports[r].at = "read" /\ UNCHANGED <<unread, storedVersion, noted, ack, mobius, supports, badgeLeft, torn, astray>>
      /\ reports' = [reports EXCEPT ![r] = j] \/ Sidebar!End(r)
  BY DEF Sidebar!ReadAck, Sidebar!Go, Sidebar!At, Sidebar!storage
<1>2. BadgeTypes /\ reports[r] \in Reports /\ "put" \in Steps /\ ReportSound(reports[r])
  BY BadgeNumbers DEF BadgeInv, Steps
<1>3. CASE reports' = [reports EXCEPT ![r] = j]
  <2>1. j \in Reports /\ j.at = "put" /\ j.rev = reports[r].rev /\ j.count = reports[r].count
    BY <1>2, BadgeAt
  <2> HIDE DEF j
  <2>2. ReportSound(j)
    BY <1>1, <1>2, <2>1 DEF ReportSound, Told
  <2>3. Harmless(j) \/ ~Settled
    BY <1>1, <2>1 DEF Settled, Harmless
  <2>4. OneWriter' /\ BadgeOrder' /\ \A s \in Reporters : ReportSound(reports[s])'
    BY <1>1, <1>3, <2>1, <2>2, <2>3, BadgeReport DEF Writing
  <2>5. BadgeTypes'
    BY <1>1, <1>2, <1>3, <2>1 DEF BadgeTypes
  <2> QED
    BY <2>4, <2>5 DEF BadgeInv
<1>4. CASE Sidebar!End(r)
  BY <1>1, <1>2, <1>4, BadgeEnds DEF BadgeTypes
<1>5. QED
  BY <1>1, <1>3, <1>4

LEMMA BadgeMarks == ASSUME BadgeInv, NEW r \in Reporters, Sidebar!MarkUnsupported(r) PROVE BadgeInv'
<1>1. /\ ack' = [ack EXCEPT !.unsupported = "recent"] /\ Sidebar!End(r)
      /\ UNCHANGED <<unread, storedVersion, noted, mobius, supports, badgeLeft, torn, astray>>
  BY DEF Sidebar!MarkUnsupported
<1>2. ack' \in Acks /\ ack'.rev = ack.rev
  BY <1>1 DEF BadgeInv, BadgeTypes, Acks
<1>3. QED
  BY <1>1, <1>2, BadgeEnds

LEMMA BadgeAges == ASSUME BadgeInv, Sidebar!Age PROVE BadgeInv'
<1>1. /\ ack' = [ack EXCEPT !.unsupported = "old"]
      /\ UNCHANGED <<unread, storedVersion, noted, mobius, supports, reports, badgeLeft, torn, astray>>
  BY DEF Sidebar!Age
<1>2. ack' \in Acks /\ ack'.rev = ack.rev
  BY <1>1 DEF BadgeInv, BadgeTypes, Acks
<1>3. QED
  BY <1>1, <1>2 DEF BadgeInv, BadgeTypes, OneWriter, BadgeOrder, ReportSound, Settled, Harmless

LEMMA BadgeUpgrade == ASSUME BadgeInv, Sidebar!Upgrade PROVE BadgeInv'
<1>1. supports' = TRUE /\ UNCHANGED <<unread, storedVersion, noted, ack, mobius, reports, badgeLeft, torn, astray>>
  BY DEF Sidebar!Upgrade, Sidebar!storage
<1>2. QED
  BY <1>1 DEF BadgeInv, BadgeTypes, OneWriter, BadgeOrder, ReportSound, Settled, Harmless

LEMMA BadgeBump == ASSUME BadgeInv, NEW r \in Reporters, Sidebar!Bump(r) PROVE BadgeInv'
<1> DEFINE j == [reports[r] EXCEPT !.at = "bumped", !.rev = storedVersion + 1]
<1>1. /\ reports[r].at = "changed" /\ storedVersion' = storedVersion + 1
      /\ reports' = [reports EXCEPT ![r] = j]
      /\ astray' = IF astray = "restored" /\ mobius.rev <= storedVersion + 1 THEN "beyond" ELSE astray
      /\ UNCHANGED <<unread, noted, ack, mobius, supports, badgeLeft, torn>>
  BY DEF Sidebar!Bump, Sidebar!At
<1>2. /\ BadgeTypes /\ OneWriter /\ BadgeOrder /\ reports[r] \in Reports
      /\ \A s \in Reporters : ReportSound(reports[s])
  BY BadgeNumbers DEF BadgeInv
<1>3. storedVersion \in Nat /\ storedVersion + 1 \in 0..MaxVersion
  <2>1. storedVersion < MaxVersion
    BY <1>1, <1>2 DEF ReportSound
  <2> QED
    BY <1>2, <2>1, BadgeAssumed DEF BadgeTypes
<1>4. j \in Reports /\ j.at = "bumped" /\ j.rev = storedVersion + 1
  <2>1. storedVersion + 1 \in Sidebar!Revision /\ "bumped" \in Steps
    BY <1>3, BadgeAssumed DEF Steps
  <2> QED
    BY <1>2, <2>1 DEF Reports
<1> HIDE DEF j
<1>5. reports'[r] = j /\ \A s \in Reporters : s # r => reports'[s] = reports[s] /\ ~Writing(reports[s])
  BY <1>1, <1>2 DEF BadgeTypes, OneWriter, Writing
<1>6. BadgeTypes'
  <2>1. reports' \in [Reporters -> Reports]
    BY <1>1, <1>2, <1>4 DEF BadgeTypes
  <2> QED
    BY <1>1, <1>2, <1>3, <2>1 DEF BadgeTypes
<1>7. OneWriter'
  BY <1>5 DEF OneWriter, Writing
<1>8. Settled => Settled'
  <2>1. reports'[r].at = "bumped"
    BY <1>4, <1>5
  <2>2. ASSUME Settled, NEW s \in Reporters PROVE Harmless(reports[s])'
    <3>1. s = r \/ (reports'[s] = reports[s] /\ Harmless(reports[s]))
      BY <1>5, <2>2 DEF Settled
    <3> QED
      BY <1>1, <2>1, <3>1 DEF Harmless
  <2> QED
    BY <1>1, <2>2 DEF Settled
<1>9. noted.rev < storedVersion + 1
  BY <1>2, <1>3, BadgeNumbers DEF BadgeOrder
<1>10. BadgeOrder'
  <2>1. astray' = "restored" => astray = "restored" /\ storedVersion + 1 < mobius.rev
    BY <1>1, <1>2, <1>3, BadgeNumbers
  <2>2. astray' = "no" => astray = "no"
    BY <1>1
  <2>3. noted.rev <= storedVersion + 1
    BY <1>2, <1>9, BadgeNumbers
  <2> QED
    BY <1>1, <1>2, <1>8, <2>1, <2>2, <2>3 DEF BadgeOrder
<1>11. ASSUME NEW s \in Reporters PROVE ReportSound(reports[s])'
  <2>1. CASE s = r
    BY <1>1, <1>4, <1>5, <1>9, <2>1 DEF ReportSound, Told
  <2>2. CASE s # r
    <3>1. ReportSound(reports[s]) /\ reports'[s] = reports[s] /\ reports[s].at \notin {"changed", "bumped"}
      BY <1>2, <1>5, <2>2 DEF Writing
    <3>2. (astray' = "no" => astray = "no") /\ (astray' = "restored" => astray = "restored")
      BY <1>1
    <3> QED
      BY <1>1, <1>8, <3>1, <3>2 DEF ReportSound
  <2> QED
    BY <2>1, <2>2
<1>12. QED
  BY <1>6, <1>7, <1>10, <1>11 DEF BadgeInv

(* A newly noted badge: no report speaks of its revision yet, and nothing acknowledged does. *)
LEMMA BadgeNotes ==
  ASSUME BadgeInv, noted' \in Notes, noted.rev < noted'.rev, noted'.rev = storedVersion,
         NEW r \in Reporters, NEW j \in Reports, reports' = [reports EXCEPT ![r] = j],
         \A s \in Reporters \ {r} : ~Writing(reports[s]), ~Writing(j),
         j.at \in Told => j.at = "read" /\ j.rev = noted'.rev /\ j.count = noted'.count,
         UNCHANGED <<mobius, astray, ack, storedVersion>>
  PROVE  OneWriter' /\ BadgeOrder' /\ \A s \in Reporters : ReportSound(reports[s])'
<1>1. /\ BadgeTypes /\ BadgeOrder /\ \A s \in Reporters : ReportSound(reports[s])
  BY DEF BadgeInv
<1>2. reports'[r] = j /\ \A s \in Reporters : s # r => reports'[s] = reports[s]
  BY <1>1 DEF BadgeTypes
<1>3. OneWriter'
  BY <1>2 DEF OneWriter, Writing
<1>4. noted'.rev \in Int /\ storedVersion \in Nat
  BY <1>1, BadgeNumbers
<1>5. BadgeOrder'
  BY <1>1, <1>4, BadgeNumbers DEF BadgeOrder
<1>6. ASSUME NEW s \in Reporters PROVE ReportSound(reports[s])'
  <2>1. CASE s = r
    <3>1. 0 <= noted'.rev /\ noted'.rev <= noted'.rev
      BY <1>4
    <3>2. j.at \notin {"changed", "bumped", "answered", "accepted"}
      BY DEF Told, Writing
    <3>3. j.at \in {"read", "put"} => j.at \in Told
      BY DEF Told
    <3> QED
      BY <1>2, <2>1, <3>1, <3>2, <3>3 DEF ReportSound
  <2>2. CASE s # r
    <3>1. ReportSound(reports[s]) /\ reports'[s] = reports[s] /\ ~Writing(reports[s])
      BY <1>1, <1>2, <2>2
    <3>2. reports[s].at \in Told => reports[s].rev < noted'.rev
      BY <1>1, <1>4, <3>1, BadgeNumbers DEF ReportSound
    <3> QED
      BY <1>1, <3>1, <3>2, <1>4, BadgeNumbers DEF ReportSound, Told, Writing
  <2> QED
    BY <2>1, <2>2
<1>7. QED
  BY <1>3, <1>5, <1>6

LEMMA BadgeRecord == ASSUME BadgeInv, NEW r \in Reporters, Sidebar!Record(r) PROVE BadgeInv'
<1> DEFINE j == [reports[r] EXCEPT !.at = "due"]
<1>1. /\ reports[r].at = "bumped" /\ noted' = Sidebar!Noted(reports[r].rev) /\ reports' = [reports EXCEPT ![r] = j]
      /\ torn' = FALSE /\ UNCHANGED <<unread, storedVersion, ack, mobius, supports, badgeLeft, astray>>
  BY DEF Sidebar!Record, Sidebar!At, Sidebar!Go
<1>2. /\ BadgeTypes /\ OneWriter /\ reports[r] \in Reports /\ ReportSound(reports[r]) /\ "due" \in Steps
      /\ reports[r].rev \in Sidebar!Revision /\ unread \in Sidebar!Count
  BY BadgeNumbers DEF BadgeInv, BadgeTypes, Steps
<1>3. j \in Reports /\ j.at = "due"
  BY <1>2, BadgeAt
<1> HIDE DEF j
<1>4. noted' = noted \/ noted' = [rev |-> reports[r].rev, count |-> unread]
  BY <1>1 DEF Sidebar!Noted
<1>5. noted' \in Notes
  BY <1>2, <1>4 DEF BadgeTypes, Notes
<1>6. BadgeTypes'
  BY <1>1, <1>2, <1>3, <1>5 DEF BadgeTypes
<1>7. CASE noted' = noted
  <2>1. ReportSound(j) /\ Harmless(j) /\ ~Writing(j)
    BY <1>3, BadgeSilent
  <2>2. OneWriter' /\ BadgeOrder' /\ \A s \in Reporters : ReportSound(reports[s])'
    BY <1>1, <1>3, <1>7, <2>1, BadgeReport
  <2> QED
    BY <1>6, <2>2 DEF BadgeInv
<1>8. CASE noted' = [rev |-> reports[r].rev, count |-> unread]
  <2>1. noted'.rev = storedVersion /\ noted.rev < noted'.rev
    BY <1>1, <1>2, <1>8 DEF ReportSound
  <2>2. (\A s \in Reporters \ {r} : ~Writing(reports[s])) /\ ~Writing(j) /\ j.at \notin Told
    BY <1>1, <1>2, <1>3 DEF OneWriter, Writing, Told
  <2>3. OneWriter' /\ BadgeOrder' /\ \A s \in Reporters : ReportSound(reports[s])'
    BY <1>1, <1>3, <1>5, <2>1, <2>2, BadgeNotes
  <2> QED
    BY <1>6, <2>3 DEF BadgeInv
<1>9. QED
  BY <1>4, <1>7, <1>8

LEMMA BadgeReads == ASSUME BadgeInv, NEW r \in Reporters, Sidebar!ReadBadge(r) PROVE BadgeInv'
<1> DEFINE j == [Sidebar!Idle EXCEPT !.at = "read", !.rev = noted'.rev, !.count = noted'.count]
<1>1. /\ reports[r].at = "due" /\ (noted.rev = -1 => \A s \in Reporters : ~Writing(reports[s]))
      /\ noted' = IF noted.rev = -1 THEN Sidebar!Noted(storedVersion) ELSE noted
      /\ torn' = (torn /\ noted.rev # -1) /\ reports' = [reports EXCEPT ![r] = j]
      /\ UNCHANGED <<unread, storedVersion, ack, mobius, supports, badgeLeft, astray>>
  BY DEF Sidebar!ReadBadge, Sidebar!At, Sidebar!Locked, Reporters, Writing
<1>2. BadgeTypes /\ BadgeOrder
  BY DEF BadgeInv
<1>3. noted' = noted \/ (noted.rev = -1 /\ noted' = [rev |-> storedVersion, count |-> unread])
  BY <1>1 DEF Sidebar!Noted
<1>4. noted' \in Notes
  BY <1>2, <1>3, BadgeAssumed DEF BadgeTypes, Notes
<1>5. j \in Reports /\ j.at = "read" /\ j.rev = noted'.rev /\ j.count = noted'.count
  BY <1>4, BadgeShapes DEF Reports, Notes, Steps
<1> HIDE DEF j
<1>6. torn' \in BOOLEAN
  BY <1>1
<1>7. BadgeTypes'
  BY <1>1, <1>2, <1>4, <1>5, <1>6 DEF BadgeTypes
<1>8. CASE noted' = noted /\ noted.rev # -1
  <2>1. 0 <= noted.rev
    BY <1>2, <1>8, BadgeNumbers
  <2>2. noted.rev <= noted.rev
    BY <1>2, BadgeNumbers
  <2>3. ReportSound(j) /\ Harmless(j)
    BY <1>5, <1>8, <2>1, <2>2 DEF ReportSound, Harmless
  <2>4. OneWriter' /\ BadgeOrder' /\ \A s \in Reporters : ReportSound(reports[s])'
    BY <1>1, <1>5, <1>8, <2>3, BadgeReport DEF Writing
  <2> QED
    BY <1>7, <2>4 DEF BadgeInv
<1>9. CASE noted.rev = -1 /\ noted' = [rev |-> storedVersion, count |-> unread]
  <2>1. noted'.rev = storedVersion /\ noted.rev < noted'.rev
    BY <1>2, <1>9, BadgeNumbers
  <2>2. (\A s \in Reporters \ {r} : ~Writing(reports[s])) /\ ~Writing(j)
    BY <1>1, <1>5, <1>9 DEF Writing
  <2>3. OneWriter' /\ BadgeOrder' /\ \A s \in Reporters : ReportSound(reports[s])'
    BY <1>1, <1>4, <1>5, <2>1, <2>2, BadgeNotes
  <2> QED
    BY <1>7, <2>3 DEF BadgeInv
<1>10. ASSUME noted' = noted, noted.rev = -1 PROVE FALSE
  <2>1. noted' = [rev |-> storedVersion, count |-> unread]
    BY <1>1, <1>10 DEF Sidebar!Noted
  <2> QED
    BY <1>2, <1>10, <2>1, BadgeNumbers
<1>11. QED
  BY <1>3, <1>8, <1>9, <1>10

LEMMA BadgePut == ASSUME BadgeInv, NEW r \in Reporters, Sidebar!Put(r) PROVE BadgeInv'
<1> DEFINE i == reports[r]
           u == [i EXCEPT !.at = "unsupported"]
           m == IF mobius.rev < i.rev THEN [rev |-> i.rev, count |-> i.count] ELSE mobius
           j == [i EXCEPT !.at = "answered", !.stored = m.rev]
<1>1. /\ i.at = "put" /\ UNCHANGED <<unread, storedVersion, noted, ack, supports, badgeLeft, torn, astray>>
      /\ \/ reports' = [reports EXCEPT ![r] = u] /\ mobius' = mobius
         \/ mobius' = m /\ reports' = [reports EXCEPT ![r] = j]
  BY DEF Sidebar!Put, Sidebar!At, Sidebar!Go, Sidebar!storage
<1>2. /\ BadgeTypes /\ OneWriter /\ BadgeOrder /\ i \in Reports /\ i.rev \in Sidebar!Revision
      /\ i.count \in Sidebar!Count /\ {"unsupported", "answered"} \subseteq Steps
      /\ \A s \in Reporters : ReportSound(reports[s])
  BY BadgeNumbers DEF BadgeInv, Steps
<1>3. /\ i.rev \in Int /\ mobius.rev \in Int /\ noted.rev \in Int /\ storedVersion \in Nat
      /\ 0 <= i.rev /\ i.rev <= noted.rev /\ (i.rev = noted.rev => i.count = noted.count)
  <2>1. ReportSound(i)
    BY <1>2
  <2> QED
    BY <1>1, <1>2, <2>1, BadgeNumbers DEF ReportSound, Told
<1>4. CASE reports' = [reports EXCEPT ![r] = u] /\ mobius' = mobius
  <2>1. u \in Reports /\ u.at = "unsupported" /\ u.rev = i.rev
    BY <1>2, BadgeAt
  <2> HIDE DEF u, i
  <2>2. ReportSound(u) /\ Harmless(u)
    BY <1>3, <2>1 DEF ReportSound, Harmless
  <2>3. OneWriter' /\ BadgeOrder' /\ \A s \in Reporters : ReportSound(reports[s])'
    BY <1>1, <1>4, <2>1, <2>2, BadgeReport DEF Writing
  <2>4. BadgeTypes'
    BY <1>1, <1>2, <1>4, <2>1 DEF BadgeTypes
  <2> QED
    BY <2>3, <2>4 DEF BadgeInv
<1>5. CASE mobius' = m /\ reports' = [reports EXCEPT ![r] = j]
  <2>1. m \in Notes
    BY <1>2 DEF BadgeTypes, Notes
  <2>2. j \in Reports /\ j.at = "answered" /\ j.rev = i.rev /\ j.stored = m.rev
    <3>1. m.rev \in Sidebar!Revision
      BY <2>1 DEF Notes
    <3> HIDE DEF m, i
    <3> QED
      BY <1>2, <3>1 DEF Reports
  <2>3. /\ m.rev \in Int /\ mobius.rev <= m.rev /\ i.rev <= m.rev
        /\ m = mobius \/ (m.rev = i.rev /\ m.count = i.count /\ mobius.rev < i.rev)
    BY <1>3
  <2> HIDE DEF m, j, i
  <2>4. reports'[r] = j /\ \A s \in Reporters : s # r => reports'[s] = reports[s]
    BY <1>2, <1>5 DEF BadgeTypes
  <2>5. ASSUME m.count = noted.count, Settled \/ m.rev = noted.rev PROVE Settled'
    <3>1. ASSUME NEW s \in Reporters PROVE Harmless(reports[s])'
      <4>1. CASE s = r
        BY <2>2, <2>4, <4>1 DEF Harmless
      <4>2. CASE s # r /\ Settled
        <5>1. reports[s].rev \in Int /\ Harmless(reports[s])
          BY <1>2, <4>2, BadgeNumbers DEF Settled
        <5>2. reports[s].rev <= mobius.rev => reports[s].rev <= m.rev
          BY <1>3, <2>3, <5>1
        <5> QED
          BY <1>1, <1>5, <2>4, <4>2, <5>1, <5>2 DEF Harmless
      <4>3. CASE s # r /\ m.rev = noted.rev
        <5>1. reports[s].at \in {"read", "put"} => reports[s].rev <= m.rev
          BY <1>2, <4>3 DEF ReportSound, Told
        <5> QED
          BY <1>5, <2>4, <4>3, <5>1 DEF Harmless
      <4> QED
        BY <2>5, <4>1, <4>2, <4>3
    <3> QED
      BY <1>1, <1>5, <2>5, <3>1 DEF Settled
  <2>6. Settled => Settled'
    <3>1. SUFFICES ASSUME Settled PROVE Settled'
      OBVIOUS
    <3>2. Harmless(i) /\ mobius.count = noted.count
      BY <1>2, <3>1 DEF Settled, i
    <3>3. m.count = noted.count
      <4>1. CASE m = mobius
        BY <3>2, <4>1
      <4>2. CASE m.count = i.count /\ mobius.rev < i.rev
        <5>1. ~(i.rev <= mobius.rev)
          BY <1>3, <4>2
        <5> QED
          BY <1>1, <3>2, <4>2, <5>1 DEF Harmless
      <4> QED
        BY <2>3, <4>1, <4>2
    <3> QED
      BY <2>5, <3>1, <3>3
  <2>7. astray = "no" => /\ m.rev <= noted.rev
                         /\ (m.rev = noted.rev => m.count = noted.count /\ Settled')
    <3>1. SUFFICES ASSUME astray = "no"
                   PROVE  m.rev <= noted.rev /\ (m.rev = noted.rev => m.count = noted.count)
      BY <2>5
    <3>2. mobius.rev <= noted.rev /\ (noted.rev # -1 /\ mobius.rev = noted.rev => mobius.count = noted.count)
      BY <1>2, <3>1 DEF BadgeOrder
    <3>3. noted.rev # -1
      BY <1>3
    <3>4. CASE m = mobius
      BY <3>2, <3>3, <3>4
    <3>5. CASE m.rev = i.rev /\ m.count = i.count
      BY <1>3, <3>5
    <3> QED
      BY <2>3, <3>4, <3>5
  <2>8. astray = "restored" => m = mobius
    <3>1. SUFFICES ASSUME astray = "restored" PROVE ~(mobius.rev < i.rev)
      BY <2>3
    <3>2. storedVersion < mobius.rev /\ noted.rev <= storedVersion
      BY <1>2, <3>1 DEF BadgeOrder
    <3> QED
      BY <1>3, <3>2
  <2>9. OneWriter'
    BY <1>2, <2>2, <2>4 DEF OneWriter, Writing
  <2>10. BadgeOrder'
    BY <1>1, <1>2, <1>5, <2>6, <2>7, <2>8 DEF BadgeOrder
  <2>11. ASSUME NEW s \in Reporters PROVE ReportSound(reports[s])'
    <3>1. CASE s = r
      <4>1. astray = "no" /\ i.rev = noted.rev => Settled'
        <5>1. SUFFICES ASSUME astray = "no", i.rev = noted.rev PROVE m.rev = noted.rev
          BY <2>7
        <5> QED
          BY <1>3, <2>3, <2>7, <5>1
      <4> QED
        BY <1>1, <1>3, <1>5, <2>2, <2>4, <3>1, <4>1 DEF ReportSound
    <3>2. CASE s # r
      <4>1. ReportSound(reports[s]) /\ reports'[s] = reports[s]
        BY <1>2, <2>4, <3>2
      <4> QED
        BY <1>1, <1>5, <2>6, <2>8, <4>1 DEF ReportSound
    <3> QED
      BY <3>1, <3>2
  <2>12. BadgeTypes'
    BY <1>1, <1>2, <1>5, <2>1, <2>2 DEF BadgeTypes
  <2> QED
    BY <2>9, <2>10, <2>11, <2>12 DEF BadgeInv
<1>6. QED
  BY <1>1, <1>4, <1>5

LEMMA BadgeJudges == ASSUME BadgeInv, NEW r \in Reporters, Sidebar!Judge(r) PROVE BadgeInv'
<1> DEFINE i == reports[r]
           j == [i EXCEPT !.at = "reset", !.count = noted.count]
           k == [i EXCEPT !.at = "accepted"]
<1>1. /\ i.at = "answered"
      /\ UNCHANGED <<unread, storedVersion, noted, ack, mobius, supports, badgeLeft, torn, astray>>
      /\ \/ reports' = [reports EXCEPT ![r] = j]
         \/ ~(i.stored > i.rev /\ i.stored > storedVersion) /\ reports' = [reports EXCEPT ![r] = k]
  BY DEF Sidebar!Judge, Sidebar!FromTheFuture, Sidebar!At, Sidebar!Go, Sidebar!storage
<1>2. /\ BadgeTypes /\ BadgeOrder /\ i \in Reports /\ ReportSound(i) /\ {"reset", "accepted"} \subseteq Steps
      /\ noted.count \in Sidebar!Count
  BY BadgeNumbers DEF BadgeInv, BadgeTypes, Steps, Notes
<1>3. CASE reports' = [reports EXCEPT ![r] = j]
  <2>1. j \in Reports /\ j.at = "reset" /\ j.rev = i.rev
    BY <1>2 DEF Reports
  <2> HIDE DEF j, i
  <2>2. ReportSound(j) /\ Harmless(j)
    BY <1>1, <1>2, <2>1 DEF ReportSound, Harmless, Told
  <2>3. OneWriter' /\ BadgeOrder' /\ \A s \in Reporters : ReportSound(reports[s])'
    BY <1>1, <1>3, <2>1, <2>2, BadgeReport DEF Writing
  <2>4. BadgeTypes'
    BY <1>1, <1>2, <1>3, <2>1 DEF BadgeTypes
  <2> QED
    BY <2>3, <2>4 DEF BadgeInv
<1>4. CASE ~(i.stored > i.rev /\ i.stored > storedVersion) /\ reports' = [reports EXCEPT ![r] = k]
  <2>1. k \in Reports /\ k.at = "accepted" /\ k.rev = i.rev
    BY <1>2, BadgeAt
  <2>2. i.stored \in Int /\ i.rev \in Int /\ storedVersion \in Nat /\ noted.rev \in Int /\ mobius.rev \in Int
    BY <1>2, BadgeNumbers
  <2> HIDE DEF k, i
  <2>3. astray # "restored"
    <3>1. SUFFICES ASSUME astray = "restored" PROVE FALSE
      OBVIOUS
    <3>2. i.stored = mobius.rev /\ i.rev <= noted.rev /\ storedVersion < mobius.rev /\ noted.rev <= storedVersion
      BY <1>1, <1>2, <3>1 DEF ReportSound, BadgeOrder, Told
    <3> QED
      BY <1>4, <2>2, <3>2
  <2>4. ReportSound(k) /\ Harmless(k)
    BY <1>1, <1>2, <2>1, <2>3 DEF ReportSound, Harmless, Told
  <2>5. OneWriter' /\ BadgeOrder' /\ \A s \in Reporters : ReportSound(reports[s])'
    BY <1>1, <1>4, <2>1, <2>4, BadgeReport DEF Writing
  <2>6. BadgeTypes'
    BY <1>1, <1>2, <1>4, <2>1 DEF BadgeTypes
  <2> QED
    BY <2>5, <2>6 DEF BadgeInv
<1>5. QED
  BY <1>1, <1>3, <1>4

LEMMA BadgeResets == ASSUME BadgeInv, NEW r \in Reporters, Sidebar!Reset(r) PROVE BadgeInv'
<1> DEFINE i == reports[r]
           k == [i EXCEPT !.at = "accepted"]
           m == [rev |-> -1, count |-> i.count]
<1>1. /\ i.at = "reset" /\ mobius' = m /\ reports' = [reports EXCEPT ![r] = k]
      /\ astray' = IF astray = "beyond" \/ Sidebar!Outdated THEN "beyond" ELSE "no"
      /\ UNCHANGED <<unread, storedVersion, noted, ack, supports, badgeLeft, torn>>
  BY DEF Sidebar!Reset, Sidebar!At, Sidebar!Go, Sidebar!storage
<1>2. /\ BadgeTypes /\ OneWriter /\ BadgeOrder /\ i \in Reports /\ i.count \in Sidebar!Count
      /\ "accepted" \in Steps /\ \A s \in Reporters : ReportSound(reports[s])
  BY BadgeNumbers DEF BadgeInv, Steps
<1>3. k \in Reports /\ k.at = "accepted" /\ k.rev = i.rev
  BY <1>2, BadgeAt
<1>4. m \in Notes /\ m.rev = -1 /\ m.count = i.count
  BY <1>2, BadgeAssumed DEF Notes
<1>5. 0 <= i.rev /\ i.rev <= noted.rev /\ noted.rev \in Int /\ i.rev \in Int
  <2>1. ReportSound(i)
    BY <1>2
  <2> QED
    BY <1>1, <1>2, <2>1, BadgeNumbers DEF ReportSound, Told
<1>6. astray' # "restored" /\ (astray' = "no" => ~Sidebar!Outdated)
  BY <1>1
<1>7. ~Sidebar!Outdated => \A s \in Reporters : reports[s].at \in {"read", "put", "reset"} => reports[s].count = noted.count
  BY DEF Sidebar!Outdated, Reporters
<1> HIDE DEF i, k, m
<1>8. reports'[r] = k /\ \A s \in Reporters : s # r => reports'[s] = reports[s]
  BY <1>1, <1>2 DEF BadgeTypes
<1>9. astray' = "no" => Settled'
  <2>1. SUFFICES ASSUME astray' = "no" PROVE Settled'
    OBVIOUS
  <2>2. \A s \in Reporters : reports[s].at \in {"read", "put", "reset"} => reports[s].count = noted.count
    BY <1>6, <1>7, <2>1
  <2>3. i.count = noted.count
    BY <1>1, <2>2 DEF i
  <2>4. ASSUME NEW s \in Reporters PROVE Harmless(reports[s])'
    BY <1>1, <1>3, <1>8, <2>2 DEF Harmless
  <2> QED
    BY <1>1, <1>4, <2>3, <2>4 DEF Settled
<1>10. OneWriter'
  BY <1>2, <1>3, <1>8 DEF OneWriter, Writing
<1>11. BadgeOrder'
  <2>1. -1 <= noted.rev
    BY <1>5
  <2> QED
    BY <1>1, <1>2, <1>4, <1>5, <1>6, <1>9, <2>1 DEF BadgeOrder
<1>12. ASSUME NEW s \in Reporters PROVE ReportSound(reports[s])'
  <2>1. CASE s = r
    BY <1>1, <1>3, <1>5, <1>6, <1>8, <1>9, <2>1 DEF ReportSound
  <2>2. CASE s # r
    <3>1. ReportSound(reports[s]) /\ reports'[s] = reports[s]
      BY <1>2, <1>8, <2>2
    <3> QED
      BY <1>1, <1>6, <1>9, <3>1 DEF ReportSound
  <2> QED
    BY <2>1, <2>2
<1>13. BadgeTypes'
  <2>1. astray' \in {"no", "restored", "beyond"}
    BY <1>1
  <2> QED
    BY <1>1, <1>2, <1>3, <1>4, <2>1 DEF BadgeTypes
<1>14. QED
  BY <1>10, <1>11, <1>12, <1>13 DEF BadgeInv

LEMMA BadgeAcknowledges == ASSUME BadgeInv, NEW r \in Reporters, Sidebar!Acknowledge(r) PROVE BadgeInv'
<1> DEFINE i == reports[r]
<1>1. /\ i.at = "accepted" /\ reports' = [reports EXCEPT ![r] = Sidebar!Idle]
      /\ ack' = IF ack.rev < i.rev \/ ack.unsupported # "no"
                THEN [rev |-> IF ack.rev < i.rev THEN i.rev ELSE ack.rev, unsupported |-> "no"] ELSE ack
      /\ UNCHANGED <<unread, storedVersion, noted, mobius, supports, badgeLeft, torn, astray>>
  BY DEF Sidebar!Acknowledge, Sidebar!At, Sidebar!End
<1>2. /\ BadgeTypes /\ OneWriter /\ BadgeOrder /\ i \in Reports /\ i.rev \in Sidebar!Revision
      /\ \A s \in Reporters : ReportSound(reports[s])
  BY BadgeNumbers DEF BadgeInv
<1>3. /\ 0 <= i.rev /\ i.rev <= noted.rev /\ astray # "restored"
      /\ astray = "no" /\ i.rev = noted.rev => Settled
  <2>1. ReportSound(i)
    BY <1>2
  <2> QED
    BY <1>1, <2>1 DEF ReportSound, Told
<1>4. ack' \in Acks /\ (ack'.rev = ack.rev \/ ack'.rev = i.rev)
  <2>1. ack \in Acks
    BY <1>2 DEF BadgeTypes
  <2> HIDE DEF i
  <2> QED
    BY <1>1, <1>2, <2>1 DEF Acks
<1> HIDE DEF i
<1>5. reports'[r] = Sidebar!Idle /\ \A s \in Reporters : s # r => reports'[s] = reports[s]
  BY <1>1, <1>2 DEF BadgeTypes
<1>6. Settled => Settled'
  <2>1. ASSUME Settled, NEW s \in Reporters PROVE Harmless(reports[s])'
    BY <1>1, <1>5, <2>1, BadgeShapes DEF Settled, Harmless
  <2> QED
    BY <1>1, <2>1 DEF Settled
<1>7. OneWriter'
  BY <1>2, <1>5, BadgeShapes DEF OneWriter, Writing
<1>8. BadgeOrder'
  BY <1>1, <1>2, <1>3, <1>4, <1>6 DEF BadgeOrder
<1>9. ASSUME NEW s \in Reporters PROVE ReportSound(reports[s])'
  <2>1. CASE s = r
    BY <1>5, <2>1, BadgeShapes DEF ReportSound, Told
  <2>2. CASE s # r
    <3>1. ReportSound(reports[s]) /\ reports'[s] = reports[s]
      BY <1>2, <1>5, <2>2
    <3> QED
      BY <1>1, <1>6, <3>1 DEF ReportSound
  <2> QED
    BY <2>1, <2>2
<1>10. BadgeTypes'
  BY <1>1, <1>2, <1>4, BadgeShapes DEF BadgeTypes
<1>11. QED
  BY <1>7, <1>8, <1>9, <1>10 DEF BadgeInv

LEMMA BadgeRestored == ASSUME BadgeInv, Sidebar!Restore PROVE BadgeInv'
<1>1. /\ reports = [r \in Reporters |-> Sidebar!Idle] /\ badgeLeft > 0 /\ badgeLeft' = badgeLeft - 1
      /\ unread' \in Sidebar!Count /\ storedVersion' = 0 /\ noted' = Sidebar!NotNoted /\ ack' = Sidebar!NoAck
      /\ torn' = FALSE /\ UNCHANGED <<mobius, supports, reports>>
      /\ astray' = IF mobius.rev = -1 THEN "no" ELSE IF mobius.rev > 0 THEN "restored" ELSE "beyond"
  BY DEF Sidebar!Restore, Reporters
<1>2. BadgeTypes
  BY DEF BadgeInv
<1>3. \A r \in Reporters : reports'[r].at = "idle"
  BY <1>1, BadgeShapes
<1>4. BadgeTypes'
  <2>1. badgeLeft' \in 0..BadgeBudget /\ 0 \in 0..MaxVersion
    BY <1>1, <1>2, BadgeAssumed DEF BadgeTypes
  <2>2. astray' \in {"no", "restored", "beyond"}
    BY <1>1
  <2> QED
    BY <1>1, <1>2, <2>1, <2>2, BadgeShapes DEF BadgeTypes
<1>5. OneWriter'
  BY <1>3 DEF OneWriter, Writing
<1>6. BadgeOrder'
  <2>1. astray' = "no" => mobius.rev = -1
    BY <1>1
  <2>2. astray' = "restored" => 0 < mobius.rev
    BY <1>1
  <2> QED
    BY <1>1, <2>1, <2>2, BadgeShapes DEF BadgeOrder
<1>7. \A r \in Reporters : ReportSound(reports[r])'
  BY <1>3 DEF ReportSound, Told
<1>8. QED
  BY <1>4, <1>5, <1>6, <1>7 DEF BadgeInv

LEMMA BadgeInit == ASSUME Sidebar!Init PROVE BadgeInv
<1>1. /\ unread \in Sidebar!Count /\ storedVersion = 0 /\ ack = Sidebar!NoAck /\ mobius = Sidebar!NotNoted
      /\ noted = Sidebar!NotNoted \/ noted = [rev |-> 0, count |-> unread]
      /\ supports \in BOOLEAN /\ reports = [r \in Reporters |-> Sidebar!Idle] /\ badgeLeft = BadgeBudget
      /\ torn = FALSE /\ astray = "no"
  BY DEF Sidebar!Init, Reporters
<1>2. 0 \in 0..MaxVersion /\ BadgeBudget \in 0..BadgeBudget
  BY BadgeAssumed
<1>3. noted \in Notes /\ (noted.rev = -1 \/ noted.rev = 0)
  BY <1>1, <1>2, BadgeShapes, BadgeAssumed DEF Notes
<1>4. \A r \in Reporters : reports[r].at = "idle"
  BY <1>1, BadgeShapes
<1>5. BadgeTypes
  BY <1>1, <1>2, <1>3, BadgeShapes DEF BadgeTypes
<1>6. OneWriter /\ \A r \in Reporters : ReportSound(reports[r])
  BY <1>1, <1>4 DEF OneWriter, Writing, ReportSound, Told
<1>7. BadgeOrder
  BY <1>1, <1>3, BadgeShapes DEF BadgeOrder
<1>8. QED
  BY <1>5, <1>6, <1>7 DEF BadgeInv

LEMMA BadgeNextKeeps == BadgeInv /\ Sidebar!Next => BadgeInv'
BY BadgeChange, BadgeBump, BadgeRecord, BadgeServe, BadgeReads, BadgeReadAck, BadgePut, BadgeJudges, BadgeResets,
   BadgeMarks, BadgeAcknowledges, BadgeDie, BadgeUpgrade, BadgeAges, BadgeRestored
   DEF Sidebar!Next, Sidebar!Reconcile, Reporters

LEMMA BadgeRuns ==
  ASSUME [Next]_vars
  PROVE  Sidebar!Next \/ UNCHANGED Sidebar!vars
BY DEF Next, StandStill, vars, badge, Sidebar!vars, Sidebar!storage

LEMMA BadgeHolds == Spec => []BadgeInv
<1>1. Init => BadgeInv
  BY BadgeInit DEF Init
<1>2. BadgeInv /\ UNCHANGED Sidebar!vars => BadgeInv'
  BY DEF Sidebar!vars, Sidebar!storage, BadgeInv, BadgeTypes, OneWriter, BadgeOrder, ReportSound, Settled, Harmless
<1>3. BadgeInv /\ [Next]_vars => BadgeInv'
  BY <1>2, BadgeRuns, BadgeNextKeeps
<1>4. QED
  BY <1>1, <1>3, PTL DEF Spec

LEMMA AcknowledgedHolds == Spec => []Sidebar!AcknowledgedIsShown
<1>1. BadgeInv => Sidebar!AcknowledgedIsShown
  <2>1. SUFFICES ASSUME BadgeInv, noted.rev # -1, ack.rev >= noted.rev, astray # "beyond"
                 PROVE  mobius.count = noted.count
    BY DEF Sidebar!AcknowledgedIsShown
  <2>2. BadgeTypes /\ BadgeOrder
    BY <2>1 DEF BadgeInv
  <2>3. ack.rev = noted.rev
    BY <2>1, <2>2, BadgeNumbers DEF BadgeOrder
  <2>4. astray = "no"
    BY <2>1, <2>2, <2>3 DEF BadgeOrder, BadgeTypes
  <2> QED
    BY <2>1, <2>2, <2>3, <2>4 DEF BadgeOrder, Settled
<1>2. QED
  BY <1>1, BadgeHolds, PTL

\* ScreensAreCurrent of MCParts: with nothing under way, the faces, the conversations, the group
\* and the badge on screen are the service's, with the exceptions named in MCParts.
THEOREM ScreensHold == Spec => []ScreensAreCurrent
<1>1. /\ Faces!OnScreenFollowsHint /\ Chats!ListIsCurrent
      /\ Roster!InvitedIsShown /\ Roster!ShownIsCurrent /\ Sidebar!AcknowledgedIsShown
      => ScreensAreCurrent
  BY DEF ScreensAreCurrent
<1>2. QED
  BY <1>1, OnScreenHolds, ListHolds, ShownHolds, AcknowledgedHolds, PTL

---------------------------------------------------------------------------
(* The types of the parts that need more than the invariants above. *)

(* Reactions. *)

LEMMA ReactionBounded == ASSUME ReactionInv, TapBounds, Emoji!Next PROVE TapBounds'
<1>1. polls \in Seq(Reacted) /\ Len(polls) \in Nat /\ DOMAIN polls = 1..Len(polls)
  BY LenProperties DEF ReactionInv, ReactionTypes
<1>2. MaxPolls \in Nat /\ ReactionTaps \in Nat /\ OthersChanges \in Nat
  BY PartsAssumption DEF Emoji!ReactionsAssumption
<1>3. Len(polls') <= MaxPolls
  <2>1. CASE Emoji!Poll
    <3>1. Len(polls) < MaxPolls /\ polls' = Append(polls, Emoji!AtHost) /\ Emoji!AtHost \in Reacted
      BY <2>1, ReactionFacts DEF Emoji!Poll, ReactionInv
    <3>2. Len(polls') = Len(polls) + 1
      BY <1>1, <3>1, AppendProperties
    <3> QED
      BY <1>1, <1>2, <3>1, <3>2
  <2>2. ASSUME NEW k \in DOMAIN polls, Emoji!Polled(k) \/ Emoji!PollFails(k) PROVE Len(polls') <= MaxPolls
    <3>1. polls' = Without(polls, k)
      BY <2>2 DEF Emoji!Polled, Emoji!PollFails, Emoji!RemoveAt, Without
    <3>2. Len(polls') = Len(polls) - 1
      BY <1>1, <3>1, WithoutFacts
    <3> QED
      BY <1>1, <1>2, <3>2 DEF TapBounds
  <2>3. CASE UNCHANGED polls
    BY <2>3 DEF TapBounds
  <2> QED
    BY <2>1, <2>2, <2>3 DEF Emoji!Next, Emoji!Tap, Emoji!Store, Emoji!TapFails, Emoji!TapAnswered,
       Emoji!Refreshes, Emoji!Refreshed, Emoji!Other
<1>4. taps' \in 0..ReactionTaps
  BY <1>2 DEF TapBounds, Emoji!Next, Emoji!Tap, Emoji!Store, Emoji!TapFails, Emoji!TapAnswered,
     Emoji!Refreshes, Emoji!Refreshed, Emoji!Other, Emoji!Poll, Emoji!Polled, Emoji!PollFails
<1>5. changes' \in 0..OthersChanges
  BY <1>2 DEF TapBounds, Emoji!Next, Emoji!Tap, Emoji!Store, Emoji!TapFails, Emoji!TapAnswered,
     Emoji!Refreshes, Emoji!Refreshed, Emoji!Other, Emoji!Poll, Emoji!Polled, Emoji!PollFails
<1>6. QED
  BY <1>3, <1>4, <1>5 DEF TapBounds

LEMMA ReactionTypesHold == Spec => []Emoji!TypeOK
<1>1. Init => TapBounds
  BY PartsAssumption DEF Init, Emoji!Init, TapBounds, Emoji!ReactionsAssumption
<1>2. ReactionInv /\ TapBounds /\ [Next]_vars => TapBounds'
  BY ReactionsRun, ReactionBounded DEF TapBounds, Emoji!vars
<1>3. ReactionInv /\ TapBounds => Emoji!TypeOK
  BY ReactionAssumed DEF ReactionInv, ReactionTypes, TapBounds, Emoji!TypeOK, Reacted, TapTypes
<1>4. QED
  BY <1>1, <1>2, <1>3, ReactionHolds, PTL DEF Spec

---------------------------------------------------------------------------
(* Membership. *)

LEMMA MemberShapes ==
  /\ Joining!Unknown \in Joining!Profiles /\ Joining!NoRead \in MemberReads /\ Joining!NoRead.got.reg = "unread"
  /\ [Joining!NoRead EXCEPT !.at = "profile"] \in MemberReads
  /\ [Joining!NoRead EXCEPT !.at = "profile"].got.reg = "unread"
  /\ Joining!Unknown.reg = "unread"
BY DEF Joining!Unknown, Joining!NoRead, Joining!Profiles, MemberReads

LEMMA MemberInit == ASSUME Joining!Init PROVE MemberInv
<1>1. Joining!TypeOK
  <2>1. me[w1] = Joining!Unknown /\ me \in [{w1} -> Joining!Profiles]
    BY MemberShapes DEF Joining!Init
  <2>2. account \in Joining!Accounts /\ (account.named => account.linked)
    BY DEF Joining!Init
  <2>3. handoff \in [{w1} -> BOOLEAN] /\ joinTaps \in 0..JoinTaps
    BY PartsAssumption DEF Joining!Init, Joining!MembershipAssumption
  <2> QED
    BY <2>1, <2>2, <2>3, MemberShapes DEF Joining!TypeOK
<1>2. profiles \in [{w1} -> [Joining!Readers -> MemberReads]] /\ \A r \in Joining!Readers : profiles[w1][r].got.reg # "registered"
  BY MemberShapes DEF Joining!Init
<1>3. QED
  BY <1>1, <1>2 DEF MemberInv

(* A read that begins, ends or goes on. *)
LEMMA ReaderGoes ==
  ASSUME MemberInv, NEW r \in Joining!Readers, NEW s \in MemberReads, s.got.reg # "registered",
         profiles' = [profiles EXCEPT ![w1][r] = s]
  PROVE  /\ profiles' \in [{w1} -> [Joining!Readers -> MemberReads]]
         /\ \A q \in Joining!Readers : profiles'[w1][q].got.reg # "registered"
<1>1. profiles \in [{w1} -> [Joining!Readers -> MemberReads]]
  BY DEF MemberInv
<1>2. profiles'[w1] = [profiles[w1] EXCEPT ![r] = s]
  BY <1>1
<1>3. \A q \in Joining!Readers : profiles'[w1][q] = IF q = r THEN s ELSE profiles[w1][q]
  BY <1>1, <1>2
<1>4. profiles' \in [{w1} -> [Joining!Readers -> MemberReads]]
  BY <1>1
<1>5. QED
  BY <1>3, <1>4 DEF MemberInv

LEMMA ReaderAt ==
  ASSUME MemberInv, NEW r \in Joining!Readers, NEW a \in {"idle", "profile", "check", "joining"},
         profiles' = [profiles EXCEPT ![w1][r].at = a]
  PROVE  /\ profiles' \in [{w1} -> [Joining!Readers -> MemberReads]]
         /\ \A q \in Joining!Readers : profiles'[w1][q].got.reg # "registered"
<1> DEFINE s == [profiles[w1][r] EXCEPT !.at = a]
<1>1. profiles[w1][r] \in MemberReads /\ profiles[w1][r].got.reg # "registered"
  BY DEF MemberInv
<1>2. s \in MemberReads /\ s.got.reg # "registered"
  BY <1>1 DEF MemberReads
<1>3. profiles' = [profiles EXCEPT ![w1][r] = s]
  OBVIOUS
<1> HIDE DEF s
<1>4. QED
  BY <1>2, <1>3, ReaderGoes

LEMMA ProfileKeeps == ASSUME MemberInv, NEW r \in Joining!Readers, Joining!ProfileArrives(w1, r) PROVE MemberInv'
<1>1. /\ UNCHANGED <<account, handoff, joinTaps>> /\ me' = [me EXCEPT ![w1] = Joining!Profile]
      /\ profiles' = [profiles EXCEPT ![w1][r] = [at |-> "check", got |-> Joining!Profile]]
  BY DEF Joining!ProfileArrives
<1>2. Joining!Profile \in Joining!Profiles /\ Joining!Profile.reg = "none"
  BY DEF MemberInv, Joining!TypeOK, Joining!Accounts, Joining!Profile, Joining!Profiles
<1>3. [at |-> "check", got |-> Joining!Profile] \in MemberReads
  BY <1>2 DEF MemberReads
<1>4. Joining!TypeOK'
  BY <1>1, <1>2 DEF MemberInv, Joining!TypeOK
<1>5. QED
  BY <1>1, <1>2, <1>3, <1>4, ReaderGoes DEF MemberInv

LEMMA CheckKeeps == ASSUME MemberInv, NEW r \in Joining!Readers, Joining!CheckArrives(w1, r) PROVE MemberInv'
<1> DEFINE p == profiles[w1][r].got
<1>1. /\ UNCHANGED <<account, joinTaps>> /\ profiles' = [profiles EXCEPT ![w1][r] = Joining!NoRead]
      /\ handoff' \in {handoff, [handoff EXCEPT ![w1] = FALSE]}
      /\ \E reg \in Joining!Registrations(p) : me' = [me EXCEPT ![w1] = [p EXCEPT !.reg = reg]]
  BY DEF Joining!CheckArrives
<1>2. PICK reg \in Joining!Registrations(p) : me' = [me EXCEPT ![w1] = [p EXCEPT !.reg = reg]]
  BY <1>1
<1>3. p \in Joining!Profiles
  BY DEF MemberInv, MemberReads
<1>4. /\ reg \in {"not_joined", "registered", "missing", "unavailable"}
      /\ reg = "registered" => account.listed
  BY <1>2 DEF Joining!Registrations
<1>5. [p EXCEPT !.reg = reg] \in Joining!Profiles /\ [p EXCEPT !.reg = reg].reg = reg
  BY <1>3, <1>4 DEF Joining!Profiles
<1> HIDE DEF p
<1>6. me' \in [{w1} -> Joining!Profiles] /\ me'[w1].reg = reg
  BY <1>2, <1>5 DEF MemberInv, Joining!TypeOK
<1>7. handoff' \in [{w1} -> BOOLEAN]
  BY <1>1 DEF MemberInv, Joining!TypeOK
<1>8. Joining!TypeOK'
  BY <1>1, <1>4, <1>6, <1>7 DEF MemberInv, Joining!TypeOK
<1>9. QED
  BY <1>1, <1>8, MemberShapes, ReaderGoes DEF MemberInv

LEMMA TapsKeep == ASSUME Joining!TypeOK, Joining!Tap PROVE joinTaps' \in 0..JoinTaps
BY PartsAssumption DEF Joining!TypeOK, Joining!Tap, Joining!MembershipAssumption

LEMMA BeginKeeps == ASSUME MemberInv, Joining!BeginJoin(w1) \/ Joining!Request(w1) \/ Joining!Return(w1) PROVE MemberInv'
<1>1. /\ UNCHANGED <<account, me>> /\ (Joining!Tap \/ UNCHANGED joinTaps)
      /\ handoff' \in {handoff, [handoff EXCEPT ![w1] = TRUE]}
      /\ \/ UNCHANGED profiles
         \/ profiles' = [profiles EXCEPT ![w1]["boot"].at = "profile"]
         \/ profiles' = [profiles EXCEPT ![w1]["refresh"].at = "profile"]
         \/ profiles' = [profiles EXCEPT ![w1]["join"].at = "joining"]
  BY DEF Joining!BeginJoin, Joining!Request, Joining!Return, Joining!StartJoin, Joining!OpenIdentity
<1>2. joinTaps' \in 0..JoinTaps
  BY <1>1, TapsKeep DEF MemberInv, Joining!TypeOK
<1>3. handoff' \in [{w1} -> BOOLEAN]
  BY <1>1 DEF MemberInv, Joining!TypeOK
<1>4. Joining!TypeOK'
  BY <1>1, <1>2, <1>3 DEF MemberInv, Joining!TypeOK
<1>5. "boot" \in Joining!Readers /\ "refresh" \in Joining!Readers /\ "join" \in Joining!Readers
  BY DEF Joining!Readers
<1>6. QED
  BY <1>1, <1>4, <1>5, ReaderAt DEF MemberInv

LEMMA JoinKeeps == ASSUME MemberInv, Joining!Join(w1) PROVE MemberInv'
<1>1. /\ UNCHANGED <<me, handoff, joinTaps>>
      /\ \/ profiles' = [profiles EXCEPT ![w1]["join"].at = "profile"]
         \/ profiles' = [profiles EXCEPT ![w1]["join"] = Joining!NoRead]
      /\ \/ UNCHANGED account
         \/ \E b \in {account.listed, TRUE} : account' = [account EXCEPT !.joined = TRUE, !.listed = b]
  BY DEF Joining!Join, Joining!Failed
<1>2. /\ account' \in Joining!Accounts /\ account'.named = account.named /\ account'.linked = account.linked
      /\ account.listed => account'.listed
  BY <1>1 DEF MemberInv, Joining!TypeOK, Joining!Accounts
<1>3. Joining!TypeOK'
  BY <1>1, <1>2 DEF MemberInv, Joining!TypeOK
<1>4. "join" \in Joining!Readers
  BY DEF Joining!Readers
<1>5. QED
  BY <1>1, <1>3, <1>4, ReaderAt, ReaderGoes, MemberShapes DEF MemberInv

LEMMA AccountKeeps == ASSUME MemberInv, Joining!LinkAccount \/ Joining!ChooseUsername PROVE MemberInv'
<1>1. /\ UNCHANGED <<me, profiles, handoff, joinTaps>>
      /\ \/ account' = [account EXCEPT !.linked = TRUE]
         \/ account.linked /\ account' = [account EXCEPT !.named = TRUE]
  BY DEF Joining!LinkAccount, Joining!ChooseUsername
<1>2. /\ account' \in Joining!Accounts /\ (account'.named => account'.linked) /\ account'.listed = account.listed
  BY <1>1 DEF MemberInv, Joining!TypeOK, Joining!Accounts
<1>3. QED
  BY <1>1, <1>2 DEF MemberInv, Joining!TypeOK

LEMMA FailedKeeps == ASSUME MemberInv, NEW r \in Joining!Readers, Joining!ProfileFails(w1, r) PROVE MemberInv'
<1>1. UNCHANGED <<account, me, handoff, joinTaps>> /\ profiles' = [profiles EXCEPT ![w1][r] = Joining!NoRead]
  BY DEF Joining!ProfileFails, Joining!Failed
<1>2. Joining!TypeOK'
  BY <1>1 DEF MemberInv, Joining!TypeOK
<1>3. QED
  BY <1>1, <1>2, MemberShapes, ReaderGoes DEF MemberInv

LEMMA MemberTypesHold == Spec => []Joining!TypeOK
<1>1. Init => MemberInv
  BY MemberInit DEF Init
<1>2. MemberInv /\ Joining!Next => MemberInv'
  BY ProfileKeeps, FailedKeeps, CheckKeeps, BeginKeeps, JoinKeeps, AccountKeeps DEF Joining!Next, Joining!Joins
<1>3. MemberInv /\ UNCHANGED Joining!vars => MemberInv'
  BY DEF MemberInv, Joining!TypeOK, Joining!vars
<1>4. [Next]_vars => Joining!Next \/ UNCHANGED Joining!vars
  BY DEF Next, StandStill, vars, membership, Joining!vars
<1>5. MemberInv => Joining!TypeOK
  BY DEF MemberInv
<1>6. QED
  BY <1>1, <1>2, <1>3, <1>4, <1>5, PTL DEF Spec

---------------------------------------------------------------------------
(* Feed. *)

LEMMA FeedBounded == ASSUME FeedInv, FewAsks, Feeds!Next PROVE FewAsks'
<1>1. MaxAsks \in Nat \ {0}
  BY PartsAssumption DEF Feeds!FeedAssumption
<1>2. asks \in Seq(Requests) /\ Len(asks) \in Nat /\ DOMAIN asks = 1..Len(asks)
  BY LenProperties DEF FeedInv, FeedTypes
<1>3. CASE UNCHANGED asks
  BY <1>3 DEF FewAsks
<1>4. ASSUME NEW q, NEW c, Feeds!Ask(q, c) PROVE FewAsks'
  <2>1. Len(asks) < MaxAsks /\ asks' = Append(asks, Feeds!Request(q, c))
    BY <1>4 DEF Feeds!Ask
  <2>2. Len(asks') = Len(asks) + 1
    BY <1>2, <2>1
  <2> QED
    BY <1>1, <1>2, <2>1, <2>2 DEF FewAsks
<1>5. ASSUME NEW k \in DOMAIN asks, Feeds!Drop(k) PROVE FewAsks'
  <2>1. asks' = Without(asks, k)
    BY <1>5 DEF Feeds!Drop, Feeds!RemoveAt, Without
  <2>2. Len(asks') = Len(asks) - 1
    BY <1>2, <2>1, WithoutFacts
  <2> QED
    BY <1>1, <1>2, <2>2 DEF FewAsks
<1>6. ASSUME NEW k \in DOMAIN asks, NEW r, asks' = [asks EXCEPT ![k] = r] PROVE FewAsks'
  BY <1>2, <1>6 DEF FewAsks
<1>7. CASE \E k \in DOMAIN asks : Feeds!Serve(k)
  <2>1. PICK k \in DOMAIN asks :
          asks' = [asks EXCEPT ![k].is = "answered", ![k].page = Feeds!Page(board, asks[k].at)]
    BY <1>7 DEF Feeds!Serve
  <2>2. DOMAIN asks' = DOMAIN asks
    BY <2>1
  <2> QED
    BY <1>2, <2>1, <2>2 DEF FewAsks
<1>8. CASE \E k \in DOMAIN asks : Feeds!Fail(k)
  BY <1>5, <1>6, <1>8 DEF Feeds!Fail
<1>9. CASE Feeds!Restart
  <2>1. asks' = <<Feeds!Request("boot", Feeds!Everything)>>
    BY <1>9 DEF Feeds!Restart
  <2> QED
    BY <1>1, <2>1 DEF FewAsks
<1>10. CASE Feeds!Poll \/ Feeds!Reload \/ Feeds!LoadEarlier
  BY <1>4, <1>10 DEF Feeds!Poll, Feeds!Reload, Feeds!LoadEarlier
<1>11. CASE \E k \in DOMAIN asks : Feeds!Accept(k) \/ Feeds!AcceptEarlier(k)
  BY <1>5, <1>11 DEF Feeds!Accept, Feeds!AcceptEarlier
<1>12. CASE \/ (\E m \in BOOLEAN : Feeds!Create(m)) \/ Feeds!PaintCached
            \/ (\E p \in 1..MaxPosts : Feeds!Delete(p) \/ Feeds!Confirm(p) \/ Feeds!Reveal(p))
            \/ Feeds!SearchPage \/ Feeds!Found \/ Feeds!EndSearch
  BY <1>3, <1>12 DEF Feeds!Create, Feeds!Delete, Feeds!Confirm, Feeds!Reveal, Feeds!PaintCached, Feeds!SearchPage,
     Feeds!Found, Feeds!EndSearch
<1>13. QED
  BY <1>7, <1>8, <1>9, <1>10, <1>11, <1>12 DEF Feeds!Next

LEMMA FeedTypesHold == Spec => []Feeds!TypeOK
<1>1. Init => FewAsks
  <2>1. Init => asks = <<Feeds!Request("boot", Feeds!Everything)>>
    BY DEF Init, Feeds!Init
  <2>2. MaxAsks \in Nat \ {0}
    BY PartsAssumption DEF Feeds!FeedAssumption
  <2> QED
    BY <2>1, <2>2 DEF FewAsks
<1>2. FeedInv /\ FewAsks /\ [Next]_vars => FewAsks'
  BY FeedsRun, FeedBounded DEF FewAsks, Feeds!vars, Feeds!service, Feeds!view
<1>3. FeedInv /\ FewAsks => Feeds!TypeOK
  BY FeedAssumed DEF FewAsks, FeedInv, FeedTypes, PageSound, Feeds!TypeOK
<1>4. QED
  BY <1>1, <1>2, <1>3, FeedHolds, PTL DEF Spec

---------------------------------------------------------------------------
(* The types that the invariants of these parts imply. *)
LEMMA ThreadTypesHold == Spec => []Thread!TypeOK
<1>1. ThreadInv => Thread!TypeOK
  <2>1. SUFFICES ASSUME ThreadInv PROVE Thread!TypeOK
    OBVIOUS
  <2>2. /\ {host, buried, rows, pending, replyCache.rows} \subseteq SUBSET Thread!Replies
        /\ {replyCache.has, replyCache.fresh, replyCache.quiet, open, awaited.quiet} \subseteq BOOLEAN
        /\ {replyCache.read, awaited.read, posting.read} \subseteq 0..MaxReads
    BY <2>1 DEF ThreadInv, ThreadTypes, Entries, Posts, Rows
  <2>3. /\ posting.id \in Own \cup {None}
        /\ posting.is \in {"none", "asked", "ok", "failed", "gone", "reading"}
    BY <2>1 DEF ThreadInv, ThreadTypes, Posts
  <2>4. \A n \in 1..MaxReads :
          reads[n] \in [is : {"free", "asked", "failed", "rows"}, rows : SUBSET Thread!Replies]
    BY <2>1 DEF ThreadInv, ThreadTypes, Answers, Rows
  <2>5. count \in 0..Thread!Cardinality(Thread!Replies)
    <3>1. Thread!Cardinality(Thread!Replies) = Cardinality(Thread!Replies)
      BY DEF Thread!Cardinality, Cardinality
    <3> QED
      BY <2>1, <3>1 DEF ThreadInv, ThreadTypes
  <2> QED
    BY <2>1, <2>2, <2>3, <2>4, <2>5 DEF ThreadInv, ThreadTypes, Thread!TypeOK
<1>2. QED
  BY <1>1, ThreadHolds, PTL

LEMMA DraftTypesHold == Spec => []Draft!TypeOK
<1>1. DraftInv => Draft!TypeOK
  <2>1. "continue" \in Draft!Lanes
    BY DEF Draft!Lanes
  <2> QED
    BY <2>1 DEF DraftInv, DraftTypes, SlipSound, MaybeDraft, Draft!TypeOK
<1>2. QED
  BY <1>1, DraftHolds, PTL

LEMMA PhotoTypesHold == Spec => []Photo!TypeOK
<1>1. PhotoInv => Photo!TypeOK
  <2>1. SUFFICES ASSUME PhotoInv PROVE Photo!TypeOK
    OBVIOUS
  <2>2. tile.urls \subseteq Photo!Urls
    BY <2>1 DEF PhotoInv, TileSound, TileUrls, Photo!Urls
  <2>3. Photo!Owned(box) \subseteq Photo!Urls
    BY <2>1 DEF PhotoInv, BoxSound, Photo!Owned, Photo!Boxes
  <2>4. box \in Photo!Boxes \cup {None}
    BY <2>1 DEF PhotoInv, BoxSound
  <2>5. items \subseteq 1..MaxItems
    BY <2>1, PhotosAssumed DEF PhotoInv
  <2>6. tile.shows # None => Photo!Active(tile.shows[2])
    BY <2>1 DEF PhotoInv, TileSound, Photo!Poster, Photo!Active
  <2> QED
    BY <2>1, <2>2, <2>3, <2>4, <2>5, <2>6 DEF PhotoInv, Photo!TypeOK
<1>2. QED
  BY <1>1, PhotosHold, PTL

LEMMA ChatTypesHold == Spec => []Chats!TypeOK
<1>1. ChatInv => Chats!TypeOK
  BY DEF ChatInv, ChatTypes, ChatsSound, Chats!TypeOK
<1>2. QED
  BY <1>1, ChatsHold, PTL

LEMMA GroupTypesHold == Spec => []Roster!TypeOK
<1>1. GroupInv => Roster!TypeOK
  <2>1. SUFFICES ASSUME GroupInv PROVE Roster!TypeOK
    OBVIOUS
  <2>2. sheet.mode \in {"invite", "delete", "deleted"} => creator /\ decision = Roster!Undecided
    BY <2>1 DEF GroupInv, RolesSound, Managed
  <2>3. decision.at \in {"idle", "asked", "served", "read"} /\ sheet.at \in {"idle", "asked", "served", "partly"}
    BY <2>1 DEF GroupInv, GroupTypes, GroupAnswers, Sheets
  <2> QED
    BY <2>1, <2>2, <2>3 DEF GroupInv, GroupTypes, Roster!TypeOK
<1>2. QED
  BY <1>1, GroupsHold, PTL

LEMMA BadgeTypesHold == Spec => []Sidebar!TypeOK
<1>1. BadgeInv => Sidebar!TypeOK
  BY DEF BadgeInv, BadgeTypes, BadgeOrder, Notes, Acks, Reports, Reporters, Steps, Sidebar!TypeOK
<1>2. QED
  BY <1>1, BadgeHolds, PTL

LEMMA ThumbTypesHold == Spec => []Thumbs!TypeOK
<1>1. ThumbInv => Thumbs!TypeOK
  <2>1. SUFFICES ASSUME ThumbInv PROVE Thumbs!TypeOK
    OBVIOUS
  <2>2. Shelf(index)
    BY <2>1 DEF ThumbInv, ThumbTypes
  <2>3. Thumbs!IsInjective(index) /\ Thumbs!ToSet(index) \subseteq Paths /\ Len(index) <= ThumbnailLimit
    <3>1. index \in Seq(Paths) /\ Distinct(index) /\ Len(index) <= ThumbnailLimit
      BY <2>2 DEF Shelf
    <3>2. \A i \in DOMAIN index : index[i] \in Paths
      BY <3>1
    <3> QED
      BY <3>1, <3>2 DEF Distinct, Thumbs!IsInjective, Thumbs!ToSet
  <2> QED
    BY <2>1, <2>3 DEF ThumbInv, ThumbTypes, Thumbs!TypeOK
<1>2. QED
  BY <1>1, ThumbsHold, PTL

---------------------------------------------------------------------------
(* Requests: the queue names as many jobs as it is long. *)
LEMMA DistinctCounted ==
  ASSUME NEW S, NEW s \in Seq(S), Distinct(s)
  PROVE  IsFiniteSet(Elements(s)) /\ Cardinality(Elements(s)) = Len(s)
<1>1. Len(s) \in Nat /\ DOMAIN s = 1..Len(s)
  OBVIOUS
<1>2. s \in Bijection(1..Len(s), Elements(s))
  <2>1. s \in [1..Len(s) -> Elements(s)]
    BY <1>1 DEF Elements
  <2>2. \A i, j \in 1..Len(s) : s[i] = s[j] => i = j
    BY <1>1 DEF Distinct
  <2>3. \A e \in Elements(s) : \E i \in 1..Len(s) : s[i] = e
    BY <1>1 DEF Elements
  <2> QED
    BY <2>1, <2>2, <2>3 DEF Bijection, Injection, Surjection, IsInjective
<1>3. QED
  BY <1>1, <1>2, FS_CountingElements, FS_NatBijection DEF ExistsBijection

LEMMA LaneTypesHold == Spec => []Lanes!TypeOK
<1>1. LanesInv => Lanes!TypeOK
  <2>1. SUFFICES ASSUME LanesInv PROVE Lanes!TypeOK
    OBVIOUS
  <2>2. Lanes!Queued = Elements(requests)
    BY DEF Lanes!Queued, Elements
  <2>3. QueueTyped(requests, active, dead)
    BY <2>1 DEF LanesInv
  <2>4. Cardinality(Elements(requests)) = Len(requests)
    BY <2>3, DistinctCounted DEF QueueTyped
  <2>5. Lanes!Cardinality(Elements(requests)) = Len(requests)
    BY <2>4 DEF Lanes!Cardinality, Cardinality
  <2>6. Elements(requests) \subseteq Lanes!Upkeep
    BY <2>3 DEF QueueTyped, Elements
  <2>7. LanesTypes
    BY <2>1 DEF LanesInv
  <2> QED
    BY <2>2, <2>3, <2>5, <2>6, <2>7 DEF QueueTyped, LanesTypes, Lanes!TypeOK
<1>2. QED
  BY <1>1, LanesHold, PTL

---------------------------------------------------------------------------
(* Invitations. *)

LEMMA FewerFiled ==
  ASSUME NEW S \in SUBSET Objects, NEW T \in SUBSET S
  PROVE  /\ Cardinality(S) \in Nat /\ Cardinality(T) \in Nat /\ Cardinality(T) <= Cardinality(S)
         /\ \A o : Cardinality(S \cup {o}) <= Cardinality(S) + 1
<1>1. IsFiniteSet(Objects)
  <2>1. Invited!IsFiniteSet(Objects)
    BY PartsAssumption DEF Invited!InvitationsAssumption
  <2> QED
    BY <2>1 DEF Invited!IsFiniteSet, IsFiniteSet
<1>2. IsFiniteSet(S)
  BY <1>1, FS_Subset
<1>3. IsFiniteSet(T) /\ Cardinality(T) <= Cardinality(S)
  BY <1>2, FS_Subset
<1>4. Cardinality(S) \in Nat /\ Cardinality(T) \in Nat
  BY <1>2, <1>3, FS_CardinalityType
<1>5. \A o : Cardinality(S \cup {o}) <= Cardinality(S) + 1
  BY <1>2, <1>4, FS_AddElement
<1>6. QED
  BY <1>3, <1>4, <1>5

(* Fewer records, or those of the envelope in the lane, leave the room there was. *)
LEMMA RoomStays ==
  ASSUME RoomSound, InvitedInv, lane' \in {lane, Invited!NoEnvelope}, Filed(received') \subseteq Filed(received)
  PROVE  RoomSound'
<1>1. /\ Filed(received) \cup {lane.of} \in SUBSET Objects \/ lane = Invited!NoEnvelope
      /\ Filed(received) \in SUBSET Objects
  BY InvitedTyped DEF Filed
<1>2. InvitationLimit \in Nat
  BY InvitedAssumed
<1>3. Cardinality(Filed(received')) <= InvitationLimit
  <2>1. /\ Cardinality(Filed(received)) \in Nat /\ Cardinality(Filed(received')) \in Nat
        /\ Cardinality(Filed(received')) <= Cardinality(Filed(received))
    BY <1>1, FewerFiled
  <2> QED
    BY <1>2, <2>1 DEF RoomSound
<1>4. ASSUME lane' # Invited!NoEnvelope
      PROVE  Cardinality(Filed(received') \cup {lane'.of}) <= InvitationLimit
  <2>1. lane' = lane /\ lane # Invited!NoEnvelope
    BY <1>4
  <2>2. Filed(received') \cup {lane.of} \subseteq Filed(received) \cup {lane.of}
    OBVIOUS
  <2>3. /\ Cardinality(Filed(received) \cup {lane.of}) \in Nat /\ Cardinality(Filed(received') \cup {lane.of}) \in Nat
        /\ Cardinality(Filed(received') \cup {lane.of}) <= Cardinality(Filed(received) \cup {lane.of})
    BY <1>1, <2>1, <2>2, FewerFiled
  <2> QED
    BY <1>2, <2>1, <2>3 DEF RoomSound
<1>5. Filed(received)' = Filed(received')
  BY DEF Filed
<1>6. Invited!NoEnvelope' = Invited!NoEnvelope
  BY DEF Invited!NoEnvelope
<1>7. QED
  BY <1>3, <1>4, <1>5, <1>6 DEF RoomSound

LEMMA RoomReceive == ASSUME RoomSound, InvitedInv, NEW e \in sent, Invited!Receive(e) PROVE RoomSound'
<1>1. Filed(received)' = Filed(received') /\ Invited!NoEnvelope' = Invited!NoEnvelope
  BY DEF Filed, Invited!NoEnvelope
<1>2. InvitationLimit \in Nat
  BY InvitedAssumed
<1>3. e.of \in Objects /\ received \in [Objects -> Invitation] /\ lane = Invited!NoEnvelope
  BY DEF InvitedInv, InvitedTypes, Invited!Receive
<1>4. CASE received[e.of].status # "none"
  <2>1. lane' = e /\ received' = received
    BY <1>4 DEF Invited!Receive
  <2>2. Filed(received) \cup {e.of} = Filed(received)
    BY <1>3, <1>4 DEF Filed
  <2> QED
    BY <1>1, <2>1, <2>2 DEF RoomSound
<1>5. CASE received[e.of].status = "none"
  <2> DEFINE kept == {o \in Invited!Recorded : ~Invited!Expired(o)}
  <2>1. /\ received' = [o \in Objects |-> IF Invited!Expired(o) THEN Invited!NoRecord ELSE received[o]]
        /\ lane' = IF Invited!Cardinality(kept) >= InvitationLimit THEN Invited!NoEnvelope ELSE e
    BY <1>5 DEF Invited!Receive
  <2>2. Invited!Cardinality(kept) = Cardinality(kept)
    BY DEF Invited!Cardinality, Cardinality
  <2>3. Filed(received') = kept
    BY <2>1 DEF Filed, Invited!NoRecord, Invited!Recorded
  <2>4. kept \subseteq Filed(received) /\ Filed(received) \in SUBSET Objects
    BY DEF Filed, Invited!Recorded
  <2> HIDE DEF kept
  <2>5. CASE Cardinality(kept) >= InvitationLimit
    BY <1>3, <2>1, <2>2, <2>3, <2>4, <2>5, RoomStays
  <2>6. CASE ~(Cardinality(kept) >= InvitationLimit)
    <3>1. lane' = e
      BY <2>1, <2>2, <2>6
    <3>2. /\ Cardinality(kept) \in Nat /\ Cardinality(kept) <= InvitationLimit
          /\ Cardinality(kept \cup {e.of}) <= Cardinality(kept) + 1
      BY <1>2, <2>4, <2>6, FewerFiled
    <3>3. kept \cup {e.of} \in SUBSET Objects
      BY <1>3, <2>4
    <3>4. Cardinality(kept \cup {e.of}) \in Nat
      BY <3>3, FewerFiled
    <3>5. Cardinality(kept \cup {e.of}) <= InvitationLimit
      BY <1>2, <2>6, <3>2, <3>4
    <3> QED
      BY <1>1, <2>3, <3>1, <3>2, <3>5 DEF RoomSound
  <2> QED
    BY <2>5, <2>6
<1>6. QED
  BY <1>4, <1>5

LEMMA RoomWrite == ASSUME RoomSound, InvitedInv, Invited!Write PROVE RoomSound'
<1>1. Filed(received)' = Filed(received') /\ Invited!NoEnvelope' = Invited!NoEnvelope
  BY DEF Filed, Invited!NoEnvelope
<1>2. InvitationLimit \in Nat
  BY InvitedAssumed
<1>3. lane # Invited!NoEnvelope /\ lane.of \in Objects /\ received \in [Objects -> Invitation]
  BY InvitedTyped DEF InvitedInv, InvitedTypes, Invited!Write
<1>4. received' = [received EXCEPT ![lane.of] = Invited!Pending(lane.at)] /\ lane' = Invited!NoEnvelope
  BY DEF Invited!Write
<1>5. Filed(received') \subseteq Filed(received) \cup {lane.of}
  BY <1>3, <1>4 DEF Filed
<1>6. Filed(received) \cup {lane.of} \in SUBSET Objects
  BY <1>3 DEF Filed
<1>7. /\ Cardinality(Filed(received')) \in Nat /\ Cardinality(Filed(received) \cup {lane.of}) \in Nat
      /\ Cardinality(Filed(received')) <= Cardinality(Filed(received) \cup {lane.of})
  BY <1>5, <1>6, FewerFiled
<1>8. Cardinality(Filed(received')) <= InvitationLimit
  BY <1>2, <1>3, <1>7 DEF RoomSound
<1>9. QED
  BY <1>1, <1>4, <1>8 DEF RoomSound

LEMMA RoomOthers ==
  ASSUME RoomSound, InvitedInv,
         \/ Invited!Tick \/ Invited!LaneDies
         \/ \E o \in Objects : Invited!Invite(o) \/ Invited!Decline(o) \/ Invited!Join(o) \/ Invited!JoinFails(o)
              \/ Invited!SaveRemote(o) \/ Invited!Consume(o) \/ Invited!JoinDies(o) \/ Invited!Leave(o)
  PROVE  RoomSound'
<1>1. lane' \in {lane, Invited!NoEnvelope}
  BY DEF Invited!Tick, Invited!LaneDies, Invited!Invite, Invited!Decline, Invited!Join, Invited!JoinFails,
     Invited!SaveRemote, Invited!Consume, Invited!JoinDies, Invited!Leave
<1>2. \/ received' = received
      \/ \E o \in Objects : /\ received[o].status = "pending"
                            /\ received' = [received EXCEPT ![o] = Invited!Refusal(o)]
      \/ \E o \in Objects : received' = [received EXCEPT ![o] = Invited!NoRecord]
  BY DEF Invited!Tick, Invited!LaneDies, Invited!Invite, Invited!Decline, Invited!Join, Invited!JoinFails,
     Invited!SaveRemote, Invited!Consume, Invited!JoinDies, Invited!Leave
<1>3. received \in [Objects -> Invitation]
  BY DEF InvitedInv, InvitedTypes
<1>4. Filed(received') \subseteq Filed(received)
  BY <1>2, <1>3 DEF Filed, Invited!NoRecord
<1>5. QED
  BY <1>1, <1>4, RoomStays

LEMMA InvitedTypesHold == Spec => []Invited!TypeOK
<1>1. Init => RoomSound
  <2>1. SUFFICES ASSUME Init PROVE RoomSound
    OBVIOUS
  <2>2. lane = Invited!NoEnvelope /\ received = [o \in Objects |-> Invited!NoRecord]
    BY <2>1 DEF Init, Invited!Init
  <2>3. Filed(received) = {}
    BY <2>2 DEF Filed, Invited!NoRecord
  <2> QED
    BY <2>2, <2>3, InvitedAssumed, FS_EmptySet DEF RoomSound
<1>2. InvitedInv /\ RoomSound /\ [Next]_vars => RoomSound'
  <2>1. SUFFICES ASSUME InvitedInv, RoomSound, [Next]_vars PROVE RoomSound'
    OBVIOUS
  <2>2. CASE Invited!Next
    BY <2>1, <2>2, RoomReceive, RoomWrite, RoomOthers DEF Invited!Next
  <2>3. CASE UNCHANGED Invited!vars
    BY <2>1, <2>3, RoomStays DEF Invited!vars
  <2> QED
    BY <2>1, <2>2, <2>3, InvitationsRun
<1>3. InvitedInv /\ RoomSound => Invited!TypeOK
  <2>1. Invited!Recorded = Filed(received)
    BY DEF Invited!Recorded, Filed
  <2>2. Invited!Cardinality(Filed(received)) = Cardinality(Filed(received))
    BY DEF Invited!Cardinality, Cardinality
  <2> QED
    BY <2>1, <2>2 DEF RoomSound, InvitedInv, InvitedTypes, Invitation, Times, Invited!TypeOK
<1>4. QED
  BY <1>1, <1>2, <1>3, InvitedHolds, PTL DEF Spec

---------------------------------------------------------------------------
(* Faces. *)

(* The rank of a number in a finite set numbers the set. *)
LEMMA Ranked ==
  ASSUME NEW K \in SUBSET Nat, IsFiniteSet(K)
  PROVE  /\ Cardinality(K) \in Nat
         /\ \A i \in K : Cardinality({k \in K : k <= i}) \in 1..Cardinality(K)
         /\ \A i, j \in K : Cardinality({k \in K : k <= i}) = Cardinality({k \in K : k <= j}) => i = j
         /\ \A n \in 1..Cardinality(K) : \E i \in K : Cardinality({k \in K : k <= i}) = n
<1> DEFINE low(i) == {k \in K : k <= i}
           rank == [i \in K |-> Cardinality(low(i))]
<1>1. Cardinality(K) \in Nat
  BY FS_CardinalityType
<1>2. ASSUME NEW i \in K PROVE IsFiniteSet(low(i)) /\ Cardinality(low(i)) \in 1..Cardinality(K)
  <2>1. low(i) \in SUBSET K
    OBVIOUS
  <2>2. i \in low(i)
    <3>1. i <= i
      OBVIOUS
    <3> QED
      BY <3>1
  <2> HIDE DEF low
  <2>3. IsFiniteSet(low(i)) /\ Cardinality(low(i)) <= Cardinality(K)
    BY <2>1, FS_Subset
  <2>4. Cardinality(low(i)) \in Nat /\ Cardinality(low(i)) # 0
    BY <2>2, <2>3, FS_CardinalityType, FS_EmptySet
  <2> QED
    BY <1>1, <2>3, <2>4
<1>3. ASSUME NEW i \in K, NEW j \in K, i < j PROVE Cardinality(low(i)) # Cardinality(low(j))
  <2>1. \A k \in K : k <= i => k <= j
    BY <1>3
  <2>2. low(i) \in SUBSET low(j)
    BY <2>1
  <2>3. low(i) # low(j)
    <3>1. j <= j /\ ~(j <= i)
      BY <1>3
    <3>2. j \in low(j) /\ j \notin low(i)
      BY <3>1
    <3> HIDE DEF low
    <3> QED
      BY <3>2
  <2> HIDE DEF low
  <2>4. IsFiniteSet(low(j))
    BY <1>2
  <2> QED
    BY <2>2, <2>3, <2>4, FS_Subset
<1>4. ASSUME NEW i \in K, NEW j \in K, Cardinality(low(i)) = Cardinality(low(j)) PROVE i = j
  <2>1. i < j \/ j < i \/ i = j
    OBVIOUS
  <2> HIDE DEF low
  <2> QED
    BY <1>3, <1>4, <2>1
<1> HIDE DEF low
<1>5. rank \in Injection(K, 1..Cardinality(K))
  <2>1. rank \in [K -> 1..Cardinality(K)]
    BY <1>2
  <2>2. \A i, j \in K : rank[i] = rank[j] => i = j
    BY <1>4
  <2> HIDE DEF rank
  <2>3. DOMAIN rank = K
    BY <2>1
  <2> QED
    BY <2>1, <2>2, <2>3 DEF Injection, IsInjective
<1>6. IsFiniteSet(1..Cardinality(K)) /\ Cardinality(1..Cardinality(K)) = Cardinality(K)
  <2>1. CASE Cardinality(K) = 0
    BY <2>1, FS_Interval
  <2>2. CASE Cardinality(K) # 0
    BY <1>1, <2>2, FS_Interval
  <2> QED
    BY <2>1, <2>2
<1>7. rank \in Surjection(K, 1..Cardinality(K))
  <2> HIDE DEF rank
  <2> QED
    BY <1>5, <1>6, FS_Injection
<1>8. \A n \in 1..Cardinality(K) : \E i \in K : rank[i] = n
  <2> HIDE DEF rank
  <2> QED
    BY <1>7 DEF Surjection
<1>9. QED
  BY <1>1, <1>2, <1>4, <1>8 DEF low

(* takeBatch: the queue without those hosts is what is left of it, in as good order. *)
LEMMA QueueWithout ==
  ASSUME NEW S, NEW s \in Seq(S), Distinct(s), NEW hs
  PROVE  /\ Faces!Without(s, hs) \in Seq(S) /\ Distinct(Faces!Without(s, hs))
         /\ Elements(Faces!Without(s, hs)) = Elements(s) \ hs
<1> DEFINE kept == {i \in DOMAIN s : s[i] \notin hs}
           N == Cardinality(kept)
           pick(n) == CHOOSE i \in kept : Cardinality({k \in kept : k <= i}) = n
           t == [n \in 1..N |-> s[pick(n)]]
<1>1. Faces!Without(s, hs) = t
  BY DEF Faces!Without, Faces!Cardinality, Cardinality
<1>2. Len(s) \in Nat /\ DOMAIN s = 1..Len(s) /\ \A i \in DOMAIN s : s[i] \in S
  BY LenProperties, ElementOfSeq
<1>3. kept \in SUBSET Nat /\ IsFiniteSet(kept)
  <2>1. kept \in SUBSET (1..Len(s)) /\ IsFiniteSet(1..Len(s))
    BY <1>2, FS_Interval
  <2> QED
    BY <2>1, FS_Subset
<1>4. \A i \in kept : i \in DOMAIN s /\ s[i] \in S /\ s[i] \notin hs
  BY <1>2
<1>5. \A i \in DOMAIN s : s[i] \notin hs => i \in kept
  OBVIOUS
<1> HIDE DEF kept
<1>6. /\ N \in Nat
      /\ \A i \in kept : Cardinality({k \in kept : k <= i}) \in 1..N
      /\ \A i, j \in kept : Cardinality({k \in kept : k <= i}) = Cardinality({k \in kept : k <= j}) => i = j
      /\ \A n \in 1..N : \E i \in kept : Cardinality({k \in kept : k <= i}) = n
  BY <1>3, Ranked
<1>7. ASSUME NEW n \in 1..N PROVE pick(n) \in kept /\ Cardinality({k \in kept : k <= pick(n)}) = n
  <2>1. \E i \in kept : Cardinality({k \in kept : k <= i}) = n
    BY <1>6
  <2> QED
    BY <2>1
<1>8. ASSUME NEW i \in kept
      PROVE  Cardinality({k \in kept : k <= i}) \in 1..N /\ pick(Cardinality({k \in kept : k <= i})) = i
  BY <1>6, <1>7
<1> HIDE DEF pick, N
<1>9. t \in Seq(S) /\ DOMAIN t = 1..N /\ \A n \in 1..N : t[n] = s[pick(n)]
  <2>1. t \in [1..N -> S]
    BY <1>4, <1>7
  <2>2. t \in Seq(S)
    BY <1>6, <2>1, SeqDef
  <2> QED
    BY <2>2
<1> HIDE DEF t
<1>10. Distinct(t)
  <2>1. ASSUME NEW m \in 1..N, NEW n \in 1..N, t[m] = t[n] PROVE m = n
    <3>1. pick(m) \in DOMAIN s /\ pick(n) \in DOMAIN s /\ s[pick(m)] = s[pick(n)]
      BY <1>4, <1>7, <1>9, <2>1
    <3>2. pick(m) = pick(n)
      BY <3>1 DEF Distinct
    <3> QED
      BY <1>7, <3>2
  <2> QED
    BY <1>9, <2>1 DEF Distinct
<1>11. Elements(t) = Elements(s) \ hs
  <2>1. ASSUME NEW n \in DOMAIN t PROVE t[n] \in Elements(s) /\ t[n] \notin hs
    BY <1>4, <1>7, <1>9 DEF Elements
  <2>2. ASSUME NEW e \in Elements(s), e \notin hs PROVE e \in Elements(t)
    <3>1. PICK i \in DOMAIN s : e = s[i]
      BY DEF Elements
    <3>2. i \in kept
      BY <1>5, <2>2, <3>1
    <3>3. PICK n \in 1..N : pick(n) = i
      BY <1>8, <3>2
    <3> QED
      BY <1>9, <3>1, <3>3 DEF Elements
  <2>3. Elements(t) \subseteq Elements(s) \ hs
    BY <2>1 DEF Elements
  <2> QED
    BY <2>2, <2>3
<1>12. QED
  BY <1>1, <1>9, <1>10, <1>11

(* What an answer leaves as it was, and the records that stay or go. *)
LEMMA RecordHeld ==
  ASSUME NEW r \in FaceRecords
  PROVE  /\ \A f, d \in Picture : Faces!WithFace(r, f, d).in = r.in
         /\ Faces!Absent(r).in = r.in /\ Faces!Failed(r).in = r.in
BY DEF Faces!WithFace, Faces!Absent, Faces!Failed, FaceRecords

LEMMA VoidAt == ASSUME NEW j \in FaceJobs PROVE Faces!Void(j).at = j.at
BY DEF Faces!Void, FaceJobs

LEMMA PrunedHeld ==
  ASSUME NEW r \in [Hosts -> FaceRecords], NEW j, NEW m, Faces!Prune(r, j, m),
         \A h \in Hosts : Wanted(h, r, j, m) => r[h].in
  PROVE  \A h \in Hosts : Wanted(h, rec', j, m) => rec'[h].in
<1> DEFINE idle == {g \in {k \in Hosts : r[k].in} : j[g].at = "idle" /\ g \notin m}
<1>1. \E n : \E away \in Faces!kSubset(n, idle) : rec' = [g \in Hosts |-> IF g \in away THEN Faces!Blank ELSE r[g]]
  BY DEF Faces!Prune
<1>2. PICK n : \E away \in Faces!kSubset(n, idle) : rec' = [g \in Hosts |-> IF g \in away THEN Faces!Blank ELSE r[g]]
  BY <1>1
<1>3. PICK away \in Faces!kSubset(n, idle) : rec' = [g \in Hosts |-> IF g \in away THEN Faces!Blank ELSE r[g]]
  BY <1>2
<1>4. away \subseteq idle
  BY <1>3 DEF Faces!kSubset
<1>5. ASSUME NEW h \in Hosts, Wanted(h, rec', j, m) PROVE rec'[h].in
  <2>1. CASE h \in away
    <3>1. rec'[h] = Faces!Blank /\ j[h].at = "idle" /\ h \notin m
      BY <1>3, <1>4, <2>1
    <3> QED
      BY <1>5, <3>1, FaceShapes DEF Wanted, Faces!Answered
  <2>2. CASE h \notin away
    <3>1. rec'[h] = r[h]
      BY <1>3, <2>2
    <3> QED
      BY <1>5, <3>1 DEF Wanted, Faces!Answered
  <2> QED
    BY <2>1, <2>2
<1>6. QED
  BY <1>5

(* cachedAvatar: whoever is asked of is in the cache. *)
LEMMA AskHeld ==
  ASSUME FaceInv, HeldSound, NEW hs \in SUBSET Hosts, Faces!Ask(hs),
         \A h \in Hosts : h \in mounted' => h \in hs \/ rec[h].in
  PROVE  HeldSound'
<1> DEFINE r == Faces!InCache(rec, hs)
<1>1. \A g \in Hosts : rec[g] \in FaceRecords
  BY HostTypes DEF FaceInv
<1>2. ASSUME NEW g \in Hosts
      PROVE  [rec[g] EXCEPT !.in = TRUE] \in FaceRecords /\ [rec[g] EXCEPT !.in = TRUE].in
  BY <1>1, <1>2 DEF FaceRecords
<1>3. /\ r \in [Hosts -> FaceRecords]
      /\ \A g \in Hosts : r[g] = IF g \in hs THEN [rec[g] EXCEPT !.in = TRUE] ELSE rec[g]
  BY <1>1, <1>2 DEF Faces!InCache
<1>4. Faces!Prune(r, job', mounted')
  BY DEF Faces!Ask
<1> HIDE DEF r
<1>5. \A g \in Hosts : g \notin hs => job'[g] = job[g]
  BY DEF Faces!Ask, Faces!Promised
<1>6. ASSUME NEW g \in Hosts, Wanted(g, r, job', mounted') PROVE r[g].in
  <2>1. CASE g \in hs
    BY <1>2, <1>3, <2>1
  <2>2. CASE g \notin hs
    <3>1. r[g] = rec[g] /\ job'[g] = job[g]
      BY <1>3, <1>5, <2>2
    <3> QED
      BY <1>6, <2>2, <3>1 DEF Wanted, HeldSound
  <2> QED
    BY <2>1, <2>2
<1>7. \A h \in Hosts : Wanted(h, rec', job', mounted') => rec'[h].in
  BY <1>3, <1>4, <1>6, PrunedHeld
<1>8. QED
  BY <1>7 DEF HeldSound

(* The queue, while the same jobs are queued. *)
LEMMA QueueStays ==
  ASSUME QueueSound, queue' = queue, \A h \in Hosts : job'[h].at = "queued" <=> job[h].at = "queued"
  PROVE  QueueSound'
BY DEF QueueSound

LEMMA QueueAsked ==
  ASSUME FaceInv, QueueSound, queue' = queue, NEW hs \in SUBSET Hosts, Faces!Ask(hs),
         \A h \in hs : job[h].at = "idle"
  PROVE  QueueSound'
<1>1. \A h \in Hosts : IF h \in hs THEN job'[h].at = "restoring" /\ job[h].at = "idle" ELSE job'[h] = job[h]
  BY HintAsked
<1>2. QED
  BY <1>1, QueueStays

LEMMA WatchedOnScreen == Faces!Schedule => watched' \subseteq mounted'
BY DEF Faces!Schedule, Faces!Recovery, Faces!Waiting

LEMMA CacheMount == ASSUME FaceInv, HintInv, CacheInv, NEW h \in Hosts, Faces!Mount(h) PROVE CacheInv'
<1> DEFINE hs == {h} \ {g \in Hosts : Faces!IsCurrent(g, rec[g], hint[g])}
<1>1. /\ mounted' = mounted \cup {h} /\ Faces!Ask(hs) /\ queue' = queue /\ Faces!Schedule
      /\ h \notin hs => Faces!IsCurrent(h, rec[h], hint[h])
      /\ hs \in SUBSET Hosts /\ \A g \in hs : job[g].at = "idle"
  BY DEF Faces!Mount, Faces!IsCurrent
<1> HIDE DEF hs
<1>2. h \in hs \/ rec[h].in
  <2>1. SUFFICES ASSUME h \notin hs PROVE rec[h].in
    OBVIOUS
  <2>2. job[h].at # "idle" \/ Faces!Answered(rec[h])
    BY <1>1, <2>1 DEF Faces!IsCurrent, Faces!AnswerIsCurrent, Faces!IsFresh, Faces!Answered
  <2> QED
    BY <2>2 DEF CacheInv, HeldSound, Wanted
<1>3. \A g \in Hosts : g \in mounted' => g \in hs \/ rec[g].in
  BY <1>1, <1>2 DEF CacheInv, HeldSound, Wanted
<1>4. HeldSound'
  BY <1>1, <1>3, AskHeld DEF CacheInv
<1>5. QueueSound'
  BY <1>1, QueueAsked DEF CacheInv
<1>6. QED
  BY <1>1, <1>4, <1>5, WatchedOnScreen DEF CacheInv

LEMMA CacheRecover == ASSUME FaceInv, HintInv, CacheInv, Faces!Recover PROVE CacheInv'
<1> DEFINE hs == {h \in watched \cap mounted : rec[h].url = 0 /\ ~Faces!IsCurrent(h, rec[h], hint[h])}
<1>1. /\ mounted' = mounted /\ Faces!Ask(hs) /\ queue' = queue /\ Faces!Schedule
      /\ hs \in SUBSET Hosts /\ \A g \in hs : job[g].at = "idle"
  BY DEF Faces!Recover, Faces!IsCurrent, HintInv
<1> HIDE DEF hs
<1>2. HeldSound'
  <2>1. \A g \in Hosts : g \in mounted' => g \in hs \/ rec[g].in
    BY <1>1 DEF CacheInv, HeldSound, Wanted
  <2> QED
    BY <1>1, <2>1, AskHeld DEF CacheInv
<1>3. QueueSound'
  BY <1>1, QueueAsked DEF CacheInv
<1>4. QED
  BY <1>1, <1>2, <1>3, WatchedOnScreen DEF CacheInv

LEMMA CacheNote ==
  ASSUME FaceInv, CacheInv, NEW h \in Hosts, NEW d \in Faces!Faces, Faces!Note(h, d)
  PROVE  CacheInv'
<1> DEFINE hs == IF Faces!Rechecks(h, d) THEN {h} ELSE {}
<1>1. /\ mounted' = mounted /\ Faces!Ask(hs) /\ queue' = queue /\ watched' = watched
      /\ hs \in SUBSET Hosts /\ \A g \in hs : job[g].at = "idle"
  BY DEF Faces!Note, Faces!Rechecks, Faces!IsCurrent
<1> HIDE DEF hs
<1>2. HeldSound'
  <2>1. \A g \in Hosts : g \in mounted' => g \in hs \/ rec[g].in
    BY <1>1 DEF CacheInv, HeldSound, Wanted
  <2> QED
    BY <1>1, <2>1, AskHeld DEF CacheInv
<1>3. QueueSound'
  BY <1>1, QueueAsked DEF CacheInv
<1>4. QED
  BY <1>1, <1>2, <1>3 DEF CacheInv

LEMMA CacheUnmount == ASSUME FaceInv, CacheInv, NEW h \in Hosts, Faces!Unmount(h) PROVE CacheInv'
<1>1. /\ mounted' = mounted \ {h} /\ Faces!Prune(rec, job, mounted') /\ job' = job /\ queue' = queue
      /\ Faces!Schedule /\ rec \in [Hosts -> FaceRecords]
  BY DEF Faces!Unmount, FaceInv, FaceTypes
<1>2. \A g \in Hosts : Wanted(g, rec, job, mounted') => rec[g].in
  BY <1>1 DEF CacheInv, HeldSound, Wanted
<1>3. \A g \in Hosts : Wanted(g, rec', job, mounted') => rec'[g].in
  BY <1>1, <1>2, PrunedHeld
<1>4. HeldSound'
  BY <1>1, <1>3 DEF HeldSound
<1>5. QueueSound'
  BY <1>1, QueueStays DEF CacheInv
<1>6. QED
  BY <1>1, <1>4, <1>5, WatchedOnScreen DEF CacheInv

LEMMA CacheShow == ASSUME CacheInv, NEW v, Faces!Show(v) PROVE CacheInv'
<1>1. UNCHANGED <<rec, job, queue, mounted>> /\ Faces!Schedule
  BY DEF Faces!Show
<1>2. QED
  BY <1>1, WatchedOnScreen DEF CacheInv, QueueSound, HeldSound, Wanted, Faces!Answered

LEMMA CacheAge == ASSUME FaceInv, CacheInv, NEW h \in Hosts, Faces!Age(h) PROVE CacheInv'
<1>1. /\ UNCHANGED <<job, queue, mounted, watched>>
      /\ \/ rec' = [rec EXCEPT ![h] = [rec[h] EXCEPT !.seen = "old"]]
         \/ rec' = [rec EXCEPT ![h] = [rec[h] EXCEPT !.recent = FALSE]]
  BY DEF Faces!Age
<1>2. rec \in [Hosts -> FaceRecords] /\ rec[h] \in FaceRecords
  BY DEF FaceInv, FaceTypes
<1>3. ASSUME NEW x, x = [rec[h] EXCEPT !.seen = "old"] \/ x = [rec[h] EXCEPT !.recent = FALSE]
      PROVE  x.url = rec[h].url /\ x.miss = rec[h].miss /\ x.in = rec[h].in
  BY <1>2, <1>3 DEF FaceRecords
<1>4. \A g \in Hosts : rec'[g].url = rec[g].url /\ rec'[g].miss = rec[g].miss /\ rec'[g].in = rec[g].in
  BY <1>1, <1>2, <1>3
<1>5. QED
  BY <1>1, <1>4 DEF CacheInv, QueueSound, HeldSound, Wanted, Faces!Answered

LEMMA CacheAgeSaved == ASSUME CacheInv, NEW h \in Hosts, Faces!AgeSaved(h) PROVE CacheInv'
<1>1. UNCHANGED <<rec, job, queue, mounted, watched>>
  BY DEF Faces!AgeSaved
<1>2. QED
  BY <1>1 DEF CacheInv, QueueSound, HeldSound, Wanted, Faces!Answered

LEMMA CacheRestored ==
  ASSUME FaceInv, CacheInv, NEW h \in Hosts, NEW read \in BOOLEAN, Faces!Restored(h, read)
  PROVE  CacheInv'
<1> DEFINE s == saved[h]
           usable == read /\ s.has /\ ~job[h].void /\ ~s.broken
           found == IF s.face # 0
                    THEN [Faces!WithFace(rec[h], s.face, s.digest) EXCEPT !.seen = IF s.old THEN "old" ELSE @]
                    ELSE [Faces!Absent(rec[h]) EXCEPT !.recent = ~s.old]
           r == IF usable THEN [found EXCEPT !.checked = s.checked] ELSE rec[h]
           settled == usable /\ Faces!AnswerIsCurrent(h, r, hint[h])
           j == [Faces!Idle EXCEPT !.at = "queued", !.back = r.url # 0]
<1>1. /\ rec' = [rec EXCEPT ![h] = r] /\ job' = [job EXCEPT ![h] = IF settled THEN Faces!Idle ELSE j]
      /\ queue' = (IF settled THEN queue ELSE Append(queue, h)) /\ job[h].at = "restoring"
      /\ UNCHANGED <<mounted, watched>>
  BY DEF Faces!Restored
<1>2. /\ rec \in [Hosts -> FaceRecords] /\ job \in [Hosts -> FaceJobs]
      /\ rec[h] \in FaceRecords /\ s \in FaceCopies
  BY HostTypes DEF FaceInv, FaceTypes
<1>3. r.in = rec[h].in
  <2>1. CASE usable /\ s.face # 0
    <3> DEFINE w == Faces!WithFace(rec[h], s.face, s.digest)
    <3>1. w \in FaceRecords /\ w.in = rec[h].in
      <4>1. \A f, d \in Picture : /\ Faces!WithFace(rec[h], f, d) \in FaceRecords
                                  /\ Faces!WithFace(rec[h], f, d).in = rec[h].in
        BY <1>2, RecordFacts, RecordHeld
      <4> QED
        BY <1>2, <4>1 DEF FaceCopies
    <3>2. r = [[w EXCEPT !.seen = IF s.old THEN "old" ELSE @] EXCEPT !.checked = s.checked]
      BY <2>1
    <3> HIDE DEF w, r
    <3> QED
      BY <3>1, <3>2 DEF FaceRecords
  <2>2. CASE usable /\ s.face = 0
    <3> DEFINE w == Faces!Absent(rec[h])
    <3>1. w \in FaceRecords /\ w.in = rec[h].in
      BY <1>2, RecordFacts, RecordHeld
    <3>2. r = [[w EXCEPT !.recent = ~s.old] EXCEPT !.checked = s.checked]
      BY <2>2
    <3> HIDE DEF w, r
    <3> QED
      BY <3>1, <3>2 DEF FaceRecords
  <2>3. CASE ~usable
    BY <2>3
  <2> QED
    BY <2>1, <2>2, <2>3
<1> HIDE DEF r, settled
<1>4. j.at = "queued"
  BY FaceShapes DEF FaceJobs
<1>5. rec'[h] = r /\ job'[h].at = IF settled THEN "idle" ELSE "queued"
  BY <1>1, <1>2, <1>4, FaceShapes
<1> HIDE DEF j
<1>6. \A g \in Hosts : g # h => rec'[g] = rec[g] /\ job'[g] = job[g]
  BY <1>1, <1>2
<1>7. HeldSound'
  <2>1. ASSUME NEW g \in Hosts, Wanted(g, rec', job', mounted') PROVE rec'[g].in
    <3>1. CASE g = h
      <4>1. rec[h].in
        BY <1>1 DEF CacheInv, HeldSound, Wanted
      <4> QED
        BY <1>3, <1>5, <3>1, <4>1
    <3>2. CASE g # h
      BY <1>1, <1>6, <2>1, <3>2 DEF CacheInv, HeldSound, Wanted, Faces!Answered
    <3> QED
      BY <3>1, <3>2
  <2> QED
    BY <2>1 DEF HeldSound
<1>8. QueueSound'
  <2>1. QueueSound
    BY DEF CacheInv
  <2>2. CASE settled
    <3>1. queue' = queue /\ \A g \in Hosts : job'[g].at = "queued" <=> job[g].at = "queued"
      BY <1>1, <1>5, <1>6, <2>2
    <3> QED
      BY <2>1, <3>1, QueueStays
  <2>3. CASE ~settled
    <3>1. queue \in Seq(Hosts) /\ h \notin Elements(queue) /\ queue' = Append(queue, h)
      BY <1>1, <2>1, <2>3 DEF QueueSound
    <3>2. /\ queue' \in Seq(Hosts) /\ Len(queue) \in Nat /\ DOMAIN queue = 1..Len(queue)
          /\ DOMAIN queue' = 1..(Len(queue) + 1) /\ queue'[Len(queue) + 1] = h
          /\ \A k \in 1..Len(queue) : queue'[k] = queue[k]
      BY <3>1, AppendProperties, LenProperties
    <3>3. \A k \in 1..Len(queue) : queue[k] \in Elements(queue) /\ queue[k] # h
      BY <3>1, <3>2 DEF Elements
    <3>4. Elements(queue') = Elements(queue) \cup {h}
      <4>1. ASSUME NEW k \in DOMAIN queue' PROVE queue'[k] \in Elements(queue) \cup {h}
        <5>1. k \in 1..Len(queue) \/ k = Len(queue) + 1
          BY <3>2, <4>1
        <5> QED
          BY <3>2, <3>3, <5>1
      <4>2. Len(queue) + 1 \in DOMAIN queue' /\ \A k \in DOMAIN queue : k \in DOMAIN queue'
        BY <3>2
      <4>3. h \in Elements(queue')
        BY <3>2, <4>2 DEF Elements
      <4>4. ASSUME NEW e \in Elements(queue) PROVE e \in Elements(queue')
        <5>1. PICK k \in DOMAIN queue : e = queue[k]
          BY DEF Elements
        <5> QED
          BY <3>2, <4>2, <5>1 DEF Elements
      <4>5. Elements(queue') \subseteq Elements(queue) \cup {h}
        BY <4>1 DEF Elements
      <4> QED
        BY <4>3, <4>4, <4>5
    <3>5. Distinct(queue')
      <4>1. ASSUME NEW k \in DOMAIN queue', NEW m \in DOMAIN queue', queue'[k] = queue'[m] PROVE k = m
        <5>1. (k \in 1..Len(queue) \/ k = Len(queue) + 1) /\ (m \in 1..Len(queue) \/ m = Len(queue) + 1)
          BY <3>2
        <5>2. CASE k \in 1..Len(queue) /\ m \in 1..Len(queue)
          BY <2>1, <3>2, <4>1, <5>2 DEF QueueSound, Distinct
        <5> QED
          BY <3>2, <3>3, <4>1, <5>1, <5>2
      <4> QED
        BY <4>1 DEF Distinct
    <3>6. \A g \in Hosts : g \in Elements(queue') <=> job'[g].at = "queued"
      BY <1>5, <1>6, <2>1, <2>3, <3>4 DEF QueueSound
    <3> QED
      BY <3>2, <3>5, <3>6 DEF QueueSound
  <2> QED
    BY <2>2, <2>3
<1>9. QED
  BY <1>1, <1>7, <1>8 DEF CacheInv

LEMMA CacheTaken == ASSUME FaceInv, CacheInv, NEW l \in Faces!Lanes, Faces!TakeBatch(l) PROVE CacheInv'
<1>1. UNCHANGED <<rec, mounted, watched>>
  BY DEF Faces!TakeBatch
<1> DEFINE ofLane == {i \in DOMAIN queue : job[queue[i]].at = "queued" /\ Faces!LaneOf(queue[i]) = l}
           first == {i \in ofLane : Faces!Cardinality({k \in ofLane : k <= i}) <= BatchSize}
           batch == {queue[i] : i \in first}
<1>2. /\ queue' = Faces!Without(queue, batch)
      /\ job' = [h \in Hosts |-> IF h \in batch THEN [job[h] EXCEPT !.at = "asked", !.digest = hint[h]] ELSE job[h]]
      /\ \A h \in batch : job[h].at = "queued"
  BY DEF Faces!TakeBatch
<1> HIDE DEF batch
<1>3. ASSUME NEW h \in Hosts
      PROVE  IF h \in batch THEN job[h].at = "queued" /\ job'[h].at = "asked" ELSE job'[h] = job[h]
  <2>1. job[h] \in FaceJobs /\ hint[h] \in Picture
    BY HostTypes DEF FaceInv
  <2>2. [job[h] EXCEPT !.at = "asked", !.digest = hint[h]].at = "asked"
    BY <2>1 DEF FaceJobs
  <2> QED
    BY <1>2, <2>2
<1>4. HeldSound'
  BY <1>1, <1>3 DEF CacheInv, HeldSound, Wanted, Faces!Answered
<1>5. QueueSound'
  <2>1. queue \in Seq(Hosts) /\ Distinct(queue) /\ \A h \in Hosts : h \in Elements(queue) <=> job[h].at = "queued"
    BY DEF CacheInv, QueueSound
  <2>2. queue' \in Seq(Hosts) /\ Distinct(queue') /\ Elements(queue') = Elements(queue) \ batch
    BY <1>2, <2>1, QueueWithout
  <2>3. \A h \in Hosts : h \in Elements(queue') <=> job'[h].at = "queued"
    BY <1>3, <2>1, <2>2
  <2> QED
    BY <2>2, <2>3 DEF QueueSound
<1>6. QED
  BY <1>1, <1>4, <1>5 DEF CacheInv

LEMMA CacheResolved == ASSUME FaceInv, CacheInv, NEW l \in Faces!Lanes, Faces!Resolve(l) PROVE CacheInv'
<1> DEFINE hs == Faces!Out(l)
           new(a, h) == CASE a[h].is = "face" -> Faces!WithFace(rec[h], a[h].face, a[h].digest)
                          [] a[h].is = "missing" -> Faces!Absent(rec[h])
                          [] OTHER -> Faces!Failed(rec[h])
           r(a) == [h \in Hosts |-> IF h \in hs /\ Faces!Applied(h)
                                    THEN [new(a, h) EXCEPT !.checked = job[h].digest] ELSE rec[h]]
<1>1. PICK a :
        /\ \A h \in hs : a[h] \in Faces!Answers(h)
        /\ job' = [h \in Hosts |-> IF h \in hs THEN Faces!Idle ELSE job[h]]
        /\ Faces!Prune(r(a), job', mounted)
        /\ UNCHANGED <<queue, mounted>> /\ Faces!Schedule
  BY DEF Faces!Resolve
<1>2. hs = {h \in Hosts : job[h].at = "asked" /\ Faces!LaneOf(h) = l}
  BY DEF Faces!Out
<1> HIDE DEF hs
<1>3. \A h \in Hosts : rec[h] \in FaceRecords /\ job[h] \in FaceJobs
  BY HostTypes DEF FaceInv
<1>4. ASSUME NEW h \in hs
      PROVE  new(a, h) \in FaceRecords /\ new(a, h).in = rec[h].in /\ job[h].digest \in Picture
  <2>1. /\ h \in Hosts /\ rec[h] \in FaceRecords /\ job[h].digest \in Picture /\ a[h] \in Faces!Answers(h) /\ FaceTypes
    BY <1>1, <1>2, <1>3 DEF FaceJobs, FaceInv
  <2>2. a[h].face \in Picture /\ a[h].digest \in Picture
    BY <2>1, AnswersFacts
  <2>3. CASE a[h].is = "face"
    <3>1. new(a, h) = Faces!WithFace(rec[h], a[h].face, a[h].digest)
      BY <2>3
    <3> HIDE DEF new
    <3>2. \A f, d \in Picture : Faces!WithFace(rec[h], f, d) \in FaceRecords /\ Faces!WithFace(rec[h], f, d).in = rec[h].in
      BY <2>1, RecordFacts, RecordHeld
    <3> QED
      BY <2>1, <2>2, <3>1, <3>2
  <2>4. CASE a[h].is = "missing"
    <3>1. new(a, h) = Faces!Absent(rec[h])
      BY <2>4
    <3> HIDE DEF new
    <3> QED
      BY <2>1, <3>1, RecordFacts, RecordHeld
  <2>5. CASE a[h].is \notin {"face", "missing"}
    <3>1. new(a, h) = Faces!Failed(rec[h])
      BY <2>5
    <3> HIDE DEF new
    <3> QED
      BY <2>1, <3>1, RecordFacts, RecordHeld
  <2> QED
    BY <2>1, <2>3, <2>4, <2>5
<1> HIDE DEF new
<1>5. ASSUME NEW h \in hs, Faces!Applied(h) PROVE r(a)[h] \in FaceRecords /\ r(a)[h].in = rec[h].in
  <2>1. r(a)[h] = [new(a, h) EXCEPT !.checked = job[h].digest]
    BY <1>2, <1>5
  <2> HIDE DEF r
  <2> QED
    BY <1>4, <1>5, <2>1 DEF FaceRecords
<1>6. ASSUME NEW h \in Hosts, ~(h \in hs /\ Faces!Applied(h)) PROVE r(a)[h] = rec[h]
  BY <1>6
<1>7. r(a) \in [Hosts -> FaceRecords]
  <2>1. \A h \in Hosts : r(a)[h] \in FaceRecords
    BY <1>3, <1>5, <1>6
  <2>2. r(a) = [h \in Hosts |-> r(a)[h]]
    OBVIOUS
  <2> HIDE DEF r
  <2> QED
    BY <2>1, <2>2
<1> HIDE DEF r
<1>8. \A h \in Hosts : IF h \in hs THEN job'[h].at = "idle" /\ job[h].at = "asked" ELSE job'[h] = job[h]
  BY <1>1, <1>2, FaceShapes
<1>9. ASSUME NEW h \in Hosts, Wanted(h, r(a), job', mounted) PROVE r(a)[h].in
  <2>1. CASE h \in hs
    <3>1. rec[h].in
      BY <1>8, <2>1 DEF CacheInv, HeldSound, Wanted
    <3> QED
      BY <1>5, <1>6, <2>1, <3>1
  <2>2. CASE h \notin hs
    BY <1>6, <1>8, <1>9, <2>2 DEF CacheInv, HeldSound, Wanted, Faces!Answered
  <2> QED
    BY <2>1, <2>2
<1>10. \A h \in Hosts : Wanted(h, rec', job', mounted) => rec'[h].in
  BY <1>1, <1>7, <1>9, PrunedHeld
<1>11. HeldSound'
  BY <1>1, <1>10 DEF HeldSound
<1>12. QueueSound'
  BY <1>1, <1>8, QueueStays DEF CacheInv
<1>13. QED
  BY <1>1, <1>11, <1>12, WatchedOnScreen DEF CacheInv

(* A definite word of one host, which is in the cache. *)
LEMMA CacheOverruled ==
  ASSUME FaceInv, CacheInv, NEW h \in Hosts, NEW x \in FaceRecords, x.in,
         job' = [job EXCEPT ![h] = Faces!Void(@)], Faces!Prune([rec EXCEPT ![h] = x], job', mounted),
         UNCHANGED <<mounted, queue>>, Faces!Schedule
  PROVE  CacheInv'
<1> DEFINE r == [rec EXCEPT ![h] = x]
<1>1. rec \in [Hosts -> FaceRecords] /\ job \in [Hosts -> FaceJobs] /\ Faces!Prune(r, job', mounted)
  BY DEF FaceInv, FaceTypes
<1>2. r \in [Hosts -> FaceRecords] /\ r[h] = x /\ \A g \in Hosts : g # h => r[g] = rec[g]
  BY <1>1
<1> HIDE DEF r
<1>3. \A g \in Hosts : job'[g].at = job[g].at
  <2>1. job'[h] = Faces!Void(job[h]) /\ job[h] \in FaceJobs /\ \A g \in Hosts : g # h => job'[g] = job[g]
    BY <1>1
  <2> QED
    BY <2>1, VoidAt
<1>4. ASSUME NEW g \in Hosts, Wanted(g, r, job', mounted) PROVE r[g].in
  BY <1>2, <1>3, <1>4 DEF CacheInv, HeldSound, Wanted, Faces!Answered
<1>5. \A g \in Hosts : Wanted(g, rec', job', mounted) => rec'[g].in
  BY <1>1, <1>2, <1>4, PrunedHeld
<1>6. HeldSound'
  BY <1>5 DEF HeldSound
<1>7. QueueSound'
  BY <1>3, QueueStays DEF CacheInv
<1>8. QED
  BY <1>6, <1>7, WatchedOnScreen DEF CacheInv

LEMMA CachePrime == ASSUME FaceInv, CacheInv, NEW f \in Picture, Faces!Prime(f) PROVE CacheInv'
<1> DEFINE w == IF f # 0 THEN Faces!WithFace(rec[self], f, 0)
                ELSE [rec[self] EXCEPT !.url = 0, !.seen = "none", !.miss = "none", !.recent = FALSE, !.digest = 0]
           x == [w EXCEPT !.primed = f, !.in = TRUE]
<1>1. /\ self # None /\ UNCHANGED <<mounted, queue>> /\ Faces!Schedule
      /\ job' = [job EXCEPT ![self] = Faces!Void(@)]
      /\ Faces!Prune([rec EXCEPT ![self] = x], job', mounted)
  BY DEF Faces!Prime
<1>2. self \in Hosts /\ rec[self] \in FaceRecords
  BY <1>1, HostTypes DEF FaceInv, FaceTypes
<1>3. w \in FaceRecords
  <2>1. CASE f # 0
    <3>1. w = Faces!WithFace(rec[self], f, 0)
      BY <2>1
    <3> HIDE DEF w
    <3>2. \A d \in Picture : Faces!WithFace(rec[self], f, d) \in FaceRecords
      BY <1>2, RecordFacts
    <3> QED
      BY <3>1, <3>2, FaceAssumed
  <2>2. CASE f = 0
    <3>1. w = [rec[self] EXCEPT !.url = 0, !.seen = "none", !.miss = "none", !.recent = FALSE, !.digest = 0]
      BY <2>2
    <3> HIDE DEF w
    <3> QED
      BY <1>2, <3>1, FaceAssumed DEF FaceRecords
  <2> QED
    BY <2>1, <2>2
<1> HIDE DEF w
<1>4. x \in FaceRecords /\ x.in
  BY <1>3, FaceAssumed DEF FaceRecords
<1> HIDE DEF x
<1>5. QED
  BY <1>1, <1>2, <1>4, CacheOverruled

LEMMA CacheDiscard == ASSUME FaceInv, CacheInv, NEW h \in Hosts, Faces!Discard(h) PROVE CacheInv'
<1> DEFINE w == Faces!Failed(rec[h])
           x == [w EXCEPT !.url = 0, !.seen = "none", !.digest = 0]
<1>1. rec[h] \in FaceRecords
  BY HostTypes DEF FaceInv
<1>2. /\ UNCHANGED <<mounted, queue>> /\ Faces!Schedule /\ h \in mounted
      /\ job' = [job EXCEPT ![h] = Faces!Void(@)]
      /\ Faces!Prune([rec EXCEPT ![h] = [Faces!Failed(@) EXCEPT !.url = 0, !.seen = "none", !.digest = 0]], job', mounted)
  BY DEF Faces!Discard
<1>3. [rec EXCEPT ![h] = [Faces!Failed(@) EXCEPT !.url = 0, !.seen = "none", !.digest = 0]] = [rec EXCEPT ![h] = x]
  OBVIOUS
<1>4. w \in FaceRecords /\ w.in
  BY <1>1, <1>2, RecordFacts, RecordHeld DEF CacheInv, HeldSound, Wanted
<1> HIDE DEF w
<1>5. x \in FaceRecords /\ x.in
  BY <1>4, FaceAssumed DEF FaceRecords
<1> HIDE DEF x
<1>6. QED
  BY <1>2, <1>3, <1>5, CacheOverruled

LEMMA CacheBegins ==
  ASSUME rec = [h \in Hosts |-> Faces!Blank], job = [h \in Hosts |-> Faces!Idle], queue = <<>>,
         mounted = {}, watched = {}
  PROVE  CacheInv
<1>1. \A h \in Hosts : rec[h].url = 0 /\ rec[h].miss = "none" /\ job[h].at = "idle"
  BY FaceShapes
<1>2. queue \in Seq(Hosts) /\ DOMAIN queue = {}
  OBVIOUS
<1>3. Distinct(queue) /\ Elements(queue) = {}
  BY <1>2 DEF Distinct, Elements
<1>4. QED
  BY <1>1, <1>2, <1>3 DEF CacheInv, QueueSound, HeldSound, Wanted, Faces!Answered

LEMMA CacheRestart == ASSUME Faces!Restart PROVE CacheInv'
<1>1. /\ rec' = [h \in Hosts |-> Faces!Blank] /\ job' = [h \in Hosts |-> Faces!Idle] /\ queue' = <<>>
      /\ mounted' = {} /\ watched' = {}
  BY DEF Faces!Restart
<1>2. \A h \in Hosts : rec'[h].url = 0 /\ rec'[h].miss = "none" /\ job'[h].at = "idle"
  BY <1>1, FaceShapes
<1>3. queue' \in Seq(Hosts) /\ DOMAIN queue' = {}
  BY <1>1
<1>4. Distinct(queue') /\ Elements(queue') = {}
  BY <1>3 DEF Distinct, Elements
<1>5. QED
  BY <1>1, <1>2, <1>3, <1>4 DEF CacheInv, QueueSound, HeldSound, Wanted, Faces!Answered

LEMMA CacheHolds == Spec => []CacheInv
<1>1. Init => CacheInv
  BY CacheBegins DEF Init, Faces!Init
<1>2. FaceInv /\ HintInv /\ CacheInv /\ Faces!Next => CacheInv'
  BY CacheRestored, CacheMount, CacheUnmount, CacheDiscard, CacheAge, CacheAgeSaved, CacheTaken, CacheResolved,
     CacheNote, CachePrime, CacheShow, CacheRecover, CacheRestart DEF Faces!Next, Faces!Restores, Picture
<1>3. CacheInv /\ UNCHANGED Faces!vars => CacheInv'
  BY DEF Faces!vars, CacheInv, QueueSound, HeldSound, Wanted, Faces!Answered
<1>4. FaceInv /\ HintInv /\ CacheInv /\ [Next]_vars => CacheInv'
  BY <1>2, <1>3, FacesRun
<1>5. QED
  BY <1>1, <1>4, FaceHolds, HintHolds, PTL DEF Spec

LEMMA FaceTypesHold == Spec => []Faces!TypeOK
<1>1. FaceInv /\ HintInv /\ CacheInv => Faces!TypeOK
  <2>1. SUFFICES ASSUME FaceInv, HintInv, CacheInv PROVE Faces!TypeOK
    OBVIOUS
  <2>2. \A h \in Hosts : rec[h] \in FaceRecords /\ job[h] \in FaceJobs
    BY <2>1, HostTypes DEF FaceInv
  <2>3. \A h \in Hosts : rec[h].url \in Picture /\ rec[h].primed \in Picture \cup {None}
    BY <2>2 DEF FaceRecords
  <2>4. \A h \in Hosts : job[h].at \in {"idle", "restoring", "queued", "asked"}
    BY <2>2 DEF FaceJobs
  <2>5. {h \in Hosts : job[h].at = "queued"} = Faces!ToSet(queue)
    <3>1. queue \in Seq(Hosts) /\ \A h \in Hosts : h \in Elements(queue) <=> job[h].at = "queued"
      BY <2>1 DEF CacheInv, QueueSound
    <3>2. Elements(queue) \subseteq Hosts
      BY <3>1, ElementsFacts
    <3>3. Faces!ToSet(queue) = Elements(queue)
      BY DEF Faces!ToSet, Elements
    <3> QED
      BY <3>1, <3>2, <3>3
  <2>6. Faces!IsInjective(queue)
    BY <2>1 DEF CacheInv, QueueSound, Distinct, Faces!IsInjective
  <2>7. (\A h \in mounted : rec[h].in) /\ watched \subseteq mounted
    BY <2>1 DEF CacheInv, HeldSound, Wanted, HintInv
  <2>8. known \in [Hosts -> Picture \cup {None}]
    BY <2>1 DEF FaceInv, FaceTypes
  <2> QED
    BY <2>3, <2>4, <2>5, <2>6, <2>7, <2>8 DEF Faces!TypeOK, Picture
<1>2. QED
  BY <1>1, FaceHolds, HintHolds, CacheHolds, PTL

---------------------------------------------------------------------------
LEMMA PartStands == Spec => [](part \in Parts)
<1>1. Init => part \in Parts
  BY DEF Init
<1>2. part \in Parts /\ [Next]_vars => (part \in Parts)'
  BY DEF Next, vars
<1>3. QED
  BY <1>1, <1>2, PTL DEF Spec

\* TypeOK of MCParts: the state of every part of the app's screens keeps to its types and to the
\* limits of its lists: pages asked for, faces queued, jobs of the lanes, thumbnails, invitations.
THEOREM TypesHold == Spec => []TypeOK
<1>1. /\ part \in Parts /\ Feeds!TypeOK /\ Thread!TypeOK /\ Emoji!TypeOK /\ Faces!TypeOK
      /\ Thumbs!TypeOK /\ Photo!TypeOK /\ Chats!TypeOK /\ Roster!TypeOK
      /\ Draft!TypeOK /\ Joining!TypeOK /\ Lanes!TypeOK /\ Invited!TypeOK /\ Sidebar!TypeOK
      => TypeOK
  BY DEF TypeOK
<1>2. QED
  BY <1>1, PartStands, FeedTypesHold, ThreadTypesHold, ReactionTypesHold, FaceTypesHold, ThumbTypesHold,
     PhotoTypesHold, ChatTypesHold, GroupTypesHold, DraftTypesHold, MemberTypesHold, LaneTypesHold,
     InvitedTypesHold, BadgeTypesHold, PTL
=============================================================================
