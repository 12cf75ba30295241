---------------------------- MODULE Participation ----------------------------
(* The saved draft of a newcomer: participation.js and what index.jsx and            *)
(* ui/Board.jsx do with it, in several windows of one account.                       *)
(*                                                                                *)
(* One file keeps one draft. Every window reads it, shows it, and may save, clear    *)
(* or submit it; each of these reads the file's version first and writes on the      *)
(* condition that it is still that version. Whether the owner may take part is        *)
(* Membership's; here a window learns it at any time.                                *)
EXTENDS Integers, FiniteSets

CONSTANTS
  Windows,
  Drafts, Legacy, \* Legacy: drafts of earlier versions, over today's limits
  None,
  Taps,           \* bound on what the owner taps, over all windows
  MaxVersion      \* bound on the writes of the file

ParticipationAssumption ==
  /\ Legacy \subseteq Drafts /\ None \notin Drafts
  /\ Taps \in Nat /\ MaxVersion \in Nat \ {0}

VARIABLES
  stored, version,  \* drafts/board-participation.json and its version
  member,           \* per window: canParticipate
  intent,           \* per window: participationIntent
  load,             \* per window: intentState
  draft,            \* per window and lane: what is under way with the file
  taps

vars == <<stored, version, member, intent, load, draft, taps>>

Lanes == {"continue", "discard", "complete"}
Idle == [at |-> "idle", of |-> None, shown |-> None, version |-> 0]

Init ==
  /\ stored \in Drafts \cup {None}
  /\ version = IF stored = None THEN 0 ELSE 1
  /\ intent = [w \in Windows |-> None] /\ load = [w \in Windows |-> "loading"]
  /\ draft = [w \in Windows |-> [l \in Lanes |-> Idle]]
  /\ member \in [Windows -> BOOLEAN] /\ taps = 0

---------------------------------------------------------------------------
Tap == taps < Taps /\ taps' = taps + 1

(* A refreshed profile, another window's join, or a directory that lost the owner.     *)
Learn(w) ==
  /\ member' = [member EXCEPT ![w] = ~@]
  /\ UNCHANGED <<stored, version, intent, load, draft, taps>>

(* handoffBusy and participationBusy *)
Busy(w) == draft[w]["continue"].at # "idle"

(* loadSavedParticipationIntent; the device's copy of the file may be the one shown. *)
Load(w) ==
  /\ load[w] = "loading"
  /\ \/ load' = [load EXCEPT ![w] = "error"] /\ UNCHANGED intent
     \/ /\ load' = [load EXCEPT ![w] = "ready"]
        /\ \E d \in {stored, intent[w]} : intent' = [intent EXCEPT ![w] = d]
  /\ UNCHANGED <<stored, version, member, draft, taps>>
RetryLoad(w) ==
  /\ load[w] = "error" /\ Tap /\ load' = [load EXCEPT ![w] = "loading"]
  /\ UNCHANGED <<stored, version, member, intent, draft>>

\* Mutant: the write carries no condition.
Meets_Always(t) == version > 0
(* Under the condition it was sent with, a write takes effect or is refused.        *)
Meets(t) == t.version = version
Writes(d) == version < MaxVersion /\ stored' = d /\ version' = version + 1

Ends(w, l) == draft' = [draft EXCEPT ![w][l] = Idle]
Goes(w, l, at) == draft' = [draft EXCEPT ![w][l].at = at, ![w][l].version = version]

(* continueParticipation and requestParticipation, up to the file being read.        *)
Continue(w) ==
  /\ intent[w] # None /\ ~member[w] /\ ~Busy(w) /\ Tap
  /\ draft' = [draft EXCEPT ![w]["continue"] = [Idle EXCEPT !.at = "read", !.of = intent[w]]]
  /\ UNCHANGED <<stored, version, member, intent, load>>

(* The rest of requestParticipation: join, which ends sooner or later, or the          *)
(* account's own app.                                                                *)
Saved(w) ==
  /\ intent' = [intent EXCEPT ![w] = draft[w]["continue"].of]
  /\ Goes(w, "continue", "join") \/ Ends(w, "continue")
NotSaved(w) == Ends(w, "continue") /\ UNCHANGED intent
JoinEnds(w) ==
  /\ draft[w]["continue"].at = "join" /\ Ends(w, "continue")
  /\ UNCHANGED <<stored, version, member, intent, load, taps>>

(* normalizedIntent: today's limits. *)
Writable(d) == d \notin Legacy

\* Mutant: the draft that is there is not looked at.
MayWrite_Over(d) == Writable(d)
(* saveParticipationIntent: what is there already is enough, what is another is not    *)
(* replaced, and what no longer meets the limits is not written.                     *)
MayWrite(d) == Writable(d) /\ stored = None
ReadToSave(w) ==
  LET t == draft[w]["continue"] IN
  /\ t.at = "read"
  /\ \/ NotSaved(w)                                          \* offline, or no answer
     \/ stored = t.of /\ Saved(w)
     \/ stored # t.of /\ ~MayWrite(t.of) /\ NotSaved(w)
     \/ stored # t.of /\ MayWrite(t.of) /\ Goes(w, "continue", "write") /\ UNCHANGED intent
  /\ UNCHANGED <<stored, version, member, load, taps>>
WriteToSave(w) ==
  LET t == draft[w]["continue"] IN
  /\ t.at = "write"
  /\ \/ Meets(t) /\ Writes(t.of) /\ (Saved(w) \/ NotSaved(w)) \* answered, or not
     \/ NotSaved(w) /\ UNCHANGED <<stored, version>>
  /\ UNCHANGED <<member, load, taps>>

(* publish, sendReply or a reaction: the owner submits what is in the composer, a       *)
(* restored draft or any other words.                                               *)
Submit(w, d) ==
  /\ member[w] /\ draft[w]["complete"].at = "idle" /\ Tap
  /\ draft' = [draft EXCEPT ![w]["complete"] = [Idle EXCEPT !.at = "sent", !.of = d, !.shown = intent[w]]]
  /\ UNCHANGED <<stored, version, member, intent, load>>
\* Mutant: whatever was submitted completes the draft that is shown.
Completes_Any(t) == t.shown # None
(* completeParticipationIntent: only the draft that was shown, and only that draft.    *)
Completes(t) == t.shown = t.of
Submitted(w) ==
  LET t == draft[w]["complete"] IN
  /\ t.at = "sent"
  /\ \/ Ends(w, "complete")                                  \* refused, or no answer
     \/ Completes(t) /\ Goes(w, "complete", "read")
     \/ ~Completes(t) /\ Ends(w, "complete")
  /\ UNCHANGED <<stored, version, member, intent, load, taps>>

(* discardParticipationIntent *)
Discard(w) ==
  /\ intent[w] # None /\ ~Busy(w) /\ draft[w]["discard"].at = "idle" /\ Tap
  /\ draft' = [draft EXCEPT ![w]["discard"] = [Idle EXCEPT !.at = "read", !.of = intent[w], !.shown = intent[w]]]
  /\ UNCHANGED <<stored, version, member, intent, load>>

(* clearParticipationIntent, and the load that follows it unless it throws.           *)
ReadToClear(w, l) ==
  LET t == draft[w][l] IN
  /\ t.at = "read"
  /\ \/ Ends(w, l)                                           \* no answer
     \/ Goes(w, l, "load")                                   \* offline
     \/ stored = t.shown /\ Goes(w, l, "write")
     \/ stored # t.shown /\ Goes(w, l, "load")
  /\ UNCHANGED <<stored, version, member, intent, load, taps>>
WriteToClear(w, l) ==
  LET t == draft[w][l] IN
  /\ t.at = "write"
  /\ \/ Meets(t) /\ Writes(None) /\ (Goes(w, l, "load") \/ Ends(w, l))
     \/ Ends(w, l) /\ UNCHANGED <<stored, version>>
  /\ UNCHANGED <<member, intent, load, taps>>
Reload(w, l) ==
  /\ draft[w][l].at = "load" /\ Ends(w, l)
  /\ \/ UNCHANGED intent
     \/ intent' = [intent EXCEPT ![w] = stored]
  /\ UNCHANGED <<stored, version, member, load, taps>>

(* Another version of the app, where drafts of the same account are also saved.        *)
OtherSave(d) ==
  /\ stored = None /\ Writes(d)
  /\ UNCHANGED <<member, intent, load, draft, taps>>

---------------------------------------------------------------------------
Keeps(w) ==
  \/ Learn(w) \/ Load(w) \/ RetryLoad(w)
  \/ Continue(w) \/ ReadToSave(w) \/ WriteToSave(w) \/ JoinEnds(w)
  \/ \E d \in Drafts : Submit(w, d)
  \/ Submitted(w) \/ Discard(w)
  \/ \E l \in {"discard", "complete"} : ReadToClear(w, l) \/ WriteToClear(w, l) \/ Reload(w, l)
Next == (\E w \in Windows : Keeps(w)) \/ (\E d \in Drafts : OtherSave(d))
Spec == Init /\ [][Next]_vars

---------------------------------------------------------------------------
(* A draft over the limits is never the one being written.                            *)
TypeOK ==
  /\ stored \in Drafts \cup {None} /\ version \in 0..MaxVersion /\ member \in [Windows -> BOOLEAN]
  /\ intent \in [Windows -> Drafts \cup {None}] /\ load \in [Windows -> {"loading", "ready", "error"}]
  /\ taps \in 0..Taps
  /\ \A w \in Windows : draft[w]["continue"].at = "write" => draft[w]["continue"].of \notin Legacy

(* A saved draft goes only because someone discarded or submitted that very draft:     *)
(* no other draft takes its place, and no other submission takes it away.             *)
GoesByChoice ==
  [][stored # None /\ stored' # stored =>
       /\ stored' = None
       /\ \E w \in Windows, l \in {"discard", "complete"} :
            draft[w][l].at = "write" /\ draft[w][l].of = stored]_vars
=============================================================================
