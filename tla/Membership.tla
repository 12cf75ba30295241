----------------------------- MODULE Membership -----------------------------
(* How a newcomer becomes a member: community.js, participationStep, and loadMe,      *)
(* join, beginJoin and refreshAfterHandoff of index.jsx, in the windows of one         *)
(* account.                                                                          *)
(*                                                                                *)
(* The account is linked and named in another app. A window learns of it by reading    *)
(* the profile when the owner comes back, and then asks the directory whether it        *)
(* lists the owner; several reads may be under way, each showing what it found.         *)
EXTENDS Integers, FiniteSets

CONSTANTS Windows, Taps  \* Taps: bound on what the owner taps

MembershipAssumption == Taps \in Nat

VARIABLES
  account,  \* as the service and the directory know it
  me,       \* per window: the profile last heard of
  reads,    \* per window and reader: the profile being read
  handoff,  \* per window: handoffPending
  taps

vars == <<account, me, reads, handoff, taps>>

Readers == {"boot", "refresh", "join"}
Unknown == [linked |-> FALSE, named |-> FALSE, joined |-> FALSE, reg |-> "unread"]
NoRead == [at |-> "idle", got |-> Unknown]

Accounts == [linked : BOOLEAN, named : BOOLEAN, joined : BOOLEAN, listed : BOOLEAN]

(* loadBootstrap starts the first read. Those who joined before usernames were asked     *)
(* for may have none.                                                                *)
Init ==
  /\ account \in {a \in Accounts : (a.named \/ a.joined => a.linked) /\ (a.listed => a.joined)}
  /\ me = [w \in Windows |-> Unknown]
  /\ reads = [w \in Windows |-> [r \in Readers |-> IF r = "boot" THEN [NoRead EXCEPT !.at = "profile"] ELSE NoRead]]
  /\ handoff = [w \in Windows |-> FALSE] /\ taps = 0

---------------------------------------------------------------------------
(* participationStep, and canParticipate.                                          *)
Step(p) ==
  IF p.named THEN IF p.joined THEN "ready" ELSE "join"
  ELSE IF p.linked THEN "username" ELSE "identity"
CanParticipate(w) == Step(me[w]) = "ready" /\ me[w].reg # "missing"

Saving(w) == reads[w]["join"].at # "idle"
Tap == taps < Taps /\ taps' = taps + 1

(* The owner links the account and chooses a username in the account's own app.        *)
LinkAccount ==
  /\ ~account.linked /\ account' = [account EXCEPT !.linked = TRUE]
  /\ UNCHANGED <<me, reads, handoff, taps>>
ChooseUsername ==
  /\ account.linked /\ ~account.named /\ account' = [account EXCEPT !.named = TRUE]
  /\ UNCHANGED <<me, reads, handoff, taps>>

Profile == [linked |-> account.linked, named |-> account.named, joined |-> account.joined, reg |-> "none"]

(* loadMe: the profile, shown at once, and then whether the directory lists it.        *)
ProfileArrives(w, r) ==
  /\ reads[w][r].at = "profile"
  /\ reads' = [reads EXCEPT ![w][r] = [at |-> "check", got |-> Profile]]
  /\ me' = [me EXCEPT ![w] = Profile]
  /\ UNCHANGED <<account, handoff, taps>>
\* Mutant: a refresh that fails goes on counting as under way.
Failed_Kept(w, r) == [reads EXCEPT ![w][r].at = IF r = "refresh" THEN "lost" ELSE "idle"]
(* The finally clauses of loadMe's callers.                                          *)
Failed(w, r) == [reads EXCEPT ![w][r] = NoRead]
ProfileFails(w, r) ==
  /\ reads[w][r].at = "profile" /\ reads' = Failed(w, r)
  /\ UNCHANGED <<account, me, handoff, taps>>

(* checkGlobalRegistration *)
Registrations(p) ==
  IF ~p.joined THEN {"not_joined"} ELSE {IF account.listed THEN "registered" ELSE "missing", "unavailable"}
CheckArrives(w, r) ==
  LET p == reads[w][r].got IN
  /\ reads[w][r].at = "check"
  /\ \E reg \in Registrations(p) : me' = [me EXCEPT ![w] = [p EXCEPT !.reg = reg]]
  /\ reads' = [reads EXCEPT ![w][r] = NoRead]
  /\ handoff' = IF r = "refresh" /\ p.linked THEN [handoff EXCEPT ![w] = FALSE] ELSE handoff
  /\ UNCHANGED <<account, taps>>

\* Mutant: only a window that sent the owner away looks again.
LooksAgain_Sent(w) == handoff[w]
(* refreshAfterHandoff: a member who did not go to the other app is not read again.    *)
LooksAgain(w) == ~(me[w].joined /\ me[w].linked) \/ handoff[w]
Return(w) ==
  /\ \/ reads[w]["refresh"].at = "idle" /\ LooksAgain(w) /\ reads' = [reads EXCEPT ![w]["refresh"].at = "profile"]
     \/ ~(reads[w]["refresh"].at = "idle" /\ LooksAgain(w)) /\ UNCHANGED reads
  /\ UNCHANGED <<account, me, handoff, taps>>

OpenIdentity(w) == handoff' = [handoff EXCEPT ![w] = TRUE]
StartJoin(w) == reads' = [reads EXCEPT ![w]["join"].at = "joining"]
MayJoin(w) == me[w].reg = "missing" \/ Step(me[w]) = "join"

(* beginJoin: check again, join, or go to the account's own app.                      *)
BeginJoin(w) ==
  /\ ~Saving(w) /\ Tap
  /\ \/ /\ me[w] = Unknown /\ reads[w]["boot"].at = "idle"
        /\ reads' = [reads EXCEPT ![w]["boot"].at = "profile"] /\ UNCHANGED handoff
     \/ me[w] # Unknown /\ MayJoin(w) /\ StartJoin(w) /\ UNCHANGED handoff
     \/ me[w] # Unknown /\ ~MayJoin(w) /\ OpenIdentity(w) /\ UNCHANGED reads
  /\ UNCHANGED <<account, me>>

(* join and joinGlobalCommunity: the service marks the account joined before it asks   *)
(* the directory, and only an answer that says registered is followed by a read.       *)
Join(w) ==
  /\ reads[w]["join"].at = "joining"
  /\ \/ /\ account.named /\ account' = [account EXCEPT !.joined = TRUE, !.listed = TRUE]
        /\ reads' = [reads EXCEPT ![w]["join"].at = "profile"]
     \/ /\ account.named
        /\ \E b \in {account.listed, TRUE} : account' = [account EXCEPT !.joined = TRUE, !.listed = b]
        /\ reads' = Failed(w, "join")      \* not registered, or no answer
     \/ reads' = Failed(w, "join") /\ UNCHANGED account
  /\ UNCHANGED <<me, handoff, taps>>

(* requestParticipation, once the draft is saved (see Participation).                 *)
Request(w) ==
  /\ me[w] # Unknown /\ ~CanParticipate(w) /\ ~Saving(w) /\ Tap
  /\ \/ Step(me[w]) = "join" /\ StartJoin(w) /\ UNCHANGED handoff
     \/ Step(me[w]) # "join" /\ OpenIdentity(w) /\ UNCHANGED reads
  /\ UNCHANGED <<account, me>>

---------------------------------------------------------------------------
Joins(w) ==
  \/ \E r \in Readers : ProfileArrives(w, r) \/ ProfileFails(w, r) \/ CheckArrives(w, r)
  \/ Return(w) \/ BeginJoin(w) \/ Join(w) \/ Request(w)
Next == (\E w \in Windows : Joins(w)) \/ LinkAccount \/ ChooseUsername

(* What is asked ends, the owner keeps coming back, and a profile asked for again and   *)
(* again arrives.                                                                   *)
Ends(w, r) == ProfileArrives(w, r) \/ ProfileFails(w, r) \/ CheckArrives(w, r)
Fairness == \A w \in Windows :
  /\ WF_vars(Return(w)) /\ WF_vars(Join(w)) /\ SF_vars(ProfileArrives(w, "refresh"))
  /\ \A r \in Readers : WF_vars(Ends(w, r))
Spec == Init /\ [][Next]_vars /\ Fairness

---------------------------------------------------------------------------
Profiles == [linked : BOOLEAN, named : BOOLEAN, joined : BOOLEAN,
             reg : {"unread", "none", "not_joined", "registered", "missing", "unavailable"}]
(* What a window believes was so once: no read invents a membership.                  *)
TypeOK ==
  /\ account \in Accounts /\ me \in [Windows -> Profiles] /\ handoff \in [Windows -> BOOLEAN] /\ taps \in 0..Taps
  /\ account.named => account.linked
  /\ \A w \in Windows : me[w].reg = "registered" => account.listed

(* The username a newcomer chooses in the account's own app, every window comes to     *)
(* know, whichever reads fail or answer late: the notice does not send the owner away    *)
(* a second time. Nor is an owner who joined left as a newcomer, the answer of the join  *)
(* lost or an older profile shown over it.                                             *)
Behind(w) == account.named /\ ~(IF account.joined THEN me[w].joined ELSE me[w].named)
AccountIsSeen == \A w \in Windows : []<>~Behind(w)
=============================================================================
