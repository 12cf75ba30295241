------------------------ MODULE DirectMessagesProofs ------------------------
(* What TLAPS proves of DirectMessages, for any two hosts, messages, texts,      *)
(* requests and bound on faults: an attempt at a time, deliveries that arrived,   *)
(* consent, exact counters, and what no step undoes.                             *)
EXTENDS DirectMessages, FiniteSetTheorems, TLAPS

---------------------------------------------------------------------------
(* The peer's copy of a message. It reached the peer when that copy is stored,    *)
(* or when the peer's owner has blocked the author, who is told nothing of it.    *)
Copy(m) == file[Peer(Author[m])][m]
Reached(m) == Copy(m).dir = "in" \/ conv[Peer(Author[m])].state = "blocked"

(* The author's record: empty or his own, leased only while it is being sent.     *)
OwnSound(m) ==
  /\ Own(m).dir \in {"none", "out"}
  /\ Own(m).dir = "none" => Own(m) = NoRecord
  /\ Own(m).dir = "out" => Own(m).text \in Texts /\ conv[Author[m]].state = "accepted"
  /\ Own(m).leased => Own(m).status = "sending"
  /\ Own(m).status = "delivered" => Reached(m)

(* The peer's copy is of a saved message and has its text.                       *)
CopySound(m) ==
  /\ Copy(m).dir \in {"none", "in"}
  /\ Copy(m).dir = "in" => Own(m).dir = "out" /\ Copy(m).text = Own(m).text

(* What a request has done before its step. In an attempt it holds the lease, and *)
(* agrees with the record on whether the message is encrypted.                    *)
RequestSound(r) ==
  LET m == request[r].msg IN
  /\ request[r].step = "persist" =>
       request[r].text \in Texts /\ conv[Author[m]].state = "accepted"
  /\ request[r].step \in {"begin"} \cup AttemptSteps => Own(m).dir = "out"
  /\ request[r].step \in AttemptSteps =>
       /\ Own(m).leased /\ Own(m).attempt = request[r].attempt
       /\ Own(m).encrypted = request[r].encrypts
  /\ request[r].status = "delivered" => Reached(m)

(* What is in flight tells the truth of what its sender still holds.              *)
FlightSound ==
  /\ \A e \in wire : Own(e.msg).dir = "out" /\ e.text = Own(e.msg).text
  /\ \A reply \in replies : reply.ok => Reached(reply.msg)
  /\ \A m \in sealed : Own(m).encrypted

(* What the counters of a host must count.                                       *)
CountSound(h) ==
  /\ IsFiniteSet(fresh[h])
  /\ \A m \in fresh[h] \cup torn[h] : file[h][m].dir # "none"
  /\ LET counted == Cardinality(fresh[h] \ torn[h]) IN
     /\ conv[h].state = "none" => conv[h].unread = 0 /\ conv[h].requests = 0 /\ counted = 0
     /\ conv[h].state = "accepted" => conv[h].unread = counted
     /\ conv[h].state = "pending" => conv[h].requests = counted /\ conv[h].unread = 0

RecordsSound == \A m \in Messages : OwnSound(m) /\ CopySound(m)
RequestsSound == \A r \in Requests : RequestSound(r)
CountsSound == \A h \in Hosts : CountSound(h)

IInv == /\ TypeOK /\ RecordsSound /\ RequestsSound /\ OneAttemptAtATime
        /\ FlightSound /\ CountsSound

---------------------------------------------------------------------------
(* The two hosts, and where a change of one record leaves the others.             *)

LEMMA PeerDiffers ==
  ASSUME NEW h \in Hosts
  PROVE  Peer(h) \in Hosts /\ Peer(h) # h
<1>1. \E g \in Hosts : g # h
  <2>1. SUFFICES ASSUME \A g \in Hosts : g = h PROVE FALSE
    OBVIOUS
  <2>2. Hosts = {h}
    BY <2>1
  <2>3. Cardinality({h}) = 1
    BY FS_Singleton
  <2>4. QED
    BY <2>2, <2>3, DirectAssumption
<1>2. QED
  BY <1>1 DEF Peer

LEMMA EndsOfMessage ==
  ASSUME NEW m \in Messages
  PROVE  /\ Author[m] \in Hosts /\ Peer(Author[m]) \in Hosts
         /\ Peer(Author[m]) # Author[m]
BY PeerDiffers, DirectAssumption

LEMMA RecordsTyped ==
  ASSUME TypeOK, NEW m \in Messages
  PROVE  Own(m) \in Record /\ Copy(m) \in Record
BY EndsOfMessage DEF TypeOK, Own, Copy

LEMMA NoRecordTyped == NoRecord \in Record
BY DEF NoRecord, Record, NoAttempt

LEMMA QuietTyped ==
  ASSUME NEW m \in Messages
  PROVE  /\ Quiet(m).step = "idle" /\ Quiet(m).msg = m /\ Quiet(m).status = "failed"
         /\ Quiet(m).text = NoText /\ Quiet(m).attempt = 0 /\ Quiet(m).encrypts = FALSE
BY DEF Quiet, NoAttempt

LEMMA IdleIs == Idle.step = "idle" /\ Idle.status = "failed" /\ Idle.msg \in Messages
BY DirectAssumption DEF Idle, Quiet

\* The author saves a record: nothing else of any file changes.
LEMMA OwnSaved ==
  ASSUME TypeOK, NEW m \in Messages, NEW record \in Record, SetOwn(m, record)
  PROVE  /\ file' \in [Hosts -> [Messages -> Record]]
         /\ Own(m)' = record
         /\ \A n \in Messages : n # m => Own(n)' = Own(n)
         /\ \A n \in Messages : Copy(n)' = Copy(n)
         /\ \A h \in Hosts, n \in Messages :
              h # Author[m] \/ n # m => file'[h][n] = file[h][n]
BY EndsOfMessage DEF TypeOK, SetOwn, Own, Copy

\* The peer stores a message: nothing else of any file changes.
LEMMA CopySaved ==
  ASSUME TypeOK, NEW e \in [msg : Messages, text : Texts, sealed : BOOLEAN, attempt : Nat],
         SaveIncoming(e)
  PROVE  /\ file' \in [Hosts -> [Messages -> Record]]
         /\ Copy(e.msg)'.dir = "in" /\ Copy(e.msg)'.text = e.text
         /\ \A n \in Messages : n # e.msg => Copy(n)' = Copy(n)
         /\ \A n \in Messages : Own(n)' = Own(n)
         /\ \A h \in Hosts, n \in Messages :
              h # Receiver(e) \/ n # e.msg => file'[h][n] = file[h][n]
<1> DEFINE rec == [NoRecord EXCEPT !.dir = "in", !.text = e.text, !.status = "delivered",
                                   !.encrypted = e.sealed]
<1>1. rec \in Record /\ rec.dir = "in" /\ rec.text = e.text
  BY NoRecordTyped DEF Record, NoRecord
<1>2. e.msg \in Messages
  OBVIOUS
<1> HIDE DEF rec
<1>3. file' = [file EXCEPT ![Receiver(e)][e.msg] = rec]
  BY DEF rec, SaveIncoming
<1>4. Receiver(e) \in Hosts /\ Receiver(e) # Author[e.msg] /\ Receiver(e) = Peer(Author[e.msg])
  BY <1>2, EndsOfMessage DEF Receiver
<1>5. file' \in [Hosts -> [Messages -> Record]]
  BY <1>1, <1>2, <1>3, <1>4 DEF TypeOK
<1>6. \A h \in Hosts, n \in Messages :
        file'[h][n] = IF h = Receiver(e) /\ n = e.msg THEN rec ELSE file[h][n]
  BY <1>2, <1>3, <1>4 DEF TypeOK
<1>7. \A n \in Messages : Author[n] = Receiver(e) => n # e.msg
  BY <1>4
<1>8. \A n \in Messages : Own(n)' = Own(n)
  BY <1>6, <1>7, EndsOfMessage DEF Own
<1>9. \A n \in Messages : n # e.msg => Copy(n)' = Copy(n)
  BY <1>6, EndsOfMessage DEF Copy
<1>10. Copy(e.msg)' = rec
  BY <1>2, <1>4, <1>6 DEF Copy
<1>11. QED
  BY <1>1, <1>5, <1>6, <1>8, <1>9, <1>10

---------------------------------------------------------------------------
(* A request moves. *)

RequestType ==
  [step : {"idle", "persist", "begin"} \cup AttemptSteps, msg : Messages,
   text : Texts \cup {NoText}, attempt : Nat, encrypts : BOOLEAN,
   status : {"failed", "delivered"}]

LEMMA RequestSet ==
  ASSUME TypeOK, NEW r \in Requests, NEW update \in RequestType, Set(r, update)
  PROVE  /\ request' \in [Requests -> RequestType] /\ request'[r] = update
         /\ \A q \in Requests : q # r => request'[q] = request[q]
BY DEF TypeOK, Set, RequestType

LEMMA RequestTyped ==
  ASSUME TypeOK, NEW r \in Requests
  PROVE  request[r] \in RequestType /\ request[r].msg \in Messages
BY DEF TypeOK, RequestType

LEMMA IdleTyped == Idle \in RequestType
BY DirectAssumption DEF Idle, Quiet, RequestType, NoAttempt

LEMMA FaultTyped == faults \in 0..MaxFaults /\ Fault => faults' \in 0..MaxFaults
BY DirectAssumption DEF Fault

\* Who is in an attempt was in it before.
LEMMA AttemptsKept ==
  ASSUME OneAttemptAtATime,
         \A q \in Requests : request'[q].step \in AttemptSteps =>
           request[q].step \in AttemptSteps /\ request'[q].msg = request[q].msg
  PROVE  OneAttemptAtATime'
BY DEF OneAttemptAtATime

\* Steps of one request that save nothing.
LEMMA RequestMoves ==
  ASSUME IInv, NEW r \in Requests,
         UNCHANGED <<file, conv, wire, sealed, fresh, torn>>,
         replies' \subseteq replies, faults' \in 0..MaxFaults,
         NEW update \in RequestType, Set(r, update), RequestSound(r)',
         update.step \in AttemptSteps =>
           request[r].step \in AttemptSteps /\ update.msg = request[r].msg
  PROVE  IInv'
<1> USE DEF IInv
<1>1. /\ request' \in [Requests -> RequestType] /\ request'[r] = update
      /\ \A q \in Requests : q # r => request'[q] = request[q]
  BY RequestSet
<1>2. TypeOK'
  BY <1>1 DEF TypeOK, RequestType
<1>3. \A m \in Messages : Own(m)' = Own(m) /\ Copy(m)' = Copy(m) /\ Reached(m)' = Reached(m)
  BY DEF Own, Copy, Reached
<1>4. RecordsSound'
  BY <1>3 DEF RecordsSound, OwnSound, CopySound
<1>5. RequestsSound'
  <2>1. SUFFICES ASSUME NEW q \in Requests, q # r PROVE RequestSound(q)'
    BY DEF RequestsSound
  <2>2. request'[q] = request[q] /\ request[q].msg \in Messages
    BY <1>1, <2>1, RequestTyped
  <2>3. QED
    BY <1>3, <2>2 DEF RequestsSound, RequestSound
<1>6. OneAttemptAtATime'
  BY <1>1, AttemptsKept
<1>7. FlightSound'
  BY <1>3 DEF FlightSound, TypeOK
<1>8. CountsSound'
  BY DEF CountsSound, CountSound
<1>9. QED
  BY <1>2, <1>4, <1>5, <1>6, <1>7, <1>8

\* A request that stops is sound whatever it did.
LEMMA IdleSound ==
  ASSUME IInv, NEW r \in Requests, Set(r, Idle)
  PROVE  RequestSound(r)'
<1>1. request'[r] = Idle
  BY RequestSet, IdleTyped DEF IInv
<1>2. QED
  BY <1>1, IdleIs DEF RequestSound, AttemptSteps

LEMMA StopsKeeps ==
  ASSUME IInv, NEW r \in Requests, Set(r, Idle), faults' \in 0..MaxFaults,
         UNCHANGED <<file, conv, wire, replies, sealed, fresh, torn>>
  PROVE  IInv'
BY RequestMoves, IdleSound, IdleTyped, IdleIs DEF AttemptSteps

\* A request in an attempt goes to another step of it and remembers the same.
LEMMA GoesOn ==
  ASSUME IInv, NEW r \in Requests, NEW s \in AttemptSteps,
         request[r].step \in AttemptSteps,
         Set(r, [request[r] EXCEPT !.step = s]), faults' \in 0..MaxFaults,
         UNCHANGED <<file, conv, wire, replies, sealed, fresh, torn>>
  PROVE  IInv'
<1> DEFINE u == [request[r] EXCEPT !.step = s]
<1>1. /\ u \in RequestType /\ u.step = s /\ u.msg = request[r].msg
      /\ u.attempt = request[r].attempt /\ u.encrypts = request[r].encrypts
      /\ u.status = request[r].status
  BY RequestTyped DEF IInv, RequestType
<1> HIDE DEF u
<1>2. Set(r, u)
  BY DEF u
<1>3. request'[r] = u
  BY <1>1, <1>2, RequestSet DEF IInv
<1>4. RequestSound(r)
  BY DEF IInv, RequestsSound
<1>5. request[r].msg \in Messages
  BY RequestTyped DEF IInv
<1>6. \A m \in Messages : Own(m)' = Own(m) /\ Reached(m)' = Reached(m)
  BY DEF Own, Copy, Reached
<1>7. RequestSound(r)'
  BY <1>1, <1>3, <1>4, <1>5, <1>6 DEF RequestSound, AttemptSteps
<1>8. QED
  BY <1>1, <1>2, <1>7, RequestMoves

LEMMA KeepRetry ==
  ASSUME IInv, NEW r \in Requests, NEW m \in Messages, Retry(r, m)
  PROVE  IInv'
<1> DEFINE u == [Quiet(m) EXCEPT !.step = "begin"]
<1>1. u \in RequestType /\ u.step = "begin" /\ u.msg = m /\ u.status = "failed"
  BY DEF Quiet, RequestType, NoAttempt
<1>2. Set(r, u) /\ Own(m).dir = "out" /\ UNCHANGED <<file, conv, wire, replies, faults, history>>
  BY DEF Retry
<1> HIDE DEF u
<1>3. request'[r] = u
  BY <1>1, <1>2, RequestSet DEF IInv
<1>4. Own(m)' = Own(m)
  BY <1>2 DEF Own
<1>5. RequestSound(r)'
  BY <1>1, <1>2, <1>3, <1>4 DEF RequestSound, AttemptSteps
<1>6. faults' \in 0..MaxFaults
  BY <1>2 DEF IInv, TypeOK
<1>7. QED
  BY <1>1, <1>2, <1>5, <1>6, RequestMoves DEF history, AttemptSteps

LEMMA KeepClaimRefused ==
  ASSUME IInv, NEW r \in Requests, ClaimRefused(r)
  PROVE  IInv'
BY StopsKeeps DEF ClaimRefused, history, IInv, TypeOK

LEMMA KeepCrash ==
  ASSUME IInv, NEW r \in Requests, Crash(r)
  PROVE  IInv'
BY StopsKeeps, FaultTyped DEF Crash, history, IInv, TypeOK

LEMMA KeepDiscover ==
  ASSUME IInv, NEW r \in Requests, Discover(r)
  PROVE  IInv'
<1>1. \E s \in AttemptSteps : Set(r, [request[r] EXCEPT !.step = s])
  BY DEF Discover, AttemptSteps
<1>2. QED
  BY <1>1, GoesOn DEF Discover, history, AttemptSteps, IInv, TypeOK

LEMMA KeepDiscoveryFails ==
  ASSUME IInv, NEW r \in Requests, DiscoveryFails(r)
  PROVE  IInv'
<1>1. "finish" \in AttemptSteps /\ "discover" \in AttemptSteps
  BY DEF AttemptSteps
<1>2. faults' \in 0..MaxFaults
  BY FaultTyped DEF DiscoveryFails, IInv, TypeOK
<1>3. QED
  BY <1>1, <1>2, GoesOn DEF DiscoveryFails, history

LEMMA KeepTimeOut ==
  ASSUME IInv, NEW r \in Requests, TimeOut(r)
  PROVE  IInv'
<1>1. "finish" \in AttemptSteps /\ "await" \in AttemptSteps
  BY DEF AttemptSteps
<1>2. faults' \in 0..MaxFaults
  BY FaultTyped DEF TimeOut, IInv, TypeOK
<1>3. QED
  BY <1>1, <1>2, GoesOn DEF TimeOut, history

\* What the answer says is so: the message reached the peer.
LEMMA KeepReadReply ==
  ASSUME IInv, NEW r \in Requests, ReadReply(r)
  PROVE  IInv'
<1>1. PICK reply \in replies :
        /\ Answered(r, reply)
        /\ replies' = replies \ {reply}
        /\ Set(r, [request[r] EXCEPT !.step = "finish",
                                     !.status = IF reply.ok THEN "delivered" ELSE "failed"])
  BY DEF ReadReply
<1> DEFINE u == [request[r] EXCEPT !.step = "finish",
                                   !.status = IF reply.ok THEN "delivered" ELSE "failed"]
<1>2. /\ u \in RequestType /\ u.step = "finish" /\ u.msg = request[r].msg
      /\ u.attempt = request[r].attempt /\ u.encrypts = request[r].encrypts
      /\ u.status = "delivered" => reply.ok
  BY RequestTyped DEF IInv, RequestType, AttemptSteps
<1>3. Set(r, u) /\ UNCHANGED <<file, conv, wire, faults, sealed, fresh, torn>>
  BY <1>1 DEF ReadReply, history
<1> HIDE DEF u
<1>4. request'[r] = u
  BY <1>2, <1>3, RequestSet DEF IInv
<1>5. RequestSound(r) /\ request[r].step \in AttemptSteps
  BY DEF IInv, RequestsSound, ReadReply, AttemptSteps
<1>6. reply.ok => Reached(request[r].msg)
  BY <1>1 DEF Answered, IInv, FlightSound
<1>7. request[r].msg \in Messages
  BY RequestTyped DEF IInv
<1>8. \A m \in Messages : Own(m)' = Own(m) /\ Reached(m)' = Reached(m)
  BY <1>3 DEF Own, Copy, Reached
<1>9. RequestSound(r)'
  BY <1>2, <1>4, <1>5, <1>6, <1>7, <1>8 DEF RequestSound, AttemptSteps
<1>10. faults' \in 0..MaxFaults
  BY <1>3 DEF IInv, TypeOK
<1>11. QED
  BY <1>1, <1>2, <1>3, <1>5, <1>9, <1>10, RequestMoves

---------------------------------------------------------------------------
(* The author saves his record: his copy only gains, and no other request is in   *)
(* an attempt of that message.                                                   *)

Gains(m, record) ==
  /\ record.dir = "out" /\ record.text \in Texts
  /\ Own(m).dir = "out" => record.text = Own(m).text
  /\ Own(m).encrypted => record.encrypted
  /\ record.leased => record.status = "sending"
  /\ record.status = "delivered" => Reached(m)
  /\ conv[Author[m]].state = "accepted"

LEMMA OwnGains ==
  ASSUME IInv, NEW m \in Messages, NEW record \in Record, SetOwn(m, record),
         Gains(m, record), UNCHANGED <<conv, wire, replies, faults, sealed, fresh, torn>>,
         request' \in [Requests -> RequestType],
         \A q \in Requests :
           \/ RequestSound(q)'
           \/ /\ request'[q] = request[q]
              /\ request[q].msg = m => request[q].step \notin AttemptSteps,
         OneAttemptAtATime'
  PROVE  IInv'
<1> USE DEF IInv
<1>1. /\ file' \in [Hosts -> [Messages -> Record]]
      /\ Own(m)' = record
      /\ \A n \in Messages : n # m => Own(n)' = Own(n)
      /\ \A n \in Messages : Copy(n)' = Copy(n)
      /\ \A h \in Hosts, n \in Messages :
           h # Author[m] \/ n # m => file'[h][n] = file[h][n]
  BY OwnSaved
<1>2. TypeOK'
  BY <1>1 DEF TypeOK, RequestType
<1>3. \A n \in Messages : Reached(n)' = Reached(n)
  BY <1>1 DEF Reached
<1>4. \A n \in Messages : OwnSound(n) /\ CopySound(n)
  BY DEF RecordsSound
<1>5. \A n \in Messages : n # m => OwnSound(n)' /\ CopySound(n)'
  BY <1>1, <1>3, <1>4 DEF OwnSound, CopySound
<1>6. OwnSound(m)' /\ CopySound(m)'
  <2>1. OwnSound(m)'
    BY <1>1, <1>3 DEF OwnSound, Gains
  <2>2. Copy(m).dir = "in" => Own(m).dir = "out" /\ record.text = Own(m).text
    BY <1>4 DEF CopySound, Gains
  <2>3. CopySound(m)'
    BY <1>1, <1>4, <2>2 DEF CopySound, Gains
  <2>4. QED
    BY <2>1, <2>3
<1>7. RecordsSound'
  BY <1>5, <1>6 DEF RecordsSound
<1>8. RequestsSound'
  <2>1. SUFFICES ASSUME NEW q \in Requests, request'[q] = request[q],
                        request[q].msg = m => request[q].step \notin AttemptSteps
                 PROVE  RequestSound(q)'
    BY DEF RequestsSound
  <2>2. request[q].msg \in Messages /\ RequestSound(q)
    BY RequestTyped DEF RequestsSound
  <2>3. CASE request[q].msg = m
    BY <1>1, <1>3, <2>1, <2>2, <2>3 DEF RequestSound, Gains
  <2>4. CASE request[q].msg # m
    BY <1>1, <1>3, <2>1, <2>2, <2>4 DEF RequestSound
  <2>5. QED
    BY <2>3, <2>4
<1>9. FlightSound'
  <2>1. \A e \in wire : e.msg \in Messages
    BY DEF TypeOK
  <2>2. \A n \in Messages : Own(n).dir = "out" =>
          Own(n)'.dir = "out" /\ Own(n)'.text = Own(n).text
    BY <1>1 DEF Gains
  <2>3. \A n \in Messages : Own(n).encrypted => Own(n)'.encrypted
    BY <1>1 DEF Gains
  <2>4. \A reply \in replies : reply.msg \in Messages
    BY DEF TypeOK
  <2>5. \A n \in sealed : n \in Messages
    BY DEF TypeOK
  <2>6. \A e \in wire' : Own(e.msg)'.dir = "out" /\ e.text = Own(e.msg)'.text
    BY <2>1, <2>2 DEF FlightSound
  <2>7. \A reply \in replies' : reply.ok => Reached(reply.msg)'
    BY <1>3, <2>4 DEF FlightSound
  <2>8. \A n \in sealed' : Own(n)'.encrypted
    BY <2>3, <2>5 DEF FlightSound
  <2>9. QED
    BY <2>6, <2>7, <2>8 DEF FlightSound
<1>10. CountsSound'
  <2>1. \A h \in Hosts, n \in Messages : file[h][n].dir # "none" => file'[h][n].dir # "none"
    BY <1>1 DEF Gains, Own
  <2>2. SUFFICES ASSUME NEW h \in Hosts PROVE CountSound(h)'
    BY DEF CountsSound
  <2>3. CountSound(h) /\ fresh[h] \cup torn[h] \subseteq Messages
    BY DEF CountsSound, TypeOK
  <2>4. QED
    BY <2>1, <2>3 DEF CountSound
<1>11. QED
  BY <1>2, <1>7, <1>8, <1>9, <1>10

\* The same id again is the same message, or a conflict that ends the request.
LEMMA KeepPersist ==
  ASSUME IInv, NEW r \in Requests, Persist(r)
  PROVE  IInv'
<1>0. PICK m \in Messages : m = request[r].msg
  BY RequestTyped DEF IInv
<1> DEFINE u == [request[r] EXCEPT !.step = "begin"]
           record == [NoRecord EXCEPT !.dir = "out", !.text = request[r].text,
                                      !.status = "sending"]
<1>1. /\ m \in Messages /\ request[r].step = "persist" /\ RequestSound(r)
      /\ request[r] \in RequestType /\ OwnSound(m) /\ Own(m) \in Record
  BY <1>0, RequestTyped, RecordsTyped DEF IInv, RequestsSound, RecordsSound, Persist
<1>2. /\ u \in RequestType /\ u.step = "begin" /\ u.msg = m
      /\ u.status = request[r].status
  BY <1>0, <1>1 DEF RequestType
<1>3. UNCHANGED <<conv, wire, replies, faults, sealed, fresh, torn>>
  BY <1>0 DEF Persist, history
<1>4. faults' \in 0..MaxFaults
  BY <1>0, <1>3 DEF IInv, TypeOK
<1>5. CASE Own(m).dir = "none" /\ SetOwn(m, record) /\ Set(r, u)
  <2>1. /\ record \in Record /\ record.dir = "out" /\ record.text \in Texts
        /\ record.leased = FALSE /\ record.status = "sending"
    BY <1>0, <1>1, NoRecordTyped DEF RequestSound, Record, NoRecord
  <2>2. Own(m).encrypted = FALSE
    BY <1>0, <1>1, <1>5 DEF OwnSound, NoRecord
  <2>3. Gains(m, record)
    BY <1>0, <1>1, <1>5, <2>1, <2>2 DEF Gains, RequestSound
  <2> HIDE DEF record, u
  <2>4. /\ request' \in [Requests -> RequestType] /\ request'[r] = u
        /\ \A q \in Requests : q # r => request'[q] = request[q]
    BY <1>0, <1>2, <1>5, RequestSet DEF IInv
  <2>5. \A q \in Requests : request[q].msg = m => request[q].step \notin AttemptSteps
    BY <1>0, <1>5 DEF IInv, RequestsSound, RequestSound
  <2>6. Own(m)' = record /\ \A n \in Messages : Copy(n)' = Copy(n)
    BY <1>0, <1>1, <1>5, <2>1, OwnSaved DEF IInv
  <2>7. RequestSound(r)'
    BY <1>0, <1>1, <1>2, <1>3, <2>1, <2>4, <2>6 DEF RequestSound, AttemptSteps, Reached
  <2>8. OneAttemptAtATime'
    BY <1>0, <1>2, <2>4, AttemptsKept DEF IInv, AttemptSteps
  <2>9. QED
    BY <1>0, <1>1, <1>3, <1>5, <2>1, <2>3, <2>4, <2>5, <2>7, <2>8, OwnGains
<1>6. CASE Own(m).dir # "none" /\ Set(r, u) /\ UNCHANGED file
  <2> HIDE DEF u
  <2>1. request'[r] = u
    BY <1>0, <1>2, <1>6, RequestSet DEF IInv
  <2>2. Own(m)' = Own(m) /\ Reached(m)' = Reached(m)
    BY <1>0, <1>3, <1>6 DEF Own, Copy, Reached
  <2>3. RequestSound(r)'
    BY <1>0, <1>1, <1>2, <1>6, <2>1, <2>2 DEF RequestSound, OwnSound, AttemptSteps
  <2>4. QED
    BY <1>0, <1>2, <1>3, <1>4, <1>6, <2>3, RequestMoves DEF AttemptSteps
<1>7. CASE Set(r, Idle) /\ UNCHANGED file
  BY <1>0, <1>3, <1>4, <1>7, StopsKeeps
<1>8. QED
  BY <1>0, <1>5, <1>6, <1>7 DEF Persist

\* Who claims a message finds no attempt under way: it would hold the lease.
LEMMA KeepClaimAttempt ==
  ASSUME IInv, NEW r \in Requests, ClaimAttempt(r)
  PROVE  IInv'
<1>0. PICK m \in Messages : m = request[r].msg
  BY RequestTyped DEF IInv
<1> DEFINE next == Own(m).attempts + 1
           u == [request[r] EXCEPT !.step = "discover", !.attempt = next,
                                   !.encrypts = Own(m).encrypted]
           record == [Own(m) EXCEPT !.status = "sending", !.attempt = next,
                                    !.attempts = next, !.leased = TRUE]
<1>1. /\ m \in Messages /\ request[r].step = "begin" /\ RequestSound(r)
      /\ request[r] \in RequestType /\ OwnSound(m) /\ Own(m) \in Record /\ ~Own(m).leased
  BY <1>0, RequestTyped, RecordsTyped DEF IInv, RequestsSound, RecordsSound, ClaimAttempt, CanClaim
<1>2. UNCHANGED <<conv, wire, replies, faults, sealed, fresh, torn>>
  BY <1>0 DEF ClaimAttempt, history
<1>3. next \in Nat
  BY <1>1 DEF Record
<1> HIDE DEF next
<1>4. /\ record \in Record /\ record.dir = Own(m).dir /\ record.text = Own(m).text
      /\ record.leased = TRUE /\ record.status = "sending" /\ record.attempt = next
      /\ record.encrypted = Own(m).encrypted
  BY <1>1, <1>3 DEF Record
<1>5. /\ u \in RequestType /\ u.step = "discover" /\ u.msg = m /\ u.attempt = next
      /\ u.status = request[r].status /\ u.encrypts = Own(m).encrypted
  BY <1>0, <1>1, <1>3 DEF RequestType, Record, AttemptSteps
<1>6. SetOwn(m, record) /\ Set(r, u)
  BY <1>0 DEF ClaimAttempt, next
<1> HIDE DEF u, record
<1>7. Gains(m, record)
  BY <1>0, <1>1, <1>4 DEF Gains, OwnSound, RequestSound
<1>8. /\ request' \in [Requests -> RequestType] /\ request'[r] = u
      /\ \A q \in Requests : q # r => request'[q] = request[q]
  BY <1>0, <1>5, <1>6, RequestSet DEF IInv
<1>9. \A q \in Requests : request[q].msg = m => request[q].step \notin AttemptSteps
  BY <1>0, <1>1 DEF IInv, RequestsSound, RequestSound
<1>10. Own(m)' = record /\ \A n \in Messages : Copy(n)' = Copy(n)
  BY <1>0, <1>1, <1>4, <1>6, OwnSaved DEF IInv
<1>11. RequestSound(r)'
  BY <1>0, <1>1, <1>2, <1>4, <1>5, <1>8, <1>10 DEF RequestSound, AttemptSteps, Reached
<1>12. OneAttemptAtATime'
  BY <1>0, <1>5, <1>8, <1>9 DEF IInv, OneAttemptAtATime
<1>13. QED
  BY <1>0, <1>1, <1>2, <1>4, <1>6, <1>7, <1>8, <1>9, <1>11, <1>12, OwnGains

\* The record of an attempt belongs to the request in it until that request ends.
LEMMA AttemptIsOwn ==
  ASSUME IInv, NEW r \in Requests, request[r].step \in AttemptSteps
  PROVE  /\ Own(request[r].msg).leased /\ Own(request[r].msg).dir = "out"
         /\ OwnsAttempt(r)
         /\ Own(request[r].msg).encrypted = request[r].encrypts
         /\ \A q \in Requests : q # r /\ request[q].msg = request[r].msg
              => request[q].step \notin AttemptSteps
BY DEF IInv, RequestsSound, RequestSound, OwnsAttempt, OneAttemptAtATime

LEMMA KeepRequireEncrypted ==
  ASSUME IInv, NEW r \in Requests, RequireEncrypted(r)
  PROVE  IInv'
<1>0. PICK m \in Messages : m = request[r].msg
  BY RequestTyped DEF IInv
<1> DEFINE u == [request[r] EXCEPT !.step = "post", !.encrypts = TRUE]
           record == [Own(m) EXCEPT !.encrypted = TRUE]
<1>1. /\ m \in Messages /\ request[r].step = "policy" /\ RequestSound(r)
      /\ request[r] \in RequestType /\ OwnSound(m) /\ Own(m) \in Record
  BY <1>0, RequestTyped, RecordsTyped DEF IInv, RequestsSound, RecordsSound, RequireEncrypted
<1>2. UNCHANGED <<conv, wire, replies, faults, sealed, fresh, torn>>
  BY <1>0 DEF RequireEncrypted, history
<1>3. request[r].step \in AttemptSteps
  BY <1>0, <1>1 DEF AttemptSteps
<1>4. SetOwn(m, record) /\ Set(r, u)
  BY <1>0, <1>3, AttemptIsOwn DEF RequireEncrypted, OwnsAttempt
<1>5. /\ record \in Record /\ record.dir = Own(m).dir /\ record.text = Own(m).text
      /\ record.leased = Own(m).leased /\ record.status = Own(m).status
      /\ record.attempt = Own(m).attempt /\ record.encrypted = TRUE
  BY <1>0, <1>1 DEF Record
<1>6. /\ u \in RequestType /\ u.step = "post" /\ u.msg = m /\ u.attempt = request[r].attempt
      /\ u.status = request[r].status /\ u.encrypts = TRUE
  BY <1>0, <1>1 DEF RequestType, AttemptSteps
<1> HIDE DEF u, record
<1>7. Gains(m, record)
  BY <1>0, <1>1, <1>3, <1>5, AttemptIsOwn DEF Gains, OwnSound
<1>8. /\ request' \in [Requests -> RequestType] /\ request'[r] = u
      /\ \A q \in Requests : q # r => request'[q] = request[q]
  BY <1>0, <1>4, <1>6, RequestSet DEF IInv
<1>9. Own(m)' = record /\ \A n \in Messages : Copy(n)' = Copy(n)
  BY <1>0, <1>1, <1>4, <1>5, OwnSaved DEF IInv
<1>10. RequestSound(r)'
  BY <1>0, <1>1, <1>2, <1>3, <1>5, <1>6, <1>8, <1>9, ZenonT(60) DEF RequestSound, AttemptSteps, Reached
<1>11. OneAttemptAtATime'
  BY <1>0, <1>3, <1>6, <1>8, AttemptsKept DEF IInv
<1>12. QED
  BY <1>0, <1>1, <1>2, <1>3, <1>4, <1>5, <1>7, <1>8, <1>10, <1>11, OwnGains, AttemptIsOwn

LEMMA KeepFinish ==
  ASSUME IInv, NEW r \in Requests, Finish(r)
  PROVE  IInv'
<1>0. PICK m \in Messages : m = request[r].msg
  BY RequestTyped DEF IInv
<1> DEFINE record == Settled(Own(m), r)
<1>1. /\ m \in Messages /\ request[r].step = "finish" /\ RequestSound(r)
      /\ request[r] \in RequestType /\ OwnSound(m) /\ Own(m) \in Record
  BY <1>0, RequestTyped, RecordsTyped DEF IInv, RequestsSound, RecordsSound, Finish
<1>2. UNCHANGED <<conv, wire, replies, faults, sealed, fresh, torn>>
  BY <1>0 DEF Finish, history
<1>3. request[r].step \in AttemptSteps
  BY <1>0, <1>1 DEF AttemptSteps
<1>4. SetOwn(m, record) /\ Set(r, Idle)
  BY <1>0, <1>3, AttemptIsOwn DEF Finish
<1>5. /\ record \in Record /\ record.dir = Own(m).dir /\ record.text = Own(m).text
      /\ record.leased = FALSE /\ record.status = request[r].status
      /\ Own(m).encrypted => record.encrypted
  BY <1>0, <1>1 DEF Record, RequestType, Settled, NoAttempt
<1> HIDE DEF record
<1>6. Gains(m, record)
  BY <1>0, <1>1, <1>3, <1>5, AttemptIsOwn DEF Gains, OwnSound, RequestSound
<1>7. /\ request' \in [Requests -> RequestType] /\ request'[r] = Idle
      /\ \A q \in Requests : q # r => request'[q] = request[q]
  BY <1>0, <1>4, RequestSet, IdleTyped DEF IInv
<1>8. RequestSound(r)'
  BY <1>0, <1>4, IdleSound
<1>9. OneAttemptAtATime'
  BY <1>0, <1>7, IdleIs, AttemptsKept DEF IInv, AttemptSteps
<1>10. QED
  BY <1>0, <1>1, <1>2, <1>3, <1>4, <1>5, <1>6, <1>7, <1>8, <1>9, OwnGains, AttemptIsOwn

LEMMA KeepLeaseExpires ==
  ASSUME IInv, NEW m \in Messages, LeaseExpires(m)
  PROVE  IInv'
<1> DEFINE record == [Own(m) EXCEPT !.leased = FALSE]
<1>1. OwnSound(m) /\ Own(m) \in Record /\ Own(m).leased
  BY RecordsTyped DEF IInv, RecordsSound, LeaseExpires
<1>2. UNCHANGED <<conv, request, wire, replies, faults, sealed, fresh, torn>> /\ SetOwn(m, record)
  BY DEF LeaseExpires, history
<1>3. /\ record \in Record /\ record.dir = Own(m).dir /\ record.text = Own(m).text
      /\ record.leased = FALSE /\ record.status = Own(m).status
      /\ record.encrypted = Own(m).encrypted
  BY <1>1 DEF Record
<1> HIDE DEF record
<1>4. Own(m).dir = "out"
  BY <1>1 DEF OwnSound, NoRecord
<1>5. Gains(m, record)
  BY <1>1, <1>3, <1>4 DEF Gains, OwnSound
<1>6. \A q \in Requests : request[q].msg = m => request[q].step \notin AttemptSteps
  BY DEF IInv, RequestsSound, RequestSound, LeaseExpires
<1>7. request' \in [Requests -> RequestType] /\ OneAttemptAtATime'
  BY <1>2 DEF IInv, TypeOK, RequestType, OneAttemptAtATime
<1>8. QED
  BY <1>2, <1>3, <1>5, <1>6, <1>7, OwnGains

---------------------------------------------------------------------------
(* Steps that change no record of an author. What was stored and what was decided *)
(* stays, so every message that reached its peer still has.                       *)

StatesStay ==
  \A h \in Hosts, s \in {"accepted", "blocked"} : conv[h].state = s => conv[h]'.state = s
CopiesGain ==
  \A m \in Messages :
    \/ Copy(m)' = Copy(m)
    \/ /\ Own(m).dir = "out"
       /\ Copy(m)'.dir = "in" /\ Copy(m)'.text = Own(m).text
OwnStay == \A m \in Messages : Own(m)' = Own(m)

LEMMA NothingLost ==
  ASSUME IInv, OwnStay, StatesStay, CopiesGain
  PROVE  /\ RecordsSound'
         /\ \A m \in Messages : Reached(m) => Reached(m)'
         /\ \A r \in Requests : request'[r] = request[r] => RequestSound(r)'
         /\ wire' \subseteq wire /\ replies' \subseteq replies /\ sealed' \subseteq sealed
              => FlightSound'
<1>1. \A m \in Messages : Own(m)' = Own(m)
  BY DEF OwnStay
<1>2. \A m \in Messages : Reached(m) => Reached(m)'
  BY EndsOfMessage DEF Reached, StatesStay, CopiesGain
<1>3. \A m \in Messages : OwnSound(m)'
  BY <1>1, <1>2, EndsOfMessage DEF IInv, RecordsSound, OwnSound, StatesStay
<1>4. \A m \in Messages : CopySound(m)'
  BY <1>1 DEF IInv, RecordsSound, CopySound, CopiesGain
<1>5. ASSUME NEW r \in Requests, request'[r] = request[r] PROVE RequestSound(r)'
  <2>1. request[r].msg \in Messages /\ RequestSound(r) /\ Author[request[r].msg] \in Hosts
    BY RequestTyped, EndsOfMessage DEF IInv, RequestsSound
  <2>2. PICK m \in Messages : m = request[r].msg
    BY <2>1
  <2>3. Own(m)' = Own(m) /\ (Reached(m) => Reached(m)')
    BY <1>1, <1>2
  <2>4. conv[Author[m]].state = "accepted" => conv[Author[m]]'.state = "accepted"
    BY <2>1, <2>2 DEF StatesStay
  <2>5. QED
    BY <1>5, <2>1, <2>2, <2>3, <2>4 DEF RequestSound
<1>6. ASSUME wire' \subseteq wire, replies' \subseteq replies, sealed' \subseteq sealed
      PROVE FlightSound'
  <2>1. \A e \in wire' : e \in wire /\ e.msg \in Messages
    BY <1>6 DEF IInv, TypeOK
  <2>2. \A reply \in replies' : reply \in replies /\ reply.msg \in Messages
    BY <1>6 DEF IInv, TypeOK
  <2>3. \A m \in sealed' : m \in sealed /\ m \in Messages
    BY <1>6 DEF IInv, TypeOK
  <2>4. QED
    BY <1>1, <1>2, <2>1, <2>2, <2>3 DEF FlightSound, IInv
<1>7. QED
  BY <1>2, <1>3, <1>4, <1>5, <1>6 DEF RecordsSound

\* The same id and text leave again; encrypted they leave only when that was saved.
LEMMA KeepPost ==
  ASSUME IInv, NEW r \in Requests, Post(r)
  PROVE  IInv'
<1>0. PICK m \in Messages : m = request[r].msg
  BY RequestTyped DEF IInv
<1> DEFINE u == [request[r] EXCEPT !.step = "await"]
           e == [msg |-> m, text |-> Own(m).text, sealed |-> request[r].encrypts,
                 attempt |-> request[r].attempt]
<1>1. /\ request[r] \in RequestType /\ request[r].step \in AttemptSteps
      /\ OwnSound(m) /\ RequestSound(r)
  BY <1>0, RequestTyped DEF IInv, RequestsSound, RecordsSound, Post, AttemptSteps
<1>2. /\ wire' = wire \cup {e} /\ Set(r, u)
      /\ UNCHANGED <<file, conv, replies, faults, fresh, torn>>
      /\ sealed' = IF request[r].encrypts THEN sealed \cup {m} ELSE sealed
  BY <1>0 DEF Post
<1>3. Own(m).dir = "out" /\ Own(m).text \in Texts /\ Own(m).encrypted = request[r].encrypts
  BY <1>0, <1>1, AttemptIsOwn DEF OwnSound
<1>4. /\ e \in [msg : Messages, text : Texts, sealed : BOOLEAN, attempt : Nat]
      /\ e.msg = m /\ e.text = Own(m).text
  BY <1>1, <1>3 DEF RequestType
<1>5. /\ u \in RequestType /\ u.step = "await" /\ u.msg = m
      /\ u.attempt = request[r].attempt /\ u.status = request[r].status
      /\ u.encrypts = request[r].encrypts
  BY <1>0, <1>1 DEF RequestType, AttemptSteps
<1> HIDE DEF u, e
<1>6. /\ request' \in [Requests -> RequestType] /\ request'[r] = u
      /\ \A q \in Requests : q # r => request'[q] = request[q]
  BY <1>2, <1>5, RequestSet DEF IInv
<1>7. TypeOK'
  BY <1>2, <1>4, <1>6 DEF IInv, TypeOK, RequestType
<1>8. OwnStay /\ StatesStay /\ CopiesGain
  BY <1>2 DEF OwnStay, StatesStay, CopiesGain, Own, Copy
<1>9. RecordsSound' /\ (\A n \in Messages : Reached(n) => Reached(n)')
      /\ \A q \in Requests : q # r => RequestSound(q)'
  BY <1>6, <1>8, NothingLost
<1>10. RequestSound(r)'
  <2>1. Own(m)' = Own(m)
    BY <1>8 DEF OwnStay
  <2>2. QED
    BY <1>0, <1>1, <1>5, <1>6, <1>9, <2>1 DEF RequestSound, AttemptSteps
<1>11. RequestsSound'
  BY <1>9, <1>10 DEF RequestsSound
<1>12. OneAttemptAtATime'
  BY <1>0, <1>1, <1>5, <1>6, AttemptsKept DEF IInv
<1>13. FlightSound'
  <2>1. \A n \in Messages : Own(n)' = Own(n)
    BY <1>8 DEF OwnStay
  <2>2. \A x \in wire' : Own(x.msg)'.dir = "out" /\ x.text = Own(x.msg)'.text
    <3>1. \A x \in wire : x.msg \in Messages
      BY DEF IInv, TypeOK
    <3>2. QED
      BY <1>2, <1>3, <1>4, <2>1, <3>1 DEF IInv, FlightSound
  <2>3. \A reply \in replies' : reply.ok => Reached(reply.msg)'
    BY <1>2, <1>9 DEF IInv, FlightSound, TypeOK
  <2>4. \A n \in sealed' : Own(n)'.encrypted
    BY <1>2, <1>3, <2>1 DEF IInv, FlightSound, TypeOK
  <2>5. QED
    BY <2>2, <2>3, <2>4 DEF FlightSound
<1>14. CountsSound'
  BY <1>2 DEF IInv, CountsSound, CountSound
<1>15. QED
  BY <1>7, <1>9, <1>11, <1>12, <1>13, <1>14 DEF IInv

\* A first message is consent; what the author already has stays.
LEMMA KeepSend ==
  ASSUME IInv, NEW r \in Requests, NEW m \in Messages, NEW t \in Texts, Send(r, m, t)
  PROVE  IInv'
<1> DEFINE u == [Quiet(m) EXCEPT !.step = "persist", !.text = t]
<1>1. /\ conv[Author[m]].state \in {"none", "accepted"} /\ Author[m] \in Hosts
      /\ conv' = [conv EXCEPT ![Author[m]].state = "accepted"]
      /\ Set(r, u) /\ UNCHANGED <<file, wire, replies, faults, sealed, fresh, torn>>
  BY EndsOfMessage DEF Send, history
<1>2. /\ u \in RequestType /\ u.step = "persist" /\ u.msg = m /\ u.text = t
      /\ u.status = "failed"
  BY DEF Quiet, RequestType, NoAttempt
<1> HIDE DEF u
<1>3. /\ request' \in [Requests -> RequestType] /\ request'[r] = u
      /\ \A q \in Requests : q # r => request'[q] = request[q]
  BY <1>1, <1>2, RequestSet DEF IInv
<1>4. /\ conv' \in [Hosts -> [state : RequestStates \cup {"none"}, unread : Nat, requests : Nat]]
      /\ conv'[Author[m]].state = "accepted"
      /\ \A h \in Hosts : conv'[h].unread = conv[h].unread /\ conv'[h].requests = conv[h].requests
      /\ \A h \in Hosts : h # Author[m] => conv'[h] = conv[h]
  BY <1>1 DEF IInv, TypeOK, RequestStates
<1>5. TypeOK'
  BY <1>1, <1>3, <1>4 DEF IInv, TypeOK, RequestType
<1>6. OwnStay /\ StatesStay /\ CopiesGain
  BY <1>1, <1>4 DEF OwnStay, StatesStay, CopiesGain, Own, Copy
<1>7. RecordsSound' /\ FlightSound' /\ \A q \in Requests : q # r => RequestSound(q)'
  BY <1>1, <1>3, <1>6, NothingLost
<1>8. RequestSound(r)'
  BY <1>2, <1>3, <1>4 DEF RequestSound, AttemptSteps
<1>9. RequestsSound'
  BY <1>7, <1>8 DEF RequestsSound
<1>10. OneAttemptAtATime'
  BY <1>2, <1>3, AttemptsKept DEF IInv, AttemptSteps
<1>11. CountsSound'
  <2>1. SUFFICES ASSUME NEW h \in Hosts PROVE CountSound(h)'
    BY DEF CountsSound
  <2>2. CountSound(h) /\ UNCHANGED <<file, fresh, torn>>
    BY <1>1 DEF IInv, CountsSound
  <2>3. CASE h = Author[m]
    BY <1>1, <1>4, <2>2, <2>3 DEF CountSound
  <2>4. CASE h # Author[m]
    BY <1>4, <2>2, <2>4 DEF CountSound
  <2>5. QED
    BY <2>3, <2>4
<1>12. QED
  BY <1>5, <1>7, <1>9, <1>10, <1>11 DEF IInv

---------------------------------------------------------------------------
(* The peer handles an envelope. *)

Envelope == [msg : Messages, text : Texts, sealed : BOOLEAN, attempt : Nat]
ConvType == [state : RequestStates \cup {"none"}, unread : Nat, requests : Nat]

LEMMA EnvelopeFacts ==
  ASSUME IInv, NEW e \in wire
  PROVE  /\ e \in Envelope /\ e.msg \in Messages
         /\ Own(e.msg).dir = "out" /\ e.text = Own(e.msg).text
         /\ Receiver(e) \in Hosts /\ Receiver(e) = Peer(Author[e.msg])
         /\ Copy(e.msg) = file[Receiver(e)][e.msg]
         /\ Known(e) => Copy(e.msg).dir = "in"
<1>1. e \in Envelope /\ e.msg \in Messages
  BY DEF IInv, TypeOK, Envelope
<1>2. Own(e.msg).dir = "out" /\ e.text = Own(e.msg).text
  BY DEF IInv, FlightSound
<1>3. Receiver(e) \in Hosts /\ Receiver(e) = Peer(Author[e.msg])
  BY <1>1, EndsOfMessage DEF Receiver
<1>4. Copy(e.msg) = file[Receiver(e)][e.msg]
  BY <1>3 DEF Copy
<1>5. Known(e) => Copy(e.msg).dir = "in"
  BY <1>1, <1>4 DEF Known, IInv, RecordsSound, CopySound
<1>6. QED
  BY <1>1, <1>2, <1>3, <1>4, <1>5

LEMMA Handled ==
  ASSUME IInv, NEW e \in wire, wire' = wire \ {e}, UNCHANGED <<request, sealed>>,
         OwnStay, StatesStay, CopiesGain,
         \/ UNCHANGED replies
         \/ \E ok \in BOOLEAN : Answer(e, ok) /\ (ok => Reached(e.msg)'),
         file' \in [Hosts -> [Messages -> Record]], conv' \in [Hosts -> ConvType],
         faults' \in 0..MaxFaults, fresh' \in [Hosts -> SUBSET Messages],
         torn' \in [Hosts -> SUBSET Messages], CountsSound'
  PROVE  IInv'
<1>1. e \in Envelope /\ e.msg \in Messages
  BY EnvelopeFacts
<1>2. replies' \subseteq [msg : Messages, attempt : Nat, ok : BOOLEAN]
  BY <1>1 DEF IInv, TypeOK, Answer, Envelope
<1>3. TypeOK'
  BY <1>2 DEF IInv, TypeOK, ConvType
<1>4. /\ RecordsSound' /\ (\A m \in Messages : Reached(m) => Reached(m)')
      /\ \A r \in Requests : RequestSound(r)'
  BY NothingLost
<1>5. FlightSound'
  <2>1. \A m \in Messages : Own(m)' = Own(m)
    BY DEF OwnStay
  <2>2. \A x \in wire' : Own(x.msg)'.dir = "out" /\ x.text = Own(x.msg)'.text
    BY <2>1 DEF IInv, FlightSound, TypeOK
  <2>3. \A reply \in replies : reply.ok => Reached(reply.msg)'
    BY <1>4 DEF IInv, FlightSound, TypeOK
  <2>4. \A reply \in replies' : reply.ok => Reached(reply.msg)'
    <3>1. CASE UNCHANGED replies
      BY <2>3, <3>1
    <3>2. CASE \E ok \in BOOLEAN : Answer(e, ok) /\ (ok => Reached(e.msg)')
      <4>1. PICK ok \in BOOLEAN : Answer(e, ok) /\ (ok => Reached(e.msg)')
        BY <3>2
      <4>2. replies' = replies \cup {[msg |-> e.msg, attempt |-> e.attempt, ok |-> ok]}
        BY <4>1 DEF Answer
      <4>3. SUFFICES ASSUME NEW reply \in replies', reply.ok PROVE Reached(reply.msg)'
        OBVIOUS
      <4>4. CASE reply \in replies
        BY <2>3, <4>3, <4>4
      <4>5. CASE reply = [msg |-> e.msg, attempt |-> e.attempt, ok |-> ok]
        <5>1. reply.msg = e.msg /\ reply.ok = ok
          BY <4>5
        <5>2. QED
          BY <4>1, <4>3, <5>1
      <4>6. QED
        BY <4>2, <4>4, <4>5
    <3>3. QED
      BY <3>1, <3>2
  <2>5. \A m \in sealed' : Own(m)'.encrypted
    BY <2>1 DEF IInv, FlightSound, TypeOK
  <2>6. QED
    BY <2>2, <2>4, <2>5 DEF FlightSound
<1>6. OneAttemptAtATime'
  BY DEF IInv, OneAttemptAtATime
<1>7. QED
  BY <1>3, <1>4, <1>5, <1>6 DEF IInv, RequestsSound

\* A conversation the handler leaves alone.
LEMMA CountsStay ==
  ASSUME IInv, UNCHANGED <<file, conv, fresh, torn>>
  PROVE  /\ CountsSound' /\ OwnStay /\ StatesStay /\ CopiesGain
         /\ file' \in [Hosts -> [Messages -> Record]] /\ conv' \in [Hosts -> ConvType]
         /\ fresh' \in [Hosts -> SUBSET Messages] /\ torn' \in [Hosts -> SUBSET Messages]
BY DEF IInv, TypeOK, CountsSound, CountSound, OwnStay, StatesStay, CopiesGain, Own, Copy,
       ConvType

LEMMA KeepReceiveKnown ==
  ASSUME IInv, NEW e \in wire, wire' = wire \ {e}, UNCHANGED <<request, sealed>>,
         ReceiveKnown(e)
  PROVE  IInv'
<1>1. Reached(e.msg) /\ UNCHANGED <<file, conv, fresh, torn, faults>> /\ Answer(e, TRUE)
  BY EnvelopeFacts DEF ReceiveKnown, Reached
<1>2. Reached(e.msg)'
  BY <1>1 DEF Reached, Copy
<1>3. faults' \in 0..MaxFaults
  BY <1>1 DEF IInv, TypeOK
<1>4. QED
  BY <1>1, <1>2, <1>3, CountsStay, Handled

LEMMA KeepRefuse ==
  ASSUME IInv, NEW e \in wire, wire' = wire \ {e}, UNCHANGED <<request, sealed>>, Refuse(e)
  PROVE  IInv'
<1>1. faults' \in 0..MaxFaults
  BY FaultTyped DEF Refuse, IInv, TypeOK
<1>2. QED
  BY <1>1, CountsStay, Handled DEF Refuse

LEMMA KeepLose ==
  ASSUME IInv, NEW e \in wire, wire' = wire \ {e}, UNCHANGED <<request, sealed>>, Lose(e)
  PROVE  IInv'
<1>1. faults' \in 0..MaxFaults
  BY FaultTyped DEF Lose, IInv, TypeOK
<1>2. QED
  BY <1>1, CountsStay, Handled DEF Lose

\* What storing an envelope does to the files and to what must be counted: a message
\* that was not known was counted by nobody.
LEMMA Stored ==
  ASSUME IInv, NEW e \in wire, ~Known(e), SaveIncoming(e)
  PROVE  /\ OwnStay /\ CopiesGain /\ Copy(e.msg)'.dir = "in"
         /\ file' \in [Hosts -> [Messages -> Record]]
         /\ e.msg \notin fresh[Receiver(e)] \cup torn[Receiver(e)]
         /\ file'[Receiver(e)][e.msg].dir = "in"
         /\ \A h \in Hosts, m \in Messages : file[h][m].dir # "none" => file'[h][m].dir # "none"
<1>1. /\ e \in Envelope /\ e.msg \in Messages /\ Receiver(e) \in Hosts
      /\ Own(e.msg).dir = "out" /\ e.text = Own(e.msg).text
      /\ Receiver(e) = Peer(Author[e.msg])
  BY EnvelopeFacts
<1>2. /\ file' \in [Hosts -> [Messages -> Record]]
      /\ Copy(e.msg)'.dir = "in" /\ Copy(e.msg)'.text = e.text
      /\ \A n \in Messages : n # e.msg => Copy(n)' = Copy(n)
      /\ \A n \in Messages : Own(n)' = Own(n)
      /\ \A h \in Hosts, n \in Messages :
           h # Receiver(e) \/ n # e.msg => file'[h][n] = file[h][n]
  BY <1>1, CopySaved DEF IInv, Envelope
<1>3. file'[Receiver(e)][e.msg].dir = "in"
  BY <1>1, <1>2 DEF Copy
<1>4. CountSound(Receiver(e))
  BY <1>1 DEF IInv, CountsSound
<1>5. e.msg \notin fresh[Receiver(e)] \cup torn[Receiver(e)]
  BY <1>4 DEF CountSound, Known
<1>6. OwnStay /\ CopiesGain
  BY <1>1, <1>2 DEF OwnStay, CopiesGain
<1>7. QED
  BY <1>2, <1>3, <1>5, <1>6

\* The new message and its count, in one transaction.
LEMMA KeepReceiveNew ==
  ASSUME IInv, NEW e \in wire, wire' = wire \ {e}, UNCHANGED <<request, sealed>>,
         ReceiveNew(e)
  PROVE  IInv'
<1>0. PICK h \in Hosts : h = Receiver(e)
  BY EnvelopeFacts
<1>1. PICK state \in RequestStates : state = StateOnReceive(h) /\ state # "blocked"
  BY <1>0 DEF ReceiveNew, StateOnReceive, RequestStates, IInv, TypeOK
<1> DEFINE meta == [state |-> state,
                    unread |-> IF state = "accepted" THEN conv[h].unread + 1 ELSE 0,
                    requests |-> IF state = "pending" THEN conv[h].requests + 1
                                 ELSE conv[h].requests]
<1>2. /\ conv[h].state # "blocked" /\ ~Known(e) /\ SaveIncoming(e)
      /\ conv' = [conv EXCEPT ![h] = meta]
      /\ fresh' = [fresh EXCEPT ![h] = @ \cup {e.msg}] /\ UNCHANGED torn
  BY <1>0, <1>1 DEF ReceiveNew, IInv, TypeOK
<1>3. /\ conv[h] \in ConvType /\ meta \in ConvType /\ meta.state = state
      /\ state = "accepted" => meta.unread = conv[h].unread + 1
      /\ state = "pending" => meta.requests = conv[h].requests + 1 /\ meta.unread = 0
  BY <1>1 DEF ConvType, IInv, TypeOK
<1> HIDE DEF meta
<1>4. /\ OwnStay /\ CopiesGain /\ Copy(e.msg)'.dir = "in"
      /\ file' \in [Hosts -> [Messages -> Record]]
      /\ e.msg \notin fresh[h] \cup torn[h]
      /\ file'[h][e.msg].dir = "in"
      /\ \A g \in Hosts, m \in Messages : file[g][m].dir # "none" => file'[g][m].dir # "none"
  BY <1>0, <1>2, Stored
<1>5. /\ conv' \in [Hosts -> ConvType] /\ conv'[h] = meta
      /\ \A g \in Hosts : g # h => conv'[g] = conv[g]
  BY <1>2, <1>3 DEF IInv, TypeOK, ConvType
<1>6. StatesStay
  BY <1>1, <1>2, <1>3, <1>5 DEF StatesStay, StateOnReceive
<1>7. /\ fresh' \in [Hosts -> SUBSET Messages] /\ torn' \in [Hosts -> SUBSET Messages]
      /\ fresh'[h] = fresh[h] \cup {e.msg}
      /\ \A g \in Hosts : g # h => fresh'[g] = fresh[g]
  BY <1>2, EnvelopeFacts DEF IInv, TypeOK
<1>8. CountsSound'
  <2>1. SUFFICES ASSUME NEW g \in Hosts PROVE CountSound(g)'
    BY DEF CountsSound
  <2>2. CountSound(g) /\ CountSound(h) /\ fresh[g] \cup torn[g] \subseteq Messages
    BY DEF IInv, CountsSound, TypeOK
  <2>3. CASE g # h
    BY <1>2, <1>4, <1>5, <1>7, <2>2, <2>3 DEF CountSound
  <2>4. CASE g = h
    <3>1. IsFiniteSet(fresh'[h])
      BY <1>7, <2>2, FS_AddElement DEF CountSound
    <3>2. \A m \in fresh'[h] \cup torn'[h] : file'[h][m].dir # "none"
      BY <1>2, <1>4, <1>7, <2>2, <2>4 DEF CountSound
    <3>3. fresh'[h] \ torn'[h] = (fresh[h] \ torn[h]) \cup {e.msg}
      BY <1>2, <1>4, <1>7
    <3>4. IsFiniteSet(fresh[h] \ torn[h])
      BY <2>2, FS_Difference DEF CountSound
    <3>5. /\ Cardinality(fresh'[h] \ torn'[h]) = Cardinality(fresh[h] \ torn[h]) + 1
          /\ Cardinality(fresh[h] \ torn[h]) \in Nat
      BY <1>4, <3>3, <3>4, FS_AddElement, FS_CardinalityType
    <3>6. state = conv[h].state \/ (state = "pending" /\ conv[h].state = "none")
      BY <1>1 DEF StateOnReceive
    <3> DEFINE before == Cardinality(fresh[h] \ torn[h])
               after == Cardinality(fresh'[h] \ torn'[h])
    <3>7. /\ conv[h].state = "none" => conv[h].requests = 0 /\ before = 0
          /\ conv[h].state = "accepted" => conv[h].unread = before
          /\ conv[h].state = "pending" => conv[h].requests = before
      BY <2>2 DEF CountSound
    <3>8. after = before + 1 /\ before \in Nat
      BY <3>5
    <3> HIDE DEF before, after
    <3>9. /\ state = "accepted" => meta.unread = after
          /\ state = "pending" => meta.requests = after /\ meta.unread = 0
      BY <1>3, <3>6, <3>7, <3>8
    <3>10. state # "none"
      BY <1>1 DEF RequestStates
    <3>11. QED
      BY <1>3, <1>5, <2>4, <3>1, <3>2, <3>9, <3>10 DEF CountSound, after
  <2>5. QED
    BY <2>3, <2>4
<1>9. Reached(e.msg)'
  BY <1>4 DEF Reached
<1>10. faults' \in 0..MaxFaults
  BY FaultTyped DEF ReceiveNew, IInv, TypeOK
<1>11. Answer(e, TRUE) \/ UNCHANGED replies
  BY DEF ReceiveNew
<1>12. QED
  BY <1>4, <1>5, <1>6, <1>7, <1>8, <1>9, <1>10, <1>11, Handled

\* The message without its count: neither file says it was counted.
LEMMA KeepStoreTorn ==
  ASSUME IInv, NEW e \in wire, wire' = wire \ {e}, UNCHANGED <<request, sealed>>,
         StoreTorn(e)
  PROVE  IInv'
<1>0. PICK h \in Hosts : h = Receiver(e)
  BY EnvelopeFacts
<1>1. /\ ~Known(e) /\ SaveIncoming(e) /\ UNCHANGED <<conv, replies>>
      /\ fresh' = [fresh EXCEPT ![h] = @ \cup {e.msg}]
      /\ torn' = [torn EXCEPT ![h] = @ \cup {e.msg}]
  BY <1>0 DEF StoreTorn
<1>2. /\ OwnStay /\ CopiesGain /\ file' \in [Hosts -> [Messages -> Record]]
      /\ e.msg \notin fresh[h] \cup torn[h]
      /\ file'[h][e.msg].dir = "in"
      /\ \A g \in Hosts, m \in Messages : file[g][m].dir # "none" => file'[g][m].dir # "none"
  BY <1>0, <1>1, Stored
<1>3. StatesStay /\ conv' \in [Hosts -> ConvType]
  BY <1>1 DEF StatesStay, IInv, TypeOK, ConvType
<1>4. /\ fresh' \in [Hosts -> SUBSET Messages] /\ torn' \in [Hosts -> SUBSET Messages]
      /\ fresh'[h] = fresh[h] \cup {e.msg} /\ torn'[h] = torn[h] \cup {e.msg}
      /\ \A g \in Hosts : g # h => fresh'[g] = fresh[g] /\ torn'[g] = torn[g]
  BY <1>1, EnvelopeFacts DEF IInv, TypeOK
<1>5. CountsSound'
  <2>1. SUFFICES ASSUME NEW g \in Hosts PROVE CountSound(g)'
    BY DEF CountsSound
  <2>2. CountSound(g) /\ fresh[g] \cup torn[g] \subseteq Messages
    BY DEF IInv, CountsSound, TypeOK
  <2>3. fresh'[g] \ torn'[g] = fresh[g] \ torn[g]
    BY <1>2, <1>4
  <2>4. IsFiniteSet(fresh'[g])
    <3>1. IsFiniteSet(fresh[g]) /\ IsFiniteSet(fresh[g] \cup {e.msg})
      BY <2>2, FS_AddElement DEF CountSound
    <3>2. QED
      BY <1>4, <3>1
  <2>5. \A m \in fresh'[g] \cup torn'[g] : file'[g][m].dir # "none"
    BY <1>2, <1>4, <2>2 DEF CountSound
  <2>6. QED
    BY <1>1, <2>2, <2>3, <2>4, <2>5 DEF CountSound
<1>6. faults' \in 0..MaxFaults
  BY FaultTyped DEF StoreTorn, IInv, TypeOK
<1>7. QED
  BY <1>1, <1>2, <1>3, <1>4, <1>5, <1>6, Handled

---------------------------------------------------------------------------
(* The owner decides on a request, or reads: nothing is left to count.            *)

LEMMA CountersCleared ==
  ASSUME IInv, NEW h \in Hosts, NEW meta \in ConvType,
         conv' = [conv EXCEPT ![h] = meta], fresh' = [fresh EXCEPT ![h] = {}],
         UNCHANGED <<file, request, wire, replies, faults, sealed, torn>>,
         meta.state # "none", meta.unread = 0,
         meta.state = "pending" => meta.requests = 0,
         conv[h].state \in {"accepted", "blocked"} => meta.state = conv[h].state
  PROVE  IInv'
<1>1. /\ conv' \in [Hosts -> ConvType] /\ conv'[h] = meta
      /\ \A g \in Hosts : g # h => conv'[g] = conv[g] /\ fresh'[g] = fresh[g]
      /\ fresh' \in [Hosts -> SUBSET Messages] /\ fresh'[h] = {}
  BY DEF IInv, TypeOK, ConvType
<1>2. TypeOK'
  BY <1>1 DEF IInv, TypeOK, ConvType
<1>3. OwnStay /\ StatesStay /\ CopiesGain
  BY <1>1 DEF OwnStay, StatesStay, CopiesGain, Own, Copy
<1>4. RecordsSound' /\ FlightSound' /\ \A r \in Requests : RequestSound(r)'
  BY <1>3, NothingLost
<1>5. OneAttemptAtATime'
  BY DEF IInv, OneAttemptAtATime
<1>6. CountsSound'
  <2>1. SUFFICES ASSUME NEW g \in Hosts PROVE CountSound(g)'
    BY DEF CountsSound
  <2>2. CountSound(g)
    BY DEF IInv, CountsSound
  <2>3. CASE g # h
    BY <1>1, <2>2, <2>3 DEF CountSound
  <2>4. CASE g = h
    <3>1. IsFiniteSet(fresh'[h]) /\ Cardinality(fresh'[h] \ torn'[h]) = 0
      <4>1. fresh'[h] \ torn'[h] = {}
        BY <1>1
      <4>2. QED
        BY <1>1, <4>1, FS_EmptySet
    <3>2. QED
      BY <1>1, <2>2, <2>4, <3>1 DEF CountSound
  <2>5. QED
    BY <2>3, <2>4
<1>7. QED
  BY <1>2, <1>4, <1>5, <1>6 DEF IInv, RequestsSound

LEMMA KeepDecide ==
  ASSUME IInv, NEW h \in Hosts, NEW state \in RequestStates \ {"pending"}, Decide(h, state)
  PROVE  IInv'
<1> DEFINE meta == [state |-> state, unread |-> 0, requests |-> 0]
<1>1. /\ meta \in ConvType /\ meta.state = state /\ meta.unread = 0 /\ meta.requests = 0
      /\ state # "none"
  BY DEF ConvType, RequestStates
<1>2. conv[h].state = "pending" /\ conv' = [conv EXCEPT ![h] = meta]
  BY DEF Decide
<1> HIDE DEF meta
<1>3. QED
  BY <1>1, <1>2, CountersCleared DEF Decide

LEMMA KeepMarkRead ==
  ASSUME IInv, NEW h \in Hosts, MarkRead(h)
  PROVE  IInv'
<1> DEFINE meta == [conv[h] EXCEPT !.unread = 0]
<1>1. conv[h] \in ConvType /\ CountSound(h) /\ conv[h].unread > 0
  BY DEF IInv, TypeOK, ConvType, CountsSound, MarkRead
<1>2. conv[h].state \notin {"none", "pending"}
  BY <1>1 DEF CountSound, ConvType
<1>3. /\ meta \in ConvType /\ meta.state = conv[h].state /\ meta.unread = 0
      /\ meta.state \notin {"none", "pending"}
  BY <1>1, <1>2 DEF ConvType
<1>4. conv' = [conv EXCEPT ![h] = meta]
  BY <1>1 DEF MarkRead, ConvType
<1> HIDE DEF meta
<1>5. QED
  BY <1>3, <1>4, CountersCleared DEF MarkRead

---------------------------------------------------------------------------
(* The invariant. *)

LEMMA InvInit == ASSUME Init PROVE IInv
<1>1. \A h \in Hosts, m \in Messages : file[h][m] = NoRecord
  BY DEF Init
<1>2. \A m \in Messages : Own(m) = NoRecord /\ Copy(m) = NoRecord
  BY <1>1, EndsOfMessage DEF Own, Copy
<1>3. \A r \in Requests : request[r] = Idle
  BY DEF Init
<1>4. TypeOK
  <2>1. request \in [Requests -> RequestType]
    BY IdleTyped DEF Init
  <2>2. file \in [Hosts -> [Messages -> Record]]
    BY NoRecordTyped DEF Init
  <2>3. QED
    BY <2>1, <2>2, DirectAssumption DEF Init, TypeOK, NoMeta, RequestType
<1>5. RecordsSound
  BY <1>2 DEF RecordsSound, OwnSound, CopySound, NoRecord
<1>6. RequestsSound /\ OneAttemptAtATime
  BY <1>3, IdleIs DEF RequestsSound, RequestSound, OneAttemptAtATime, AttemptSteps
<1>7. FlightSound
  BY DEF Init, FlightSound
<1>8. CountsSound
  <2>1. \A h \in Hosts : fresh[h] = {} /\ torn[h] = {} /\ conv[h] = NoMeta
    BY DEF Init
  <2>2. Cardinality({} \ {}) = 0 /\ IsFiniteSet({})
    BY FS_EmptySet
  <2>3. QED
    BY <2>1, <2>2, FS_EmptySet DEF CountsSound, CountSound, NoMeta
<1>9. QED
  BY <1>4, <1>5, <1>6, <1>7, <1>8 DEF IInv

LEMMA KeepReceive ==
  ASSUME IInv, NEW e \in wire, Receive(e)
  PROVE  IInv'
BY KeepReceiveKnown, KeepReceiveNew, KeepStoreTorn, KeepRefuse, KeepLose DEF Receive

LEMMA KeepProgress ==
  ASSUME IInv, NEW r \in Requests, Progress(r)
  PROVE  IInv'
BY KeepPersist, KeepClaimAttempt, KeepClaimRefused, KeepDiscover, KeepRequireEncrypted,
   KeepPost, KeepReadReply, KeepTimeOut, KeepFinish DEF Progress

LEMMA InvStep == ASSUME IInv, [Next]_vars PROVE IInv'
<1>1. CASE UNCHANGED vars
  <2>1. UNCHANGED <<file, conv, fresh, torn, request, wire, replies, sealed, faults>>
    BY <1>1 DEF vars
  <2>2. CountsSound' /\ OwnStay /\ StatesStay /\ CopiesGain
    BY <2>1, CountsStay
  <2>3. RecordsSound' /\ FlightSound' /\ RequestsSound'
    BY <2>1, <2>2, NothingLost DEF RequestsSound
  <2>4. TypeOK' /\ OneAttemptAtATime'
    BY <2>1 DEF IInv, TypeOK, OneAttemptAtATime
  <2>5. QED
    BY <2>2, <2>3, <2>4 DEF IInv
<1>2. CASE Next
  BY <1>2, KeepRetry, KeepSend, KeepProgress, KeepDiscoveryFails, KeepCrash,
     KeepLeaseExpires, KeepReceive, KeepMarkRead, KeepDecide DEF Next
<1>3. QED
  BY <1>1, <1>2

---------------------------------------------------------------------------
(* What no step undoes. *)

Sealing == \A e \in wire' \ wire : e.msg \in sealed => e.sealed
Keeping(m) ==
  /\ Own(m).status = "delivered" => Own(m)'.status = "delivered"
  /\ Own(m).dir # "none" => Own(m)'.text = Own(m).text
  /\ Own(m).encrypted => Own(m)'.encrypted

\* Only a post puts an envelope on the wire, and the record it holds says sealed.
LEMMA StepSeals == ASSUME IInv, [Next]_vars PROVE Sealing
<1>1. ASSUME NEW r \in Requests, Post(r) PROVE Sealing
  <2>1. request[r].step \in AttemptSteps
    BY <1>1 DEF Post, AttemptSteps
  <2>2. Own(request[r].msg).encrypted = request[r].encrypts
    BY <2>1, AttemptIsOwn
  <2>3. request[r].msg \in sealed => request[r].encrypts
    BY <2>2 DEF IInv, FlightSound
  <2>4. \A e \in wire' \ wire : e.msg = request[r].msg /\ e.sealed = request[r].encrypts
    BY <1>1 DEF Post
  <2>5. QED
    BY <2>3, <2>4 DEF Sealing
<1>2. SUFFICES ASSUME wire' \subseteq wire PROVE Sealing
  <2>1. CASE UNCHANGED vars
    BY <2>1 DEF vars
  <2>2. ASSUME NEW r \in Requests, Progress(r), ~Post(r) PROVE wire' = wire
    BY <2>2 DEF Progress, Persist, ClaimAttempt, ClaimRefused, Discover, RequireEncrypted,
                ReadReply, TimeOut, Finish
  <2>3. ASSUME NEW r \in Requests, DiscoveryFails(r) \/ Crash(r) PROVE wire' = wire
    BY <2>3 DEF DiscoveryFails, Crash
  <2>4. ASSUME NEW r \in Requests, NEW m \in Messages,
               Retry(r, m) \/ \E t \in Texts : Send(r, m, t)
        PROVE wire' = wire
    BY <2>4 DEF Retry, Send
  <2>5. ASSUME NEW m \in Messages, LeaseExpires(m) PROVE wire' = wire
    BY <2>5 DEF LeaseExpires
  <2>6. ASSUME NEW e \in wire, Receive(e) PROVE wire' \subseteq wire
    BY <2>6 DEF Receive
  <2>7. ASSUME NEW h \in Hosts,
               MarkRead(h) \/ \E s \in RequestStates \ {"pending"} : Decide(h, s)
        PROVE wire' = wire
    BY <2>7 DEF MarkRead, Decide
  <2>8. QED
    BY <1>1, <2>1, <2>2, <2>3, <2>4, <2>5, <2>6, <2>7 DEF Next
<1>3. QED
  BY <1>2 DEF Sealing

\* A record that the author saves anew.
LEMMA SavedKeeps ==
  ASSUME TypeOK, NEW n \in Messages, NEW record \in Record, SetOwn(n, record),
         Own(n).status = "delivered" => record.status = "delivered",
         Own(n).dir # "none" => record.text = Own(n).text,
         Own(n).encrypted => record.encrypted
  PROVE  \A m \in Messages : Keeping(m)
BY OwnSaved DEF Keeping

LEMMA StepKeeps == ASSUME IInv, [Next]_vars PROVE \A m \in Messages : Keeping(m)
<1>1. SUFFICES ASSUME ~OwnStay PROVE \A m \in Messages : Keeping(m)
  BY DEF OwnStay, Keeping
<1>2. ASSUME UNCHANGED file PROVE OwnStay
  BY <1>2 DEF OwnStay, Own
<1>3. CASE UNCHANGED vars
  BY <1>1, <1>2, <1>3 DEF vars
<1>4. ASSUME NEW r \in Requests, Progress(r) PROVE \A m \in Messages : Keeping(m)
  <2>0. PICK n \in Messages : n = request[r].msg
    BY RequestTyped DEF IInv
  <2>1. OwnSound(n) /\ Own(n) \in Record /\ request[r] \in RequestType /\ RequestSound(r)
    BY RecordsTyped, RequestTyped DEF IInv, RecordsSound, RequestsSound
  <2>2. CASE Persist(r)
    <3> DEFINE record == [NoRecord EXCEPT !.dir = "out", !.text = request[r].text,
                                          !.status = "sending"]
    <3>1. Own(n).dir = "none" /\ SetOwn(n, record)
      BY <1>1, <1>2, <2>0, <2>2 DEF Persist
    <3>2. record \in Record
      BY <2>1, NoRecordTyped DEF Record, RequestType, NoRecord
    <3>3. Own(n).status = "none" /\ Own(n).encrypted = FALSE
      BY <2>1, <3>1 DEF OwnSound, NoRecord
    <3>4. QED
      BY <3>1, <3>2, <3>3, SavedKeeps DEF IInv
  <2>3. CASE ClaimAttempt(r)
    <3> DEFINE next == Own(n).attempts + 1
               record == [Own(n) EXCEPT !.status = "sending", !.attempt = next,
                                        !.attempts = next, !.leased = TRUE]
    <3>1. Own(n).status # "delivered" /\ SetOwn(n, record)
      BY <2>0, <2>3 DEF ClaimAttempt, CanClaim
    <3>2. next \in Nat
      BY <2>1 DEF Record
    <3> HIDE DEF next
    <3>3. record \in Record /\ record.text = Own(n).text /\ record.encrypted = Own(n).encrypted
      BY <2>1, <3>2 DEF Record
    <3>4. QED
      BY <3>1, <3>3, SavedKeeps DEF IInv
  <2>4. CASE RequireEncrypted(r)
    <3> DEFINE record == [Own(n) EXCEPT !.encrypted = TRUE]
    <3>1. SetOwn(n, record)
      BY <1>1, <1>2, <2>0, <2>4 DEF RequireEncrypted
    <3>2. /\ record \in Record /\ record.text = Own(n).text
          /\ record.status = Own(n).status /\ record.encrypted = TRUE
      BY <2>1 DEF Record
    <3>3. QED
      BY <3>1, <3>2, SavedKeeps DEF IInv
  <2>5. CASE Finish(r)
    <3> DEFINE record == Settled(Own(n), r)
    <3>1. SetOwn(n, record) /\ request[r].step \in AttemptSteps
      BY <1>1, <1>2, <2>0, <2>5 DEF Finish, AttemptSteps
    <3>2. /\ record \in Record /\ record.text = Own(n).text
          /\ Own(n).encrypted => record.encrypted
      BY <2>1 DEF Record, RequestType, Settled, NoAttempt
    <3>3. Own(n).status = "sending"
      BY <2>0, <2>1, <3>1, AttemptIsOwn DEF OwnSound
    <3>4. QED
      BY <3>1, <3>2, <3>3, SavedKeeps DEF IInv
  <2>6. QED
    BY <1>1, <1>2, <1>4, <2>2, <2>3, <2>4, <2>5
       DEF Progress, ClaimRefused, Discover, Post, ReadReply, TimeOut
<1>5. ASSUME NEW n \in Messages, LeaseExpires(n) PROVE \A m \in Messages : Keeping(m)
  <2> DEFINE record == [Own(n) EXCEPT !.leased = FALSE]
  <2>1. SetOwn(n, record) /\ Own(n) \in Record
    BY <1>5, RecordsTyped DEF LeaseExpires, IInv
  <2>2. /\ record \in Record /\ record.text = Own(n).text
        /\ record.status = Own(n).status /\ record.encrypted = Own(n).encrypted
    BY <2>1 DEF Record
  <2>3. QED
    BY <2>1, <2>2, SavedKeeps DEF IInv
<1>6. ASSUME NEW e \in wire, Receive(e) PROVE OwnStay
  <2>1. CASE ~Known(e) /\ SaveIncoming(e)
    BY <2>1, Stored
  <2>2. QED
    BY <1>2, <1>6, <2>1 DEF Receive, ReceiveKnown, ReceiveNew, StoreTorn, Refuse, Lose
<1>7. ASSUME NEW r \in Requests, DiscoveryFails(r) \/ Crash(r) PROVE UNCHANGED file
  BY <1>7 DEF DiscoveryFails, Crash
<1>8. ASSUME NEW r \in Requests, NEW m \in Messages,
             Retry(r, m) \/ \E t \in Texts : Send(r, m, t)
      PROVE UNCHANGED file
  BY <1>8 DEF Retry, Send
<1>9. ASSUME NEW h \in Hosts,
             MarkRead(h) \/ \E s \in RequestStates \ {"pending"} : Decide(h, s)
      PROVE UNCHANGED file
  BY <1>9 DEF MarkRead, Decide
<1>10. QED
  BY <1>1, <1>2, <1>3, <1>4, <1>5, <1>6, <1>7, <1>8, <1>9 DEF Next

---------------------------------------------------------------------------
(* What an owner decided. *)

Deciding(h) ==
  LET before == conv[h].state  after == conv'[h].state IN
  /\ before \in {"accepted", "declined", "blocked"} => after = before
  /\ wire' # wire => after = before \/ (before = "none" /\ after = "pending")

\* A step that changes the state of one conversation, or of none.
LEMMA StateSet ==
  ASSUME TypeOK, NEW g \in Hosts, NEW record,
         conv' = [conv EXCEPT ![g] = record],
         conv[g].state \in {"accepted", "declined", "blocked"} => record.state = conv[g].state,
         wire' # wire =>
           record.state = conv[g].state \/ (conv[g].state = "none" /\ record.state = "pending")
  PROVE  \A h \in Hosts : Deciding(h)
BY DEF TypeOK, Deciding

\* Only the author's first message, a stranger's first message and a decision change a state.
LEMMA StepDecides == ASSUME IInv, [Next]_vars PROVE \A h \in Hosts : Deciding(h)
<1>1. TypeOK
  BY DEF IInv
<1>2. ASSUME UNCHANGED conv PROVE \A h \in Hosts : Deciding(h)
  BY <1>2 DEF Deciding
<1>3. CASE UNCHANGED vars
  BY <1>2, <1>3 DEF vars
<1>4. ASSUME NEW r \in Requests, Progress(r) \/ DiscoveryFails(r) \/ Crash(r)
      PROVE UNCHANGED conv
  BY <1>4 DEF Progress, Persist, ClaimAttempt, ClaimRefused, Discover, RequireEncrypted, Post,
              ReadReply, TimeOut, Finish, DiscoveryFails, Crash
<1>5. ASSUME NEW m \in Messages, LeaseExpires(m) PROVE UNCHANGED conv
  BY <1>5 DEF LeaseExpires
<1>6. ASSUME NEW r \in Requests, NEW m \in Messages, Retry(r, m) PROVE UNCHANGED conv
  BY <1>6 DEF Retry
<1>7. ASSUME NEW r \in Requests, NEW m \in Messages, NEW t \in Texts, Send(r, m, t)
      PROVE \A h \in Hosts : Deciding(h)
  <2> DEFINE g == Author[m]
             record == [conv[g] EXCEPT !.state = "accepted"]
  <2>1. /\ g \in Hosts /\ wire' = wire /\ conv[g].state \in {"none", "accepted"}
        /\ conv' = [conv EXCEPT ![g].state = "accepted"]
    BY <1>7, DirectAssumption DEF Send
  <2>2. conv' = [conv EXCEPT ![g] = record] /\ record.state = "accepted"
    BY <1>1, <2>1 DEF TypeOK
  <2> HIDE DEF g, record
  <2>3. QED
    BY <1>1, <2>1, <2>2, StateSet
<1>8. ASSUME NEW e \in wire, Receive(e) PROVE \A h \in Hosts : Deciding(h)
  <2>1. CASE ReceiveNew(e)
    <3> DEFINE g == Receiver(e)
               state == StateOnReceive(g)
               record == [state |-> state,
                          unread |-> IF state = "accepted" THEN conv[g].unread + 1 ELSE 0,
                          requests |-> IF state = "pending" THEN conv[g].requests + 1
                                       ELSE conv[g].requests]
    <3>1. g \in Hosts
      BY EnvelopeFacts
    <3>2. conv' = [conv EXCEPT ![g] = record]
      BY <2>1 DEF ReceiveNew
    <3>3. record.state = IF conv[g].state = "none" THEN "pending" ELSE conv[g].state
      BY DEF StateOnReceive
    <3> HIDE DEF g, record
    <3>4. QED
      BY <1>1, <3>1, <3>2, <3>3, StateSet
  <2>2. QED
    BY <1>2, <1>8, <2>1 DEF Receive, ReceiveKnown, StoreTorn, Refuse, Lose
<1>9. ASSUME NEW g \in Hosts, MarkRead(g) PROVE \A h \in Hosts : Deciding(h)
  <2> DEFINE record == [conv[g] EXCEPT !.unread = 0]
  <2>1. wire' = wire /\ conv' = [conv EXCEPT ![g] = record] /\ record.state = conv[g].state
    BY <1>1, <1>9 DEF MarkRead, TypeOK
  <2> HIDE DEF record
  <2>2. QED
    BY <1>1, <2>1, StateSet
<1>10. ASSUME NEW g \in Hosts, NEW s \in RequestStates \ {"pending"}, Decide(g, s)
       PROVE \A h \in Hosts : Deciding(h)
  <2> DEFINE record == [state |-> s, unread |-> 0, requests |-> 0]
  <2>1. wire' = wire /\ conv[g].state = "pending" /\ conv' = [conv EXCEPT ![g] = record]
    BY <1>10 DEF Decide
  <2> HIDE DEF record
  <2>2. QED
    BY <1>1, <2>1, StateSet
<1>11. QED
  BY <1>2, <1>3, <1>4, <1>5, <1>6, <1>7, <1>8, <1>9, <1>10 DEF Next

---------------------------------------------------------------------------
(* The theorems. *)

\* The inductive invariant: what each record, request, envelope, answer and counter
\* says of the others.
THEOREM InvHolds == Spec => []IInv
BY InvInit, InvStep, PTL DEF Spec

\* Types of the state.
THEOREM TypesHold == Spec => []TypeOK
<1>1. IInv => TypeOK
  BY DEF IInv
<1>2. QED
  BY <1>1, InvHolds, PTL

\* A message shown as delivered is on the peer's disk with the text its author saved, or
\* the peer's owner has blocked the author (_finish_delivery_attempt, receive_message).
THEOREM DeliveredHolds == Spec => []DeliveredIsStored
<1>1. ASSUME IInv PROVE DeliveredIsStored
  <2>1. SUFFICES ASSUME NEW m \in Messages, Own(m).status = "delivered"
                 PROVE  \/ Copy(m).dir = "in" /\ Copy(m).text = Own(m).text
                        \/ conv[Peer(Author[m])].state = "blocked"
    BY DEF DeliveredIsStored, Copy
  <2>2. OwnSound(m) /\ CopySound(m)
    BY <1>1 DEF IInv, RecordsSound
  <2>3. QED
    BY <2>1, <2>2 DEF OwnSound, CopySound, Reached
<1>2. QED
  BY <1>1, InvHolds, PTL

\* Two requests are never both between claiming and settling the same message
\* (_begin_delivery_attempt, DELIVERY_LEASE_S).
THEOREM OneAttemptHolds == Spec => []OneAttemptAtATime
<1>1. IInv => OneAttemptAtATime
  BY DEF IInv
<1>2. QED
  BY <1>1, InvHolds, PTL

\* Nobody sends without consent, and the counters count every stored message once
\* (_prepare_outgoing_conversation, _store_message).
THEOREM ConsentHolds == Spec => []ConsentIsKept
<1>1. ASSUME IInv PROVE ConsentIsKept
  <2>1. SendingNeedsConsent
    BY <1>1 DEF SendingNeedsConsent, IInv, RecordsSound, OwnSound
  <2>2. CountersAreExact
    BY <1>1 DEF CountersAreExact, IInv, CountsSound, CountSound
  <2>3. QED
    BY <2>1, <2>2 DEF ConsentIsKept
<1>2. QED
  BY <1>1, InvHolds, PTL

\* Sealed a message never travels in the clear, delivered it is never sent again, and what an
\* owner decided about a peer stands (_require_encrypted_delivery, _begin_delivery_attempt,
\* _set_dm_request_state).
THEOREM NothingUndoneHolds == Spec => NothingIsUndone
<1>1. Spec => NoPlaintextAfterSealed
  <2>1. IInv /\ [Next]_vars => [Sealing]_vars
    BY StepSeals
  <2>2. QED
    BY <2>1, InvHolds, PTL DEF Spec, NoPlaintextAfterSealed, Sealing
<1>2. Spec => DeliveryIsFinal
  <2>1. IInv /\ [Next]_vars => [\A m \in Messages : Keeping(m)]_vars
    BY StepKeeps
  <2>2. QED
    BY <2>1, InvHolds, PTL DEF Spec, DeliveryIsFinal, Keeping
<1>3. Spec => DecisionsStand
  <2>1. IInv /\ [Next]_vars => [\A h \in Hosts : Deciding(h)]_vars
    BY StepDecides
  <2>2. QED
    BY <2>1, InvHolds, PTL DEF Spec, DecisionsStand, Deciding
<1>4. QED
  BY <1>1, <1>2, <1>3 DEF NothingIsUndone
============================================================================
