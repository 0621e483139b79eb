---------------------------- MODULE Huddle_proof ----------------------------
(* Proofs about Huddle: huddles that everybody has left are being ended, a   *)
(* user with one device is held by one huddle, and the documents implement   *)
(* HuddleRooms, for any users, devices, rooms and bounds.  Whoever leaves is *)
(* out of the huddle until somebody joins twice.                             *)
EXTENDS HuddleClaims, SequenceTheorems, TLAPS

-----------------------------------------------------------------------------
(* Arrays of participants                                                  *)

\* Marking an entry changes nothing else of the array.
LEMMA MarkLeftFacts ==
    ASSUME NEW ps \in Seq(Entry), NEW i
    PROVE  /\ MarkLeft(ps, i) \in Seq(Entry)
           /\ Len(MarkLeft(ps, i)) = Len(ps)
           /\ DOMAIN MarkLeft(ps, i) = DOMAIN ps
           /\ \A j \in DOMAIN ps : /\ MarkLeft(ps, i)[j].user = ps[j].user
                                   /\ ps[j].left => MarkLeft(ps, i)[j].left
                                   /\ j # i => MarkLeft(ps, i)[j] = ps[j]
                                   /\ j = i => MarkLeft(ps, i)[j].left
<1> DEFINE e == [ps[i] EXCEPT !.left = TRUE]
<1>1. DOMAIN ps = 1..Len(ps) /\ \A j \in DOMAIN ps : ps[j] \in Entry
  OBVIOUS
<1>2. CASE i \in DOMAIN ps
  <2>1. e \in Entry /\ e.user = ps[i].user /\ e.left
    BY <1>1, <1>2 DEF Entry
  <2>2. MarkLeft(ps, i) = [ps EXCEPT ![i] = e]
    BY DEF MarkLeft
  <2>3. /\ [ps EXCEPT ![i] = e] \in Seq(Entry)
        /\ Len([ps EXCEPT ![i] = e]) = Len(ps)
        /\ \A j \in 1..Len(ps) : [ps EXCEPT ![i] = e][j] = IF j = i THEN e ELSE ps[j]
    <3> HIDE DEF e
    <3> QED
      BY <1>1, <1>2, <2>1, ExceptSeq
  <2> QED
    BY <1>1, <2>1, <2>2, <2>3
<1>3. CASE i \notin DOMAIN ps
  <2>1. MarkLeft(ps, i) = ps
    BY <1>1, <1>3 DEF MarkLeft
  <2> QED
    BY <1>3, <2>1
<1> QED
  BY <1>2, <1>3

\* A new participant comes after those who are there.
LEMMA AppendFacts ==
    ASSUME NEW ps \in Seq(Entry), NEW e \in Entry
    PROVE  /\ Append(ps, e) \in Seq(Entry)
           /\ Len(Append(ps, e)) = Len(ps) + 1
           /\ \A j \in 1..Len(ps) : Append(ps, e)[j] = ps[j]
           /\ Append(ps, e)[Len(ps) + 1] = e
  OBVIOUS

\* The entry of a user who is in a huddle.
LEMMA NewEntry ==
    ASSUME NEW u \in Users
    PROVE  /\ [user |-> u, left |-> FALSE] \in Entry
           /\ [user |-> u, left |-> FALSE].user = u
           /\ ~[user |-> u, left |-> FALSE].left
  BY DEF Entry

\* A device is a user's.
LEMMA UserOfType == \A c \in Clients : UserOf(c) \in Users
  BY DEF Clients, UserOf

-----------------------------------------------------------------------------
(* Requests                                                                *)

\* What handlers wait for is a request.
LEMMA RequestTypes ==
    /\ Idle \in Request
    /\ \A st \in Steps, r \in Rooms \cup {None} : At(st, r) \in Request
    /\ \A r \in Rooms, n \in Nat : EndAt(r, n) \in Request
    /\ \A st \in Steps, rs \in SUBSET Rooms : ForceAt(st, rs) \in Request
  BY DEF Idle, At, EndAt, ForceAt, Request, Steps

\* The fields of requests, so that the proofs need not expand them.
LEMMA RequestFields ==
    /\ Idle.at = "idle"
    /\ \A st, r : At(st, r).at = st /\ At(st, r).room = r
    /\ \A r, n : EndAt(r, n).at = "leaveEnd" /\ EndAt(r, n).room = r /\ EndAt(r, n).seen = n
    /\ \A rs : ForceAt("forceEnd", rs).at \in {"idle", "forceEnd"}
    /\ \A rs : ForceAt("forceMark", rs).at \in {"idle", "forceMark"}
  BY DEF Idle, At, EndAt, ForceAt

-----------------------------------------------------------------------------
(* Type correctness                                                        *)

\* The requests under way are about huddles that exist.
RoomsExist ==
    \A c \in Clients : request[c].at \in RoomSteps =>
        request[c].room \in Rooms /\ status[request[c].room] # "none"

\* A request that gets a new step keeps RoomsExist if its new room exists, since
\* a huddle that exists does not vanish.
LEMMA RoomsExistStep ==
    ASSUME TypeOK, NEW c \in Clients, NEW q \in Request,
           request' = [request EXCEPT ![c] = q],
           q.at \in RoomSteps => q.room \in Rooms /\ status[q.room] # "none",
           status' \in [Rooms -> {"none", "active", "ended"}],
           \A r \in Rooms : status[r] # "none" => status'[r] # "none"
    PROVE  request' \in [Clients -> Request] /\ RoomsExist'
  <1>1. request \in [Clients -> Request] /\ RoomsExist
    BY DEF TypeOK, RoomsExist
  <1>2. request' \in [Clients -> Request]
    BY <1>1
  <1>3. ASSUME NEW d \in Clients, request'[d].at \in RoomSteps
        PROVE  request'[d].room \in Rooms /\ status'[request'[d].room] # "none"
    <2>1. CASE d = c
      <3>1. request'[d] = q
        BY <1>1, <2>1
      <3> QED
        BY <1>3, <3>1
    <2>2. CASE d # c
      <3>1. request'[d] = request[d]
        BY <1>1, <2>2
      <3> QED
        BY <1>1, <1>3, <3>1 DEF RoomsExist
    <2> QED
      BY <2>1, <2>2
  <1> QED
    BY <1>2, <1>3 DEF RoomsExist

\* The initial values have their types.
LEMMA TypeInit == Init => TypeOK
  <1> SUFFICES ASSUME Init PROVE TypeOK
    OBVIOUS
  <1>1. request \in [Clients -> Request] /\ \A c \in Clients : request[c].at \notin RoomSteps
    BY RequestTypes, RequestFields DEF Init, RoomSteps
  <1>2. <<>> \in Seq(Entry)
    OBVIOUS
  <1> QED
    BY <1>1, <1>2, BoundAssumption DEF Init, TypeOK

\* Every step keeps the types: documents, requests and counters one by one.
LEMMA TypeStep == TypeOK /\ [Next]_vars => TypeOK'
  <1> SUFFICES ASSUME TypeOK, [Next]_vars PROVE TypeOK'
    OBVIOUS
  <1> DEFINE DocTypes == /\ status' \in [Rooms -> {"none", "active", "ended"}]
                         /\ initiator' \in [Rooms -> Users \cup {None}]
                         /\ participants' \in [Rooms -> Seq(Entry)]
             Growing == \A r \in Rooms : status[r] # "none" => status'[r] # "none"
             Counters == endMessages' \in [Rooms -> Nat] /\ failures' \in 0..MaxFailures
                           /\ adrift' \subseteq Rooms
             Changed(c, q) == /\ q \in Request
                              /\ request' = [request EXCEPT ![c] = q]
                              /\ q.at \in RoomSteps => q.room \in Rooms /\ status[q.room] # "none"
  <1>1. ASSUME DocTypes, Growing, Counters, NEW c \in Clients, NEW q, Changed(c, q) PROVE TypeOK'
    BY <1>1, RoomsExistStep DEF TypeOK, RoomsExist
  <1>2. ASSUME DocTypes, Growing, Counters, UNCHANGED request PROVE TypeOK'
    BY <1>2 DEF TypeOK, RoomsExist
  <1>3. /\ status \in [Rooms -> {"none", "active", "ended"}]
        /\ initiator \in [Rooms -> Users \cup {None}]
        /\ participants \in [Rooms -> Seq(Entry)]
        /\ request \in [Clients -> Request]
        /\ endMessages \in [Rooms -> Nat] /\ failures \in 0..MaxFailures /\ adrift \subseteq Rooms
        /\ RoomsExist
    BY DEF TypeOK, RoomsExist
  <1>4. /\ Idle \in Request /\ Idle.at \notin RoomSteps
        /\ \A c \in Clients : request[c].at \in RoomSteps =>
              request[c].room \in Rooms /\ status[request[c].room] # "none"
    BY <1>3, RequestTypes, RequestFields DEF RoomSteps, RoomsExist
  <1> HIDE DEF DocTypes, Growing, Counters, Changed
  <1>5. UNCHANGED documents => DocTypes /\ Growing
    BY <1>3 DEF documents, DocTypes, Growing
  <1>6. UNCHANGED <<endMessages, failures, adrift>> => Counters
    BY <1>3 DEF Counters
  <1>7. ASSUME NEW c \in Clients, Answer(c) PROVE Changed(c, Idle)
    BY <1>4, <1>7 DEF Answer, Changed
  <1>8. ASSUME NEW c \in Clients, NEW st \in Steps, NEW r \in Rooms, status[r] # "none", GoOn(c, st, r)
        PROVE  Changed(c, At(st, r))
    BY <1>8, RequestTypes, RequestFields DEF GoOn, Changed
  <1>9. CASE UNCHANGED vars
    BY <1>2, <1>5, <1>6, <1>9 DEF vars, documents
  <1>10. ASSUME NEW c \in Clients, CreateHuddle(c) PROVE TypeOK'
    <2>1. Changed(c, At("createSave", None))
      BY <1>10, RequestTypes, RequestFields DEF CreateHuddle, GoOn, Changed, Steps, RoomSteps
    <2> QED
      BY <1>1, <1>5, <1>6, <1>10, <2>1 DEF CreateHuddle
  <1>11. ASSUME NEW c \in Clients, CreateSave(c) PROVE TypeOK'
    <2>1. PICK r \in Rooms :
            /\ status[r] = "none"
            /\ status' = [status EXCEPT ![r] = "active"]
            /\ initiator' = [initiator EXCEPT ![r] = UserOf(c)]
            /\ participants' = [participants EXCEPT ![r] = <<[user |-> UserOf(c), left |-> FALSE]>>]
      BY <1>11 DEF CreateSave
    <2>2. <<[user |-> UserOf(c), left |-> FALSE]>> \in Seq(Entry)
      BY UserOfType, NewEntry
    <2>3. DocTypes /\ Growing
      BY <1>3, <2>1, <2>2, UserOfType DEF DocTypes, Growing
    <2> QED
      BY <1>1, <1>6, <1>7, <1>11, <2>3 DEF CreateSave
  <1>12. ASSUME NEW c \in Clients, NEW r \in Rooms, JoinHuddle(c, r) PROVE TypeOK'
    BY <1>1, <1>5, <1>6, <1>8, <1>12 DEF JoinHuddle, Steps
  <1>13. ASSUME NEW c \in Clients, JoinRead(c) PROVE TypeOK'
    BY <1>1, <1>4, <1>5, <1>6, <1>7, <1>8, <1>13 DEF JoinRead, Steps, RoomSteps
  <1>14. ASSUME NEW c \in Clients, AddParticipant(c) PROVE TypeOK'
    <2>1. request[c].room \in Rooms
      BY <1>4, <1>14 DEF AddParticipant, RoomSteps
    <2>2. Append(participants[request[c].room], [user |-> UserOf(c), left |-> FALSE]) \in Seq(Entry)
      BY <1>3, <2>1, UserOfType, NewEntry, AppendFacts
    <2>3. DocTypes /\ Growing
      BY <1>3, <1>14, <2>2 DEF AddParticipant, DocTypes, Growing
    <2> QED
      BY <1>1, <1>6, <1>7, <1>14, <2>3 DEF AddParticipant
  <1>15. ASSUME NEW c \in Clients, NEW r \in Rooms, LeaveHuddle(c, r) PROVE TypeOK'
    <2> DEFINE updated == MarkLeft(participants[r], FirstOf(participants[r], UserOf(c)))
    <2>1. updated \in Seq(Entry)
      BY <1>3, MarkLeftFacts
    <2>2. participants' = [participants EXCEPT ![r] = updated]
      BY <1>15 DEF LeaveHuddle
    <2>3. DocTypes /\ Growing
      BY <1>3, <1>15, <2>1, <2>2 DEF LeaveHuddle, DocTypes, Growing
    <2>4. Counters
      BY <1>6, <1>15 DEF LeaveHuddle
    <2>5. CASE AllLeft(updated)
      <3>1. Changed(c, EndAt(r, Len(updated)))
        BY <1>15, <2>1, <2>5, RequestTypes, RequestFields DEF LeaveHuddle, Changed
      <3> QED
        BY <1>1, <2>3, <2>4, <3>1
    <2>6. CASE ~AllLeft(updated)
      BY <1>2, <1>15, <2>3, <2>4, <2>6 DEF LeaveHuddle
    <2> QED
      BY <2>5, <2>6
  <1>16. ASSUME NEW c \in Clients, EndEmptied(c) PROVE TypeOK'
    <2>1. request[c].room \in Rooms /\ status[request[c].room] # "none"
      BY <1>4, <1>16 DEF EndEmptied, RoomSteps
    <2>2. DocTypes /\ Growing
      BY <1>3, <1>16, <2>1 DEF EndEmptied, DocTypes, Growing
    <2> QED
      BY <1>1, <1>6, <1>8, <1>16, <2>1, <2>2 DEF EndEmptied, Steps
  <1>17. ASSUME NEW c \in Clients, CreateEndMessage(c) PROVE TypeOK'
    <2>1. Counters
      BY <1>3, <1>17 DEF CreateEndMessage, Counters
    <2> QED
      BY <1>1, <1>5, <1>7, <1>17, <2>1 DEF CreateEndMessage
  <1>18. ASSUME NEW r \in Rooms, DeleteHuddle(r) PROVE TypeOK'
    <2>1. DocTypes /\ Growing
      BY <1>3, <1>18 DEF DeleteHuddle, DocTypes, Growing
    <2> QED
      BY <1>2, <1>6, <1>18, <2>1 DEF DeleteHuddle
  <1>19. ASSUME NEW c \in Clients, ForceLeave(c) PROVE TypeOK'
    <2>1. Changed(c, ForceAt("forceEnd", Rooms))
      BY <1>19, RequestTypes, RequestFields DEF ForceLeave, Changed, Steps, RoomSteps
    <2> QED
      BY <1>1, <1>5, <1>6, <1>19, <2>1 DEF ForceLeave
  <1>20. ASSUME NEW c \in Clients, ForceEnd(c) PROVE TypeOK'
    <2>1. request[c].todo \subseteq Rooms
      BY <1>3 DEF Request
    <2>2. PICK r \in request[c].todo :
            /\ status' = IF status[r] = "active" /\ initiator[r] = UserOf(c)
                           THEN [status EXCEPT ![r] = "ended"] ELSE status
            /\ request' = [request EXCEPT ![c] =
                             IF request[c].todo = {r} THEN ForceAt("forceMark", Rooms)
                                                      ELSE ForceAt("forceEnd", request[c].todo \ {r})]
      BY <1>20 DEF ForceEnd
    <2>3. DocTypes /\ Growing
      BY <1>3, <1>20, <2>1, <2>2 DEF ForceEnd, DocTypes, Growing
    <2>4. CASE request[c].todo = {r}
      <3>1. Changed(c, ForceAt("forceMark", Rooms))
        BY <2>2, <2>4, RequestTypes, RequestFields DEF Changed, Steps, RoomSteps
      <3> QED
        BY <1>1, <1>6, <1>20, <2>3, <3>1 DEF ForceEnd
    <2>5. CASE request[c].todo # {r}
      <3>1. Changed(c, ForceAt("forceEnd", request[c].todo \ {r}))
        <4>1. request[c].todo \ {r} \in SUBSET Rooms
          BY <2>1
        <4> QED
          BY <2>2, <2>5, <4>1, RequestTypes, RequestFields DEF Changed, Steps, RoomSteps
      <3> QED
        BY <1>1, <1>6, <1>20, <2>3, <3>1 DEF ForceEnd
    <2> QED
      BY <2>4, <2>5
  <1>21. ASSUME NEW c \in Clients, ForceMark(c) PROVE TypeOK'
    <2>1. request[c].todo \subseteq Rooms
      BY <1>3 DEF Request
    <2>2. PICK r \in request[c].todo : ForceMarkAt(c, r)
      BY <1>21 DEF ForceMark
    <2>3. DocTypes /\ Growing /\ Counters
      <3>1. UNCHANGED <<status, initiator, endMessages, failures>>
        BY <1>21 DEF ForceMark
      <3>2. CASE UNCHANGED <<participants, adrift>>
        BY <1>5, <1>6, <3>1, <3>2 DEF documents
      <3>3. CASE \E i \in Positions(participants[r], UserOf(c)) :
                    /\ participants' = [participants EXCEPT ![r] = MarkLeft(participants[r], i)]
                    /\ adrift' = IF AllLeft(MarkLeft(participants[r], i)) THEN adrift \cup {r} ELSE adrift
        <4>1. PICK i : /\ participants' = [participants EXCEPT ![r] = MarkLeft(participants[r], i)]
                       /\ adrift' = IF AllLeft(MarkLeft(participants[r], i)) THEN adrift \cup {r} ELSE adrift
          BY <3>3
        <4>2. MarkLeft(participants[r], i) \in Seq(Entry)
          BY <1>3, <2>1, MarkLeftFacts
        <4> QED
          BY <1>3, <2>1, <3>1, <4>1, <4>2 DEF DocTypes, Growing, Counters
      <3> QED
        BY <2>2, <3>2, <3>3 DEF ForceMarkAt
    <2>4. Changed(c, ForceAt("forceMark", request[c].todo \ {r}))
      <3>1. request[c].todo \ {r} \in SUBSET Rooms
        BY <2>1
      <3> QED
        BY <2>2, <3>1, RequestTypes, RequestFields DEF ForceMarkAt, Changed, Steps, RoomSteps
    <2> QED
      BY <1>1, <2>3, <2>4
  <1>22. ASSUME NEW c \in Clients, RequestFails(c) PROVE TypeOK'
    <2>1. Counters
      BY <1>3, <1>4, <1>22, BoundAssumption DEF RequestFails, Counters, RoomSteps
    <2> QED
      BY <1>1, <1>5, <1>7, <1>22, <2>1 DEF RequestFails
  <1> QED
    BY <1>9, <1>10, <1>11, <1>12, <1>13, <1>14, <1>15, <1>16, <1>17, <1>18, <1>19, <1>20, <1>21, <1>22
      DEF Next, Ask, Continue

\* Every variable holds a value of its type, and every handler under way is
\* about a huddle that exists.
THEOREM TypeCorrect == Spec => []TypeOK
  BY TypeInit, TypeStep, PTL DEF Spec

-----------------------------------------------------------------------------
(* Emptied huddles                                                         *)

\* The leaves that are about to end a huddle are the same before and after.
SameClosers ==
    \A d \in Clients : request[d].at = "leaveEnd" \/ request'[d].at = "leaveEnd" =>
        request'[d] = request[d]

\* The same leaves are ending the same huddles.
LEMMA SameClosersSameRooms ==
    ASSUME SameClosers, NEW r \in Rooms
    PROVE  Closing(r)' <=> Closing(r)
  BY DEF SameClosers, Closing

\* Only LeaveHuddle, EndEmptied and a failure change which leaves are ending what.
QuietStep ==
    \/ \E c \in Clients :
          \/ CreateHuddle(c) \/ CreateSave(c)
          \/ \E r \in Rooms : JoinHuddle(c, r)
          \/ JoinRead(c) \/ AddParticipant(c)
          \/ CreateEndMessage(c)
          \/ ForceLeave(c) \/ ForceEnd(c) \/ ForceMark(c)
    \/ \E r \in Rooms : DeleteHuddle(r)
    \/ UNCHANGED vars

\* The three actions that change which leaves are ending something.
LEMMA OtherSteps ==
    [Next]_vars => \/ QuietStep
                   \/ \E c \in Clients, r \in Rooms : LeaveHuddle(c, r)
                   \/ \E c \in Clients : EndEmptied(c) \/ RequestFails(c)
  BY DEF Next, Ask, Continue, QuietStep

\* The others leave it alone.
LEMMA ClosersFrame == TypeOK /\ QuietStep => SameClosers
  <1> SUFFICES ASSUME TypeOK, QuietStep PROVE SameClosers
    OBVIOUS
  <1>1. request \in [Clients -> Request]
    BY DEF TypeOK
  <1>2. ASSUME NEW c \in Clients, NEW q, request' = [request EXCEPT ![c] = q],
               request[c].at # "leaveEnd", q.at # "leaveEnd"
        PROVE  SameClosers
    BY <1>1, <1>2 DEF SameClosers
  <1>3. CASE UNCHANGED request
    BY <1>3 DEF SameClosers
  <1>4. ASSUME NEW c \in Clients, CreateHuddle(c) \/ CreateSave(c) \/ JoinRead(c) \/ AddParticipant(c)
        PROVE  SameClosers
    BY <1>2, <1>4, RequestFields
      DEF CreateHuddle, CreateSave, JoinRead, AddParticipant, Answer, GoOn
  <1>5. ASSUME NEW c \in Clients, NEW r \in Rooms, JoinHuddle(c, r) PROVE SameClosers
    <2>1. request[c] = Idle /\ request' = [request EXCEPT ![c] = At("joinRead", r)]
      BY <1>5 DEF JoinHuddle, GoOn
    <2>2. request[c].at # "leaveEnd" /\ At("joinRead", r).at # "leaveEnd"
      BY <2>1, RequestFields
    <2> QED
      BY <1>2, <2>1, <2>2
  <1>6. ASSUME NEW c \in Clients, CreateEndMessage(c) \/ ForceLeave(c) PROVE SameClosers
    <2>1. ForceAt("forceEnd", Rooms).at # "leaveEnd"
      BY RequestFields
    <2> QED
      BY <1>2, <1>6, <2>1, RequestFields DEF CreateEndMessage, ForceLeave, Answer
  <1>7. ASSUME NEW c \in Clients, ForceEnd(c) PROVE SameClosers
    <2>1. PICK r \in request[c].todo :
            request' = [request EXCEPT ![c] =
                          IF request[c].todo = {r} THEN ForceAt("forceMark", Rooms)
                                                   ELSE ForceAt("forceEnd", request[c].todo \ {r})]
      BY <1>7 DEF ForceEnd
    <2>2. \A rs : ForceAt("forceMark", rs).at # "leaveEnd" /\ ForceAt("forceEnd", rs).at # "leaveEnd"
      BY RequestFields
    <2> QED
      BY <1>2, <1>7, <2>1, <2>2 DEF ForceEnd
  <1>8. ASSUME NEW c \in Clients, ForceMark(c) PROVE SameClosers
    <2>1. PICK r \in request[c].todo :
            request' = [request EXCEPT ![c] = ForceAt("forceMark", request[c].todo \ {r})]
      BY <1>8 DEF ForceMark, ForceMarkAt
    <2>2. \A rs : ForceAt("forceMark", rs).at # "leaveEnd"
      BY RequestFields
    <2> QED
      BY <1>2, <1>8, <2>1, <2>2 DEF ForceMark
  <1> QED
    BY <1>3, <1>4, <1>5, <1>6, <1>7, <1>8 DEF QuietStep, DeleteHuddle, vars

\* What a quiet step does to one huddle: nothing, or it comes into being, gains a
\* participant, is ended, or an entry is marked and, if it was the last, the
\* huddle is adrift.
Unchanged(r) == /\ status'[r] = status[r] /\ initiator'[r] = initiator[r]
                /\ participants'[r] = participants[r]
Created(r, u) == /\ status[r] = "none" /\ status'[r] = "active" /\ initiator'[r] = u
                 /\ participants'[r] = <<[user |-> u, left |-> FALSE]>>
Joined(r, u) == /\ status'[r] = status[r] /\ initiator'[r] = initiator[r]
                /\ participants'[r] = Append(participants[r], [user |-> u, left |-> FALSE])
Ended(r) == /\ status[r] # "none" /\ status'[r] = "ended" /\ initiator'[r] = initiator[r]
            /\ participants'[r] = participants[r]
Marked(r, i) == /\ status'[r] = status[r] /\ initiator'[r] = initiator[r]
                /\ participants'[r] = MarkLeft(participants[r], i)

QuietEffect(r) ==
    \/ Unchanged(r)
    \/ \E c \in Clients : /\ request[c].at = "createSave" /\ request'[c].at = "idle"
                          /\ Created(r, UserOf(c))
    \/ \E c \in Clients : /\ request[c].at = "joinPush" /\ request[c].room = r
                          /\ request'[c].at = "idle"
                          /\ Joined(r, UserOf(c))
    \/ Ended(r)
    \/ \E i : Marked(r, i) /\ (AllLeft(participants'[r]) => r \in adrift')

\* A step changes one huddle, if any, and leaves adrift what was.
Effects ==
    /\ adrift \subseteq adrift'
    /\ \A r \in Rooms : QuietEffect(r)
    /\ \A r, s \in Rooms : r # s => Unchanged(r) \/ Unchanged(s)

\* Every quiet step has one of those effects on each huddle.
LEMMA QuietEffects ==
    TypeOK /\ QuietStep => Effects
  <1> SUFFICES ASSUME TypeOK, QuietStep
               PROVE  Effects
    OBVIOUS
  <1>1. /\ status \in [Rooms -> {"none", "active", "ended"}]
        /\ initiator \in [Rooms -> Users \cup {None}]
        /\ participants \in [Rooms -> Seq(Entry)]
        /\ request \in [Clients -> Request]
        /\ \A c \in Clients : request[c].at \in RoomSteps =>
              request[c].room \in Rooms /\ status[request[c].room] # "none"
    BY DEF TypeOK
  <1>2. ASSUME UNCHANGED documents, adrift \subseteq adrift' PROVE Effects
    BY <1>2 DEF documents, Effects, QuietEffect, Unchanged
  <1>3. ASSUME NEW c \in Clients, CreateHuddle(c) \/ JoinRead(c) \/ CreateEndMessage(c) \/ ForceLeave(c)
        PROVE  Effects
    BY <1>2, <1>3 DEF CreateHuddle, JoinRead, CreateEndMessage, ForceLeave
  <1>4. ASSUME NEW c \in Clients, NEW r \in Rooms, JoinHuddle(c, r)
        PROVE  Effects
    BY <1>2, <1>4 DEF JoinHuddle
  <1>5. ASSUME NEW c \in Clients, CreateSave(c)
        PROVE  Effects
    <2>1. PICK r \in Rooms :
            /\ status[r] = "none"
            /\ status' = [status EXCEPT ![r] = "active"]
            /\ initiator' = [initiator EXCEPT ![r] = UserOf(c)]
            /\ participants' = [participants EXCEPT ![r] = <<[user |-> UserOf(c), left |-> FALSE]>>]
      BY <1>5 DEF CreateSave
    <2>2. Created(r, UserOf(c)) /\ \A s \in Rooms \ {r} : Unchanged(s)
      BY <1>1, <2>1 DEF Created, Unchanged
    <2> QED
      BY <1>1, <1>5, <2>2, RequestFields DEF CreateSave, Answer, Effects, QuietEffect
  <1>6. ASSUME NEW c \in Clients, AddParticipant(c)
        PROVE  Effects
    <2>1. request[c].room \in Rooms
      BY <1>1, <1>6 DEF AddParticipant, RoomSteps
    <2>2. Joined(request[c].room, UserOf(c)) /\ \A s \in Rooms \ {request[c].room} : Unchanged(s)
      BY <1>1, <1>6, <2>1 DEF AddParticipant, Joined, Unchanged
    <2> QED
      BY <1>1, <1>6, <2>2, RequestFields DEF AddParticipant, Answer, Effects, QuietEffect
  <1>7. ASSUME NEW c \in Clients, ForceEnd(c)
        PROVE  Effects
    <2>1. PICK r \in Rooms : status' = IF status[r] = "active" /\ initiator[r] = UserOf(c)
                                         THEN [status EXCEPT ![r] = "ended"] ELSE status
      BY <1>1, <1>7 DEF ForceEnd, Request
    <2>2. /\ Ended(r) \/ Unchanged(r)
          /\ \A s \in Rooms \ {r} : Unchanged(s)
      BY <1>1, <1>7, <2>1 DEF ForceEnd, Ended, Unchanged
    <2> QED
      BY <1>7, <2>2 DEF ForceEnd, Effects, QuietEffect
  <1>8. ASSUME NEW c \in Clients, ForceMark(c)
        PROVE  Effects
    <2>1. PICK r \in Rooms : ForceMarkAt(c, r)
      BY <1>1, <1>8 DEF ForceMark, Request
    <2>2. CASE UNCHANGED <<participants, adrift>>
      BY <1>2, <1>8, <2>2 DEF ForceMark, documents
    <2>3. ASSUME NEW i,
                 participants' = [participants EXCEPT ![r] = MarkLeft(participants[r], i)],
                 adrift' = IF AllLeft(MarkLeft(participants[r], i)) THEN adrift \cup {r} ELSE adrift
          PROVE  Effects
      <3>1. /\ Marked(r, i)
            /\ AllLeft(participants'[r]) => r \in adrift'
            /\ \A s \in Rooms \ {r} : Unchanged(s)
        BY <1>1, <1>8, <2>3 DEF ForceMark, Marked, Unchanged
      <3> QED
        BY <2>3, <3>1 DEF Effects, QuietEffect
    <2> QED
      BY <2>1, <2>2, <2>3 DEF ForceMarkAt
  <1>9. ASSUME NEW r \in Rooms, DeleteHuddle(r)
        PROVE  Effects
    <2>1. Ended(r) /\ \A s \in Rooms \ {r} : Unchanged(s)
      BY <1>1, <1>9 DEF DeleteHuddle, Ended, Unchanged
    <2> QED
      BY <1>9, <2>1 DEF DeleteHuddle, Effects, QuietEffect
  <1>10. CASE UNCHANGED vars
    BY <1>2, <1>10 DEF vars, documents
  <1> QED
    BY <1>3, <1>4, <1>5, <1>6, <1>7, <1>8, <1>9, <1>10 DEF QuietStep

\* A huddle just created or joined has somebody in it.
LEMMA SomebodyPresent ==
    ASSUME NEW ps \in Seq(Entry), NEW u \in Users
    PROVE  /\ ~AllLeft(<<[user |-> u, left |-> FALSE]>>)
           /\ ~AllLeft(Append(ps, [user |-> u, left |-> FALSE]))
  <1>1. Append(ps, [user |-> u, left |-> FALSE])[Len(ps) + 1] = [user |-> u, left |-> FALSE]
    BY NewEntry, AppendFacts
  <1>2. Len(ps) + 1 \in DOMAIN Append(ps, [user |-> u, left |-> FALSE])
    BY NewEntry, AppendFacts
  <1>3. <<[user |-> u, left |-> FALSE]>>[1] = [user |-> u, left |-> FALSE]
    OBVIOUS
  <1> QED
    BY <1>1, <1>2, <1>3 DEF AllLeft

\* What a leave does: the entry is marked, and when that leaves nobody the leave
\* goes on to end the huddle.
LEMMA LeaveEffect ==
    ASSUME TypeOK, NEW c \in Clients, NEW r \in Rooms, LeaveHuddle(c, r)
    PROVE  /\ \E i : Marked(r, i)
           /\ \A s \in Rooms \ {r} : Unchanged(s)
           /\ \A d \in Clients \ {c} : request'[d] = request[d]
           /\ request[c].at = "idle"
           /\ AllLeft(participants'[r]) => request'[c] = EndAt(r, Len(participants'[r]))
           /\ ~AllLeft(participants'[r]) => request'[c].at = "idle"
           /\ adrift' = adrift
  <1> DEFINE i == FirstOf(participants[r], UserOf(c))
             updated == MarkLeft(participants[r], i)
  <1>1. /\ request[c] = Idle
        /\ participants' = [participants EXCEPT ![r] = updated]
        /\ request' = IF AllLeft(updated) THEN [request EXCEPT ![c] = EndAt(r, Len(updated))] ELSE request
        /\ UNCHANGED <<status, initiator, adrift>>
    BY DEF LeaveHuddle
  <1>2. participants \in [Rooms -> Seq(Entry)] /\ request \in [Clients -> Request]
    BY DEF TypeOK
  <1> HIDE DEF updated
  <1>3. participants'[r] = updated /\ \A s \in Rooms \ {r} : Unchanged(s)
    BY <1>1, <1>2 DEF Unchanged
  <1>4. Marked(r, i)
    BY <1>1, <1>3 DEF Marked, updated
  <1>5. request[c].at = "idle"
    BY <1>1, RequestFields
  <1>6. CASE AllLeft(updated)
    BY <1>1, <1>2, <1>3, <1>4, <1>5, <1>6
  <1>7. CASE ~AllLeft(updated)
    BY <1>1, <1>2, <1>3, <1>4, <1>5, <1>7
  <1> QED
    BY <1>6, <1>7

\* Ending an emptied huddle changes its status only.
LEMMA EndEffect ==
    ASSUME TypeOK, NEW c \in Clients, EndEmptied(c)
    PROVE  /\ request[c].room \in Rooms
           /\ Ended(request[c].room)
           /\ \A s \in Rooms \ {request[c].room} : Unchanged(s)
           /\ \A d \in Clients \ {c} : request'[d] = request[d]
           /\ request[c].at = "leaveEnd" /\ request'[c].at = "leaveMessage"
           /\ adrift' = adrift
  <1>1. /\ status \in [Rooms -> {"none", "active", "ended"}]
        /\ request \in [Clients -> Request]
        /\ request[c].room \in Rooms /\ status[request[c].room] # "none"
    BY DEF TypeOK, EndEmptied, RoomSteps
  <1>2. request'[c] = At("leaveMessage", request[c].room)
    BY <1>1 DEF EndEmptied, GoOn
  <1> QED
    BY <1>1, <1>2, RequestFields DEF EndEmptied, GoOn, Ended, Unchanged

\* A failure changes no document; the huddle it was ending is adrift.
LEMMA FailEffect ==
    ASSUME TypeOK, NEW c \in Clients, RequestFails(c)
    PROVE  /\ \A r \in Rooms : Unchanged(r)
           /\ \A d \in Clients \ {c} : request'[d] = request[d]
           /\ request'[c].at = "idle"
           /\ adrift' = IF request[c].at = "leaveEnd" THEN adrift \cup {request[c].room} ELSE adrift
  <1>1. request \in [Clients -> Request]
    BY DEF TypeOK
  <1>2. request'[c] = Idle
    BY <1>1 DEF RequestFails, Answer
  <1> QED
    BY <1>1, <1>2, RequestFields DEF RequestFails, Answer, documents, Unchanged

\* At first no huddle is active.
LEMMA EmptyInit == Init => EmptyIsClosing
  BY DEF Init, EmptyIsClosing

\* A huddle empties by a leave, which goes on to end it, or is left adrift.
LEMMA EmptyStep == TypeOK /\ EmptyIsClosing /\ [Next]_vars => EmptyIsClosing'
  <1> SUFFICES ASSUME TypeOK, EmptyIsClosing, [Next]_vars,
                      NEW r \in Rooms, status'[r] = "active", AllLeft(participants'[r])
               PROVE  Closing(r)' \/ r \in adrift'
    BY DEF EmptyIsClosing
  <1>0. status[r] = "active" /\ AllLeft(participants[r]) => Closing(r) \/ r \in adrift
    BY DEF EmptyIsClosing
  <1>1. participants[r] \in Seq(Entry)
    BY DEF TypeOK
  <1>2. CASE QuietStep
    <2>1. SameClosers /\ adrift \subseteq adrift' /\ QuietEffect(r)
      BY <1>2, ClosersFrame, QuietEffects DEF Effects
    <2>2. CASE Unchanged(r)
      BY <1>0, <2>1, <2>2, SameClosersSameRooms DEF Unchanged
    <2>3. ~ \E u \in Users : Created(r, u) \/ Joined(r, u)
      BY <1>1, SomebodyPresent DEF Created, Joined
    <2>4. ~Ended(r)
      BY DEF Ended
    <2> QED
      BY <2>1, <2>2, <2>3, <2>4, UserOfType DEF QuietEffect
  <1>3. ASSUME NEW c \in Clients, NEW s \in Rooms, LeaveHuddle(c, s) PROVE Closing(r)' \/ r \in adrift'
    <2>1. CASE r = s
      <3>1. request'[c] = EndAt(r, Len(participants'[r]))
        BY <1>3, <2>1, LeaveEffect
      <3> QED
        BY <3>1, RequestFields DEF Closing
    <2>2. CASE r # s
      <3>1. Unchanged(r) /\ adrift' = adrift /\ \A d \in Clients : request[d].at = "leaveEnd" => request'[d] = request[d]
        BY <1>3, <2>2, LeaveEffect
      <3> QED
        BY <1>0, <3>1 DEF Unchanged, Closing
    <2> QED
      BY <2>1, <2>2
  <1>4. ASSUME NEW c \in Clients, EndEmptied(c) PROVE Closing(r)' \/ r \in adrift'
    <2>1. r # request[c].room
      BY <1>4, EndEffect DEF Ended
    <2>2. Unchanged(r) /\ adrift' = adrift
          /\ \A d \in Clients : request[d].at = "leaveEnd" /\ request[d].room = r => request'[d] = request[d]
      BY <1>4, <2>1, EndEffect
    <2> QED
      BY <1>0, <2>2 DEF Unchanged, Closing
  <1>5. ASSUME NEW c \in Clients, RequestFails(c) PROVE Closing(r)' \/ r \in adrift'
    <2>1. Unchanged(r) /\ adrift \subseteq adrift'
      BY <1>5, FailEffect
    <2>2. ASSUME NEW d \in Clients, request[d].at = "leaveEnd", request[d].room = r
          PROVE  Closing(r)' \/ r \in adrift'
      BY <1>5, <2>2, FailEffect DEF Closing
    <2> QED
      BY <1>0, <2>1, <2>2 DEF Unchanged, Closing
  <1> QED
    BY <1>2, <1>3, <1>4, <1>5, OtherSteps

\* A huddle nobody is in is being ended.
THEOREM EmptiedAreClosing == Spec => []EmptyIsClosing
  BY TypeInit, TypeStep, EmptyInit, EmptyStep, PTL DEF Spec

-----------------------------------------------------------------------------
(* Leaves and latecomers                                                   *)

\* Entries are never taken out, and who has left has left.
EntriesStay(r) ==
    /\ Len(participants[r]) <= Len(participants'[r])
    /\ \A i \in 1..Len(participants[r]) : participants[r][i].left => participants'[r][i].left

\* No effect on an existing huddle takes an entry out or brings one back.
LEMMA EntriesStayOnEffect ==
    ASSUME TypeOK, NEW r \in Rooms, status[r] # "none",
           \/ Unchanged(r) \/ Ended(r)
           \/ \E u \in Users : Joined(r, u)
           \/ \E i : Marked(r, i)
    PROVE  EntriesStay(r)
  <1>1. participants[r] \in Seq(Entry)
    BY DEF TypeOK
  <1>2. CASE Unchanged(r) \/ Ended(r)
    BY <1>1, <1>2 DEF Unchanged, Ended, EntriesStay
  <1>3. ASSUME NEW u \in Users, Joined(r, u) PROVE EntriesStay(r)
    BY <1>1, <1>3, NewEntry, AppendFacts DEF Joined, EntriesStay
  <1>4. ASSUME NEW i, Marked(r, i) PROVE EntriesStay(r)
    BY <1>1, <1>4, MarkLeftFacts DEF Marked, EntriesStay
  <1> QED
    BY <1>2, <1>3, <1>4

\* A leave that is ending a huddle and did so before the step.
LEMMA CloserKept ==
    ASSUME TypeOK, TypeOK', ClosesOnlyOnLatecomers, NEW c \in Clients,
           request'[c] = request[c], request[c].at = "leaveEnd", EntriesStay(request[c].room)
    PROVE  /\ request'[c].seen <= Len(participants'[request'[c].room])
           /\ \A i \in 1..request'[c].seen : participants'[request'[c].room][i].left
  <1> DEFINE r == request[c].room
             n == request[c].seen
  <1>1. participants[r] \in Seq(Entry) /\ n \in Nat
    BY DEF TypeOK, RoomSteps, Request
  <1>2. n <= Len(participants[r]) /\ \A i \in 1..n : participants[r][i].left
    BY DEF ClosesOnlyOnLatecomers
  <1>3. n <= Len(participants'[r])
    <2>1. participants'[r] \in Seq(Entry)
      <3>1. r \in Rooms
        BY DEF TypeOK, RoomSteps
      <3> QED
        BY <3>1 DEF TypeOK
    <2>2. Len(participants[r]) \in Nat /\ Len(participants'[r]) \in Nat
      BY <1>1, <2>1
    <2> QED
      BY <1>1, <1>2, <2>2 DEF EntriesStay
  <1> QED
    BY <1>1, <1>2, <1>3 DEF EntriesStay

\* At first no leave is under way.
LEMMA LatecomersInit == Init => ClosesOnlyOnLatecomers
  BY RequestFields DEF Init, ClosesOnlyOnLatecomers

\* A leave that goes on saw every entry marked, and marks stay.
LEMMA LatecomersStep ==
    TypeOK /\ TypeOK' /\ ClosesOnlyOnLatecomers /\ [Next]_vars => ClosesOnlyOnLatecomers'
  <1> SUFFICES ASSUME TypeOK, TypeOK', ClosesOnlyOnLatecomers, [Next]_vars,
                      NEW d \in Clients, request'[d].at = "leaveEnd"
               PROVE  /\ request'[d].seen <= Len(participants'[request'[d].room])
                      /\ \A i \in 1..request'[d].seen : participants'[request'[d].room][i].left
    BY DEF ClosesOnlyOnLatecomers
  <1>1. request[d].at = "leaveEnd" => request[d].room \in Rooms /\ status[request[d].room] # "none"
    BY DEF TypeOK, RoomSteps
  <1>2. CASE QuietStep
    <2>1. request'[d] = request[d]
      BY <1>2, ClosersFrame DEF SameClosers
    <2>2. QuietEffect(request[d].room)
      BY <1>1, <1>2, <2>1, QuietEffects DEF Effects
    <2>3. EntriesStay(request[d].room)
      BY <1>1, <2>1, <2>2, EntriesStayOnEffect, UserOfType DEF QuietEffect, Created
    <2> QED
      BY <2>1, <2>3, CloserKept
  <1>3. ASSUME NEW c \in Clients, NEW r \in Rooms, LeaveHuddle(c, r)
        PROVE  /\ request'[d].seen <= Len(participants'[request'[d].room])
               /\ \A i \in 1..request'[d].seen : participants'[request'[d].room][i].left
    <2>1. CASE d = c
      <3>1. AllLeft(participants'[r]) /\ request'[d] = EndAt(r, Len(participants'[r]))
        BY <1>3, <2>1, LeaveEffect
      <3>2. request'[d].room = r /\ request'[d].seen = Len(participants'[r])
        BY <3>1, RequestFields
      <3>3. participants'[r] \in Seq(Entry)
        BY DEF TypeOK
      <3> QED
        BY <3>1, <3>2, <3>3 DEF AllLeft
    <2>2. CASE d # c
      <3>1. request'[d] = request[d]
        BY <1>3, <2>2, LeaveEffect
      <3>2. Unchanged(request[d].room) \/ \E i : Marked(request[d].room, i)
        BY <1>1, <1>3, <3>1, LeaveEffect
      <3>3. EntriesStay(request[d].room)
        BY <1>1, <3>1, <3>2, EntriesStayOnEffect
      <3> QED
        BY <3>1, <3>3, CloserKept
    <2> QED
      BY <2>1, <2>2
  <1>4. ASSUME NEW c \in Clients, EndEmptied(c) \/ RequestFails(c)
        PROVE  /\ request'[d].seen <= Len(participants'[request'[d].room])
               /\ \A i \in 1..request'[d].seen : participants'[request'[d].room][i].left
    <2>1. d # c
      BY <1>4, EndEffect, FailEffect
    <2>2. request'[d] = request[d]
      BY <1>4, <2>1, EndEffect, FailEffect
    <2>3. Unchanged(request[d].room) \/ Ended(request[d].room)
      BY <1>1, <1>4, <2>2, EndEffect, FailEffect
    <2>4. EntriesStay(request[d].room)
      BY <1>1, <2>2, <2>3, EntriesStayOnEffect
    <2> QED
      BY <2>2, <2>4, CloserKept
  <1> QED
    BY <1>2, <1>3, <1>4, OtherSteps

\* A leave ends a huddle only on those who joined after it looked.
THEOREM LeavesSpareThePresent == Spec => []ClosesOnlyOnLatecomers
  BY TypeInit, TypeStep, LatecomersInit, LatecomersStep, PTL DEF Spec

-----------------------------------------------------------------------------
(* One huddle for a user with one device                                   *)

\* Whoever is about to save a new huddle is held by no open one.
CreatorsAreFree ==
    \A c \in Clients, r \in Rooms :
        request[c].at = "createSave" /\ Open(r) => ~Counts(r, UserOf(c))

\* Whoever is about to join an open huddle is held by no other open one.
JoinersAreFree ==
    \A c \in Clients, r, s \in Rooms :
        request[c].at \in {"joinRead", "joinPush"} /\ request[c].room = s /\ Open(s)
          /\ Open(r) /\ Counts(r, UserOf(c)) => r = s

\* What makes HeldByOneHuddle inductive: the checks of createHuddle and joinHuddle
\* stay valid until the write, because nobody else can get the user into a huddle
\* and because an emptied huddle is not open again.
Held == HeldByOneHuddle /\ (OneDevice => CreatorsAreFree /\ JoinersAreFree)

Inv == TypeOK /\ EmptyIsClosing /\ ClosesOnlyOnLatecomers /\ Held

\* What any step does to any one huddle.
Effect(r) ==
    \/ QuietEffect(r)
    \/ \E i : Marked(r, i)

\* Every step has an effect on one huddle at most.
LEMMA StepEffects ==
    ASSUME TypeOK, [Next]_vars
    PROVE  /\ adrift \subseteq adrift'
           /\ \A r \in Rooms : Effect(r)
           /\ \A r, s \in Rooms : r # s => Unchanged(r) \/ Unchanged(s)
  <1>1. CASE QuietStep
    BY <1>1, QuietEffects DEF Effects, Effect
  <1>2. ASSUME NEW c \in Clients, NEW r \in Rooms, LeaveHuddle(c, r)
        PROVE  /\ adrift \subseteq adrift'
               /\ \A s \in Rooms : Effect(s)
               /\ \A s, t \in Rooms : s # t => Unchanged(s) \/ Unchanged(t)
    <2>1. (\E i : Marked(r, i)) /\ (\A s \in Rooms \ {r} : Unchanged(s)) /\ adrift' = adrift
      BY <1>2, LeaveEffect
    <2> QED
      BY <2>1 DEF Effect, QuietEffect
  <1>3. ASSUME NEW c \in Clients, EndEmptied(c)
        PROVE  /\ adrift \subseteq adrift'
               /\ \A s \in Rooms : Effect(s)
               /\ \A s, t \in Rooms : s # t => Unchanged(s) \/ Unchanged(t)
    BY <1>3, EndEffect DEF Effect, QuietEffect
  <1>4. ASSUME NEW c \in Clients, RequestFails(c)
        PROVE  /\ adrift \subseteq adrift'
               /\ \A s \in Rooms : Effect(s)
               /\ \A s, t \in Rooms : s # t => Unchanged(s) \/ Unchanged(t)
    BY <1>4, FailEffect DEF Effect, QuietEffect
  <1> QED
    BY <1>1, <1>2, <1>3, <1>4, OtherSteps

\* A huddle that is being ended is so until it is ended or left adrift.
LEMMA ClosingUntilOver ==
    ASSUME TypeOK, [Next]_vars, NEW r \in Rooms, Closing(r)
    PROVE  Closing(r)' \/ status'[r] = "ended" \/ r \in adrift'
  <1>1. PICK d \in Clients : request[d].at = "leaveEnd" /\ request[d].room = r
    BY DEF Closing
  <1>2. request'[d] = request[d] => Closing(r)'
    BY <1>1 DEF Closing
  <1>3. CASE QuietStep
    BY <1>1, <1>2, <1>3, ClosersFrame DEF SameClosers
  <1>4. ASSUME NEW c \in Clients, NEW s \in Rooms, LeaveHuddle(c, s) PROVE request'[d] = request[d]
    BY <1>1, <1>4, LeaveEffect
  <1>5. ASSUME NEW c \in Clients, EndEmptied(c) PROVE request'[d] = request[d] \/ status'[r] = "ended"
    BY <1>1, <1>5, EndEffect DEF Ended
  <1>6. ASSUME NEW c \in Clients, RequestFails(c) PROVE request'[d] = request[d] \/ r \in adrift'
    BY <1>1, <1>6, FailEffect
  <1> QED
    BY <1>2, <1>3, <1>4, <1>5, <1>6, OtherSteps

\* An open huddle was open before, or has just been created.
LEMMA OpenBefore ==
    ASSUME TypeOK, [Next]_vars, NEW r \in Rooms, Open(r)'
    PROVE  \/ Open(r)
           \/ \E c \in Clients : /\ request[c].at = "createSave" /\ request'[c].at = "idle"
                                 /\ Created(r, UserOf(c))
  <1>1. status'[r] = "active" /\ ~Closing(r)' /\ r \notin adrift'
    BY DEF Open
  <1>2. r \notin adrift /\ ~Closing(r)
    BY <1>1, StepEffects, ClosingUntilOver
  <1>3. Effect(r)
    BY StepEffects
  <1> QED
    BY <1>1, <1>2, <1>3 DEF Effect, QuietEffect, Unchanged, Joined, Ended, Marked, Open

\* A user is held by an open huddle after a step if it was so before, or if the
\* user's own request has just created or joined it.
LEMMA HeldBefore ==
    ASSUME TypeOK, EmptyIsClosing, [Next]_vars, NEW r \in Rooms, NEW u \in Users,
           Open(r)', Counts(r, u)'
    PROVE  \/ Open(r) /\ Counts(r, u)
           \/ \E c \in Clients : /\ UserOf(c) = u /\ request'[c].at = "idle"
                                 /\ request[c].at = "createSave" /\ Created(r, u)
           \/ \E c \in Clients : /\ UserOf(c) = u /\ request'[c].at = "idle"
                                 /\ request[c].at = "joinPush" /\ request[c].room = r
                                 /\ Open(r) /\ Joined(r, u)
  <1>1. /\ initiator'[r] = u \/ (Lists(participants'[r], u) /\ ~AllLeft(participants'[r]))
        /\ status'[r] = "active"
    BY DEF Counts
  <1>2. participants[r] \in Seq(Entry)
    BY DEF TypeOK
  <1>3. ASSUME NEW c \in Clients, Created(r, UserOf(c)), request[c].at = "createSave", request'[c].at = "idle"
        PROVE  UserOf(c) = u
    BY <1>1, <1>3 DEF Created, Lists
  <1>4. ASSUME Open(r), Effect(r), ~Counts(r, u)
        PROVE  \E c \in Clients : /\ UserOf(c) = u /\ request'[c].at = "idle"
                                  /\ request[c].at = "joinPush" /\ request[c].room = r
                                  /\ Open(r) /\ Joined(r, u)
    <2>1. ~AllLeft(participants[r]) /\ status[r] = "active" /\ initiator[r] # u
          /\ ~Lists(participants[r], u)
      BY <1>4 DEF Open, EmptyIsClosing, Counts
    <2>2. ~Unchanged(r) /\ ~Ended(r)
      BY <1>1, <2>1 DEF Unchanged, Ended
    <2>3. ASSUME NEW i, Marked(r, i) PROVE FALSE
      BY <1>1, <1>2, <2>1, <2>3, MarkLeftFacts DEF Marked, Lists
    <2>4. ~ \E v : Created(r, v)
      BY <2>1 DEF Created
    <2>5. PICK c \in Clients : /\ request[c].at = "joinPush" /\ request[c].room = r
                               /\ request'[c].at = "idle" /\ Joined(r, UserOf(c))
      BY <1>4, <2>2, <2>3, <2>4 DEF Effect, QuietEffect
    <2>6. UserOf(c) = u
      <3>1. PICK j \in DOMAIN participants'[r] : participants'[r][j].user = u
        BY <1>1, <2>1, <2>5 DEF Joined, Lists
      <3>2. participants'[r] = Append(participants[r], [user |-> UserOf(c), left |-> FALSE])
        BY <2>5 DEF Joined
      <3>3. j \in 1..(Len(participants[r]) + 1)
        BY <1>2, <3>1, <3>2, UserOfType, NewEntry, AppendFacts
      <3>4. j \notin 1..Len(participants[r])
        BY <1>2, <2>1, <3>1, <3>2, UserOfType, NewEntry, AppendFacts DEF Lists
      <3>5. j = Len(participants[r]) + 1
        BY <1>2, <3>3, <3>4
      <3> QED
        BY <1>2, <3>1, <3>2, <3>5, UserOfType, NewEntry, AppendFacts
    <2> QED
      BY <1>4, <2>5, <2>6
  <1> QED
    BY <1>3, <1>4, OpenBefore, StepEffects

\* A device waits to save or to join because it did before, or because its check
\* has just succeeded; a check changes no document.
LEMMA ChecksBefore ==
    ASSUME TypeOK, [Next]_vars, NEW c \in Clients,
           request'[c].at \in {"createSave", "joinRead", "joinPush"}
    PROVE  \/ request'[c] = request[c]
           \/ CreateHuddle(c) /\ request'[c] = At("createSave", None)
           \/ \E r \in Rooms : JoinHuddle(c, r) /\ request'[c] = At("joinRead", r)
           \/ JoinRead(c) /\ request'[c] = At("joinPush", request[c].room)
  <1>1. request \in [Clients -> Request]
    BY DEF TypeOK
  <1>2. ASSUME NEW d \in Clients, d # c, NEW q, request' = [request EXCEPT ![d] = q]
        PROVE  request'[c] = request[c]
    BY <1>1, <1>2
  <1>3. ASSUME NEW q, request' = [request EXCEPT ![c] = q] PROVE request'[c] = q
    BY <1>1, <1>3
  <1>4. ASSUME NEW d \in Clients,
               CreateSave(d) \/ AddParticipant(d) \/ EndEmptied(d) \/ CreateEndMessage(d)
                 \/ ForceLeave(d) \/ RequestFails(d)
        PROVE  request'[c] = request[c]
    <2>1. PICK q : request' = [request EXCEPT ![d] = q] /\ q.at \in {"idle", "leaveMessage", "forceEnd"}
      <3>1. ForceAt("forceEnd", Rooms).at \in {"idle", "forceEnd"}
        BY RequestFields
      <3> QED
        BY <1>4, <3>1, RequestFields
          DEF CreateSave, AddParticipant, EndEmptied, CreateEndMessage, ForceLeave, RequestFails, Answer, GoOn
    <2> QED
      BY <1>2, <1>3, <2>1
  <1>5. ASSUME NEW d \in Clients, ForceEnd(d) PROVE request'[c] = request[c]
    <2>1. PICK r \in request[d].todo :
            request' = [request EXCEPT ![d] =
                          IF request[d].todo = {r} THEN ForceAt("forceMark", Rooms)
                                                   ELSE ForceAt("forceEnd", request[d].todo \ {r})]
      BY <1>5 DEF ForceEnd
    <2>2. \A rs : /\ ForceAt("forceMark", rs).at \in {"idle", "forceMark"}
                  /\ ForceAt("forceEnd", rs).at \in {"idle", "forceEnd"}
      BY RequestFields
    <2>3. CASE d = c
      BY <1>3, <2>1, <2>2, <2>3
    <2> QED
      BY <1>2, <2>1, <2>3
  <1>6. ASSUME NEW d \in Clients, ForceMark(d) PROVE request'[c] = request[c]
    <2>1. PICK r \in request[d].todo :
            request' = [request EXCEPT ![d] = ForceAt("forceMark", request[d].todo \ {r})]
      BY <1>6 DEF ForceMark, ForceMarkAt
    <2>2. \A rs : ForceAt("forceMark", rs).at \in {"idle", "forceMark"}
      BY RequestFields
    <2>3. CASE d = c
      BY <1>3, <2>1, <2>2, <2>3
    <2> QED
      BY <1>2, <2>1, <2>3
  <1>7. ASSUME NEW d \in Clients, NEW r \in Rooms, LeaveHuddle(d, r) PROVE request'[c] = request[c]
    <2>1. d # c
      BY <1>7, LeaveEffect, RequestFields
    <2> QED
      BY <1>7, <2>1, LeaveEffect
  <1>8. ASSUME NEW d \in Clients, NEW r \in Rooms, JoinHuddle(d, r)
        PROVE  request'[c] = request[c] \/ (d = c /\ request'[c] = At("joinRead", r))
    <2>1. request' = [request EXCEPT ![d] = At("joinRead", r)]
      BY <1>8 DEF JoinHuddle, GoOn
    <2> QED
      BY <1>2, <1>3, <2>1
  <1>9. ASSUME NEW d \in Clients, CreateHuddle(d)
        PROVE  request'[c] = request[c] \/ (d = c /\ request'[c] = At("createSave", None))
    <2>1. request' = [request EXCEPT ![d] = At("createSave", None)]
      BY <1>9 DEF CreateHuddle, GoOn
    <2> QED
      BY <1>2, <1>3, <2>1
  <1>10. ASSUME NEW d \in Clients, JoinRead(d)
         PROVE  request'[c] = request[c] \/ (d = c /\ request'[c] = At("joinPush", request[c].room))
    <2>1. \/ request' = [request EXCEPT ![d] = At("joinPush", request[d].room)]
          \/ request' = [request EXCEPT ![d] = Idle]
      BY <1>10 DEF JoinRead, GoOn, Answer
    <2> QED
      BY <1>2, <1>3, <2>1, RequestFields
  <1>11. CASE UNCHANGED request
    BY <1>11
  <1> QED
    BY <1>4, <1>5, <1>6, <1>7, <1>8, <1>9, <1>10, <1>11 DEF Next, Ask, Continue, vars, DeleteHuddle

\* With one device per user, the user tells the device.
LEMMA OneClientPerUser ==
    ASSUME OneDevice, NEW c \in Clients, NEW d \in Clients, UserOf(c) = UserOf(d)
    PROVE  c = d
  BY DEF OneDevice, Clients, UserOf

\* A check changes neither the documents nor which huddles are open.
LEMMA CheckFrame ==
    ASSUME TypeOK, NEW c \in Clients,
           CreateHuddle(c) \/ (\E r \in Rooms : JoinHuddle(c, r)) \/ JoinRead(c),
           NEW s \in Rooms, NEW u
    PROVE  (Open(s)' => Open(s)) /\ (Counts(s, u)' => Counts(s, u))
  <1>1. UNCHANGED documents /\ UNCHANGED adrift
    BY DEF CreateHuddle, JoinHuddle, JoinRead
  <1>2. QuietStep
    BY DEF QuietStep
  <1>3. Closing(s)' <=> Closing(s)
    BY <1>2, ClosersFrame, SameClosersSameRooms
  <1> QED
    BY <1>1, <1>3 DEF documents, Open, Counts

\* At first no huddle is open.
LEMMA HeldInit == Init => Held
  BY RequestFields DEF Init, Held, HeldByOneHuddle, CreatorsAreFree, JoinersAreFree, Open, Counts

\* The checks hold until the write they are for.
LEMMA HeldStep == TypeOK /\ EmptyIsClosing /\ Held /\ [Next]_vars => Held'
  <1> SUFFICES ASSUME TypeOK, EmptyIsClosing, Held, [Next]_vars, OneDevice
               PROVE  HeldByOneHuddle' /\ CreatorsAreFree' /\ JoinersAreFree'
    BY DEF Held, HeldByOneHuddle, OneDevice
  <1>1. HeldByOneHuddle /\ CreatorsAreFree /\ JoinersAreFree
    BY DEF Held
  <1>2. ASSUME NEW u \in Users, NEW r \in Rooms, NEW s \in Rooms,
               Open(r)', Open(s)', Counts(r, u)', Counts(s, u)'
        PROVE  r = s
    <2>1. \A t, x \in Rooms : t # x => Unchanged(t) \/ Unchanged(x)
      BY StepEffects
    <2>2. \A t \in Rooms, v \in Users : Created(t, v) \/ Joined(t, v) => ~Unchanged(t)
      <3> SUFFICES ASSUME NEW t \in Rooms, NEW v \in Users, Created(t, v) \/ Joined(t, v), Unchanged(t)
                   PROVE  FALSE
        OBVIOUS
      <3>1. participants[t] \in Seq(Entry)
        BY DEF TypeOK
      <3>2. CASE Joined(t, v)
        BY <3>1, <3>2, NewEntry, AppendFacts DEF Joined, Unchanged
      <3>3. CASE Created(t, v)
        BY <3>3 DEF Created, Unchanged
      <3> QED
        BY <3>2, <3>3
    <2>3. CASE Open(r) /\ Counts(r, u) /\ Open(s) /\ Counts(s, u)
      BY <1>1, <2>3 DEF HeldByOneHuddle
    <2>4. ASSUME NEW t \in Rooms, NEW x \in Rooms, Open(t), Counts(t, u),
                 NEW c \in Clients, UserOf(c) = u,
                 \/ request[c].at = "createSave"
                 \/ request[c].at = "joinPush" /\ request[c].room = x /\ Open(x)
          PROVE  t = x
      BY <1>1, <2>4 DEF CreatorsAreFree, JoinersAreFree
    <2>5. /\ \/ Open(r) /\ Counts(r, u)
             \/ /\ \E c \in Clients : /\ UserOf(c) = u
                                      /\ \/ request[c].at = "createSave"
                                         \/ request[c].at = "joinPush" /\ request[c].room = r /\ Open(r)
                /\ ~Unchanged(r)
          /\ \/ Open(s) /\ Counts(s, u)
             \/ /\ \E c \in Clients : /\ UserOf(c) = u
                                      /\ \/ request[c].at = "createSave"
                                         \/ request[c].at = "joinPush" /\ request[c].room = s /\ Open(s)
                /\ ~Unchanged(s)
      BY <1>2, <2>2, HeldBefore
    <2> QED
      BY <2>1, <2>3, <2>4, <2>5
  <1>3. ASSUME NEW c \in Clients, NEW r \in Rooms,
               request'[c].at = "createSave", Open(r)', Counts(r, UserOf(c))'
        PROVE  FALSE
    <2>1. CASE request'[c] = request[c]
      <3>1. Open(r) /\ Counts(r, UserOf(c))
        BY <1>3, <2>1, HeldBefore, OneClientPerUser, UserOfType
      <3> QED
        BY <1>1, <1>3, <2>1, <3>1 DEF CreatorsAreFree
    <2>2. CASE CreateHuddle(c)
      BY <1>3, <2>2, CheckFrame DEF CreateHuddle
    <2> QED
      BY <1>3, <2>1, <2>2, ChecksBefore, RequestFields
  <1>4. ASSUME NEW c \in Clients, NEW r \in Rooms, NEW s \in Rooms,
               request'[c].at \in {"joinRead", "joinPush"}, request'[c].room = s, Open(s)',
               Open(r)', Counts(r, UserOf(c))'
        PROVE  r = s
    <2>1. CASE request'[c] = request[c]
      <3>1. request[c].room = s /\ request[c].at \in {"joinRead", "joinPush"}
        BY <1>4, <2>1
      <3>2. status[s] # "none"
        BY <3>1 DEF TypeOK, RoomSteps
      <3>3. Open(s)
        BY <1>4, <3>2, OpenBefore DEF Created
      <3>4. Open(r) /\ Counts(r, UserOf(c))
        BY <1>4, <2>1, HeldBefore, OneClientPerUser, UserOfType
      <3> QED
        BY <1>1, <3>1, <3>3, <3>4 DEF JoinersAreFree
    <2>2. ASSUME NEW t \in Rooms, JoinHuddle(c, t), request'[c] = At("joinRead", t)
          PROVE  r = s
      <3>1. t = s
        BY <1>4, <2>2, RequestFields
      <3>2. Open(s) /\ Open(r) /\ Counts(r, UserOf(c))
        <4>1. (Open(s)' => Open(s)) /\ (Open(r)' => Open(r)) /\ (Counts(r, UserOf(c))' => Counts(r, UserOf(c)))
          BY <2>2, CheckFrame
        <4> QED
          BY <1>4, <4>1
      <3>3. Counts(s, UserOf(c))
        BY <2>2, <3>1, <3>2 DEF JoinHuddle
      <3> QED
        BY <1>1, <3>2, <3>3, UserOfType DEF HeldByOneHuddle
    <2>3. CASE JoinRead(c) /\ request'[c] = At("joinPush", request[c].room)
      <3>1. request[c].room = s /\ request[c].at = "joinRead"
        BY <1>4, <2>3, RequestFields DEF JoinRead
      <3>2. Open(s) /\ Open(r) /\ Counts(r, UserOf(c))
        <4>1. (Open(s)' => Open(s)) /\ (Open(r)' => Open(r)) /\ (Counts(r, UserOf(c))' => Counts(r, UserOf(c)))
          BY <2>3, CheckFrame
        <4> QED
          BY <1>4, <4>1
      <3> QED
        BY <1>1, <3>1, <3>2 DEF JoinersAreFree
    <2> QED
      BY <1>4, <2>1, <2>2, <2>3, ChecksBefore, RequestFields
  <1>5. JoinersAreFree'
    <2> SUFFICES ASSUME NEW c \in Clients, NEW r \in Rooms, NEW s \in Rooms,
                        request'[c].at \in {"joinRead", "joinPush"}, request'[c].room = s, Open(s)',
                        Open(r)', Counts(r, UserOf(c))'
                 PROVE  r = s
      BY DEF JoinersAreFree
    <2> QED
      BY <1>4
  <1>6. CreatorsAreFree'
    BY <1>3 DEF CreatorsAreFree
  <1>7. HeldByOneHuddle'
    BY <1>2 DEF HeldByOneHuddle
  <1> QED
    BY <1>5, <1>6, <1>7

\* The invariant: together its parts are inductive.
LEMMA InvInit == Init => Inv
  BY TypeInit, EmptyInit, LatecomersInit, HeldInit DEF Inv

\* Every step keeps the invariant.
LEMMA InvStep == Inv /\ [Next]_vars => Inv'
  <1> SUFFICES ASSUME Inv, [Next]_vars PROVE TypeOK' /\ EmptyIsClosing' /\ ClosesOnlyOnLatecomers' /\ Held'
    BY DEF Inv
  <1> QED
    BY TypeStep, EmptyStep, LatecomersStep, HeldStep DEF Inv

\* A user with one device is held by at most one open huddle.
THEOREM OneHuddlePerUser == Spec => []HeldByOneHuddle
  <1>1. Inv => HeldByOneHuddle
    BY DEF Inv, Held
  <1> QED
    BY <1>1, InvInit, InvStep, PTL DEF Spec

-----------------------------------------------------------------------------
(* The documents implement HuddleRooms                                     *)

\* Only a huddle that was created can be left adrift.
AdriftExist == \A r \in adrift : r \in Rooms /\ status[r] # "none"

RefInv == TypeOK /\ EmptyIsClosing /\ AdriftExist

\* A leave goes on to end a huddle only if it saw it empty.
LEMMA NewlyClosing ==
    ASSUME TypeOK, [Next]_vars, NEW r \in Rooms, Closing(r)'
    PROVE  Closing(r) \/ AllLeft(participants'[r])
  <1>1. PICK d \in Clients : request'[d].at = "leaveEnd" /\ request'[d].room = r
    BY DEF Closing
  <1>2. request'[d] = request[d] => Closing(r)
    BY <1>1 DEF Closing
  <1>3. CASE QuietStep
    BY <1>1, <1>2, <1>3, ClosersFrame DEF SameClosers
  <1>4. ASSUME NEW c \in Clients, NEW s \in Rooms, LeaveHuddle(c, s)
        PROVE  request'[d] = request[d] \/ AllLeft(participants'[r])
    <2>1. CASE c = d
      <3>1. AllLeft(participants'[s]) /\ request'[d] = EndAt(s, Len(participants'[s]))
        BY <1>1, <1>4, <2>1, LeaveEffect
      <3> QED
        BY <1>1, <3>1, RequestFields
    <2> QED
      BY <1>4, <2>1, LeaveEffect
  <1>5. ASSUME NEW c \in Clients, EndEmptied(c) \/ RequestFails(c) PROVE request'[d] = request[d]
    BY <1>1, <1>5, EndEffect, FailEffect
  <1> QED
    BY <1>2, <1>3, <1>4, <1>5, OtherSteps

\* A huddle is left adrift by the failure of a leave that was ending it, or by a
\* force-leave that marked its last entry.
LEMMA NewlyAdrift ==
    ASSUME TypeOK, [Next]_vars, NEW r \in adrift'
    PROVE  \/ r \in adrift
           \/ r \in Rooms /\ Closing(r)
           \/ r \in Rooms /\ status[r] = "active" /\ AllLeft(participants'[r])
  <1>1. CASE UNCHANGED adrift
    BY <1>1
  <1>2. ASSUME NEW c \in Clients, ForceMark(c)
        PROVE  r \in adrift \/ (r \in Rooms /\ status[r] = "active" /\ AllLeft(participants'[r]))
    <2>1. PICK s \in Rooms : ForceMarkAt(c, s)
      BY <1>2 DEF ForceMark, TypeOK, Request
    <2>2. ASSUME NEW i, status[s] = "active",
                 participants' = [participants EXCEPT ![s] = MarkLeft(participants[s], i)],
                 adrift' = IF AllLeft(MarkLeft(participants[s], i)) THEN adrift \cup {s} ELSE adrift
          PROVE  r \in adrift \/ (r \in Rooms /\ status[r] = "active" /\ AllLeft(participants'[r]))
      <3>1. participants'[s] = MarkLeft(participants[s], i)
        BY <2>2 DEF TypeOK
      <3> QED
        BY <2>2, <3>1
    <2> QED
      BY <1>1, <2>1, <2>2 DEF ForceMarkAt
  <1>3. ASSUME NEW c \in Clients, RequestFails(c) PROVE r \in adrift \/ (r \in Rooms /\ Closing(r))
    BY <1>3, FailEffect DEF Closing, TypeOK, RoomSteps
  <1> QED
    BY <1>1, <1>2, <1>3
      DEF Next, Ask, Continue, vars, CreateHuddle, CreateSave, JoinHuddle, JoinRead, AddParticipant,
          LeaveHuddle, EndEmptied, CreateEndMessage, DeleteHuddle, ForceLeave, ForceEnd

\* What the refinement needs holds at first.
LEMMA RefInvInit == Init => RefInv
  BY TypeInit, EmptyInit DEF Init, RefInv, AdriftExist

\* A huddle that is left adrift exists, and does not vanish.
LEMMA RefInvStep == RefInv /\ [Next]_vars => RefInv'
  <1> SUFFICES ASSUME RefInv, [Next]_vars, NEW r \in adrift' PROVE r \in Rooms /\ status'[r] # "none"
    BY TypeStep, EmptyStep DEF RefInv, AdriftExist
  <1>1. r \in Rooms /\ status[r] # "none"
    BY NewlyAdrift DEF RefInv, AdriftExist, Closing, TypeOK, RoomSteps
  <1>2. Effect(r)
    BY <1>1, StepEffects DEF RefInv
  <1> QED
    BY <1>1, <1>2 DEF Effect, QuietEffect, Unchanged, Created, Joined, Ended, Marked

\* An existing huddle is open after a step iff it was, still is active, and
\* somebody is in it.
LEMMA OpenAfter ==
    ASSUME RefInv, RefInv', [Next]_vars, NEW r \in Rooms, status[r] # "none"
    PROVE  Open(r)' <=> Open(r) /\ status'[r] = "active" /\ ~AllLeft(participants'[r])
  <1>1. ASSUME Open(r)' PROVE Open(r) /\ status'[r] = "active" /\ ~AllLeft(participants'[r])
    <2>1. Open(r)
      BY <1>1, OpenBefore DEF RefInv, Created
    <2>2. status'[r] = "active" /\ ~Closing(r)' /\ r \notin adrift'
      BY <1>1 DEF Open
    <2> QED
      BY <2>1, <2>2 DEF RefInv, EmptyIsClosing
  <1>2. ASSUME Open(r), status'[r] = "active", ~AllLeft(participants'[r]) PROVE Open(r)'
    <2>1. ~Closing(r)' /\ r \notin adrift'
      BY <1>2, NewlyClosing, NewlyAdrift DEF RefInv, Open
    <2> QED
      BY <1>2, <2>1 DEF Open
  <1> QED
    BY <1>1, <1>2

\* Somebody is in an open huddle.
LEMMA OpenHasMembers ==
    ASSUME RefInv, NEW r \in Rooms, Open(r)
    PROVE  status[r] = "active" /\ ~AllLeft(participants[r])
  BY DEF RefInv, Open, EmptyIsClosing

\* What a step does to one huddle as HuddleRooms sees it.
SameRoom(r) == RoomState(r)' = RoomState(r) /\ RoomMembers(r)' = RoomMembers(r)
BecomesRoom(r, st, us) == RoomState(r)' = st /\ RoomMembers(r)' = us
RoomStep(r) ==
    \/ RoomState(r) \in {"open", "emptied"} /\ BecomesRoom(r, "ended", {})
    \/ \E u \in Users :
          \/ RoomState(r) = "none" /\ BecomesRoom(r, "open", {u})
          \/ RoomState(r) = "open" /\ BecomesRoom(r, "open", RoomMembers(r) \cup {u})
          \/ /\ RoomState(r) = "open" /\ RoomMembers(r) # {u}
             /\ BecomesRoom(r, "open", RoomMembers(r) \ {u})
          \/ RoomState(r) = "open" /\ RoomMembers(r) = {u} /\ BecomesRoom(r, "emptied", {})

\* A document that stays as it is stays as it is for HuddleRooms.
LEMMA UnchangedRoom ==
    ASSUME RefInv, RefInv', [Next]_vars, NEW r \in Rooms, Unchanged(r)
    PROVE  SameRoom(r)
  <1>1. Open(r)' <=> Open(r)
    <2>1. CASE status[r] = "none"
      BY <2>1 DEF Unchanged, Open
    <2>2. CASE status[r] # "none"
      BY <2>2, OpenAfter, OpenHasMembers DEF Unchanged
    <2> QED
      BY <2>1, <2>2
  <1>2. RoomState(r)' = RoomState(r)
    BY <1>1 DEF RoomState, Unchanged
  <1>3. \A u : InHuddle(r, u)' <=> InHuddle(r, u)
    BY DEF InHuddle, Places, Unchanged
  <1>4. RoomMembers(r)' = RoomMembers(r)
    BY <1>1, <1>3 DEF RoomMembers
  <1> QED
    BY <1>2, <1>4 DEF SameRoom

\* A saved huddle is a Create.
LEMMA CreatedRoom ==
    ASSUME RefInv, RefInv', [Next]_vars, NEW r \in Rooms, NEW u \in Users, Created(r, u)
    PROVE  RoomState(r) = "none" /\ BecomesRoom(r, "open", {u})
  <1>1. ~AllLeft(participants'[r])
    <2>1. <<>> \in Seq(Entry)
      OBVIOUS
    <2> QED
      BY <2>1, SomebodyPresent DEF Created
  <1>2. ~Closing(r) /\ r \notin adrift
    BY DEF RefInv, TypeOK, RoomSteps, AdriftExist, Closing, Created
  <1>3. Open(r)'
    BY <1>1, <1>2, NewlyClosing, NewlyAdrift DEF RefInv, Open, Created
  <1>4. RoomState(r) = "none" /\ RoomState(r)' = "open"
    <2>1. status[r] = "none" /\ status'[r] = "active"
      BY DEF Created
    <2>2. RoomState(r) = "none"
      BY <2>1 DEF RoomState, Open
    <2>3. RoomState(r)' = "open"
      BY <1>3, <2>1 DEF RoomState
    <2> QED
      BY <2>2, <2>3
  <1>5. \A v : InHuddle(r, v)' <=> v = u
    BY NewEntry DEF Created, InHuddle, Places
  <1>6. RoomMembers(r)' = {u}
    BY <1>3, <1>5 DEF RoomMembers
  <1> QED
    BY <1>4, <1>6 DEF BecomesRoom

\* A participant who is pushed enters, if the huddle is still open.
LEMMA JoinedRoom ==
    ASSUME RefInv, RefInv', [Next]_vars, NEW r \in Rooms, NEW u \in Users, Joined(r, u),
           status[r] # "none"
    PROVE  SameRoom(r) \/ RoomStep(r)
  <1>1. participants[r] \in Seq(Entry)
    BY DEF RefInv, TypeOK
  <1>2. Open(r)' <=> Open(r)
    BY <1>1, OpenAfter, OpenHasMembers, SomebodyPresent DEF Joined
  <1>3. \A v : InHuddle(r, v)' <=> InHuddle(r, v) \/ v = u
    <2>1. \A v : InHuddle(r, v)' <=> \E i \in DOMAIN participants'[r] :
                                        participants'[r][i].user = v /\ ~participants'[r][i].left
      BY DEF InHuddle, Places
    <2>2. \A v : InHuddle(r, v) <=> \E i \in DOMAIN participants[r] :
                                        participants[r][i].user = v /\ ~participants[r][i].left
      BY DEF InHuddle, Places
    <2>3. DOMAIN participants'[r] = DOMAIN participants[r] \cup {Len(participants[r]) + 1}
      BY <1>1, NewEntry, AppendFacts DEF Joined
    <2>4. /\ \A i \in DOMAIN participants[r] : participants'[r][i] = participants[r][i]
          /\ participants'[r][Len(participants[r]) + 1].user = u
          /\ ~participants'[r][Len(participants[r]) + 1].left
      BY <1>1, NewEntry, AppendFacts DEF Joined
    <2> QED
      BY <2>1, <2>2, <2>3, <2>4
  <1>4. CASE Open(r)
    <2>1. RoomState(r) = "open" /\ RoomState(r)' = "open"
      BY <1>2, <1>4 DEF RoomState, Open
    <2>2. RoomMembers(r)' = RoomMembers(r) \cup {u}
      BY <1>2, <1>3, <1>4 DEF RoomMembers
    <2> QED
      BY <2>1, <2>2 DEF RoomStep, BecomesRoom
  <1>5. CASE ~Open(r)
    <2>1. RoomState(r)' = RoomState(r) /\ RoomMembers(r)' = RoomMembers(r)
      BY <1>2, <1>5 DEF RoomState, RoomMembers, Joined
    <2> QED
      BY <2>1 DEF SameRoom
  <1> QED
    BY <1>4, <1>5

\* A huddle that is ended ends, unless it had.
LEMMA EndedRoom ==
    ASSUME RefInv, NEW r \in Rooms, Ended(r)
    PROVE  SameRoom(r) \/ RoomStep(r)
  <1>1. RoomState(r)' = "ended" /\ RoomMembers(r)' = {}
    BY DEF Ended, RoomState, RoomMembers, Open
  <1>2. CASE status[r] = "ended"
    BY <1>1, <1>2 DEF RoomState, RoomMembers, Open, SameRoom
  <1>3. CASE status[r] = "active"
    BY <1>1, <1>3 DEF RoomState, RoomStep, BecomesRoom
  <1> QED
    BY <1>2, <1>3 DEF Ended, RefInv, TypeOK

\* An entry that is marked is a Quit or a QuitLast, or the user is still in by
\* another entry.
LEMMA MarkedRoom ==
    ASSUME RefInv, RefInv', [Next]_vars, NEW r \in Rooms, NEW i, Marked(r, i)
    PROVE  SameRoom(r) \/ RoomStep(r)
  <1> DEFINE ps == participants[r]
             qs == participants'[r]
  <1>1. ps \in Seq(Entry)
    BY DEF RefInv, TypeOK
  <1>2. /\ DOMAIN qs = DOMAIN ps
        /\ \A j \in DOMAIN ps : /\ qs[j].user = ps[j].user
                                /\ j # i => qs[j] = ps[j]
                                /\ j = i => qs[j].left
    BY <1>1, MarkLeftFacts DEF Marked
  <1>3. \A v : InHuddle(r, v)' <=> \E j \in DOMAIN qs : qs[j].user = v /\ ~qs[j].left
    BY DEF InHuddle, Places
  <1>4. \A v : InHuddle(r, v) <=> \E j \in DOMAIN ps : ps[j].user = v /\ ~ps[j].left
    BY DEF InHuddle, Places
  <1>5. \A j \in DOMAIN ps : ps[j].user \in Users
    <2>1. \A j \in DOMAIN ps : ps[j] \in Entry
      BY <1>1
    <2> HIDE DEF ps
    <2> QED
      BY <2>1 DEF Entry
  <1> HIDE DEF ps, qs
  <1>6. CASE ~Open(r)
    <2>1. ~Open(r)'
      BY <1>6, OpenBefore DEF RefInv, Marked, Created
    <2> QED
      BY <1>6, <2>1 DEF RoomState, RoomMembers, Marked, SameRoom
  <1>7. CASE Open(r)
    <2>1. RoomState(r) = "open" /\ status[r] = "active" /\ status'[r] = "active" /\ ~AllLeft(ps)
      BY <1>7, OpenHasMembers DEF RoomState, Open, Marked, ps
    <2>2. Open(r)' <=> ~AllLeft(qs)
      BY <1>7, <2>1, OpenAfter DEF qs
    <2>3. RoomMembers(r) = {v \in Users : InHuddle(r, v)}
      BY <1>7 DEF RoomMembers
    <2>4. CASE AllLeft(qs)
      <3>1. RoomState(r)' = "emptied" /\ RoomMembers(r)' = {}
        BY <2>1, <2>2, <2>4 DEF RoomState, RoomMembers
      <3>2. i \in DOMAIN ps /\ ~ps[i].left /\ \A j \in DOMAIN ps : ~ps[j].left => j = i
        BY <1>2, <2>1, <2>4 DEF AllLeft
      <3>3. RoomMembers(r) = {ps[i].user}
        BY <1>4, <1>5, <2>3, <3>2
      <3> QED
        BY <1>5, <2>1, <3>1, <3>2, <3>3 DEF RoomStep, BecomesRoom
    <2>5. CASE ~AllLeft(qs)
      <3>1. RoomState(r)' = "open"
        BY <2>1, <2>2, <2>5 DEF RoomState
      <3>2. RoomMembers(r)' = {v \in Users : InHuddle(r, v)'}
        BY <2>2, <2>5 DEF RoomMembers
      <3>3. CASE i \in DOMAIN ps
        <4>0. PICK w \in Users : w = ps[i].user
          BY <1>5, <3>3
        <4>1. \A v : v # w => (InHuddle(r, v)' <=> InHuddle(r, v))
          BY <1>2, <1>3, <1>4, <3>3, <4>0
        <4>2. InHuddle(r, w)' => InHuddle(r, w)
          BY <1>2, <1>3, <1>4
        <4>3. PICK v \in Users : InHuddle(r, v)'
          BY <1>2, <1>3, <1>5, <2>5 DEF AllLeft
        <4>4. CASE InHuddle(r, w)'
          <5>1. RoomMembers(r)' = RoomMembers(r)
            BY <2>3, <3>2, <4>1, <4>2, <4>4
          <5> QED
            BY <2>1, <3>1, <5>1 DEF SameRoom
        <4>5. CASE ~InHuddle(r, w)'
          <5>1. RoomMembers(r)' = RoomMembers(r) \ {w} /\ RoomMembers(r) # {w}
            BY <2>3, <3>2, <4>1, <4>3, <4>5
          <5> QED
            BY <2>1, <3>1, <5>1 DEF RoomStep, BecomesRoom
        <4> QED
          BY <4>4, <4>5
      <3>4. CASE i \notin DOMAIN ps
        <4>1. \A v : InHuddle(r, v)' <=> InHuddle(r, v)
          BY <1>2, <1>3, <1>4, <3>4
        <4> QED
          BY <2>1, <2>3, <3>1, <3>2, <4>1 DEF SameRoom
      <3> QED
        BY <3>3, <3>4
    <2> QED
      BY <2>4, <2>5
  <1> QED
    BY <1>6, <1>7

\* Every step is a step or a stutter of each huddle, and moves one at most.
LEMMA OneRoomSteps ==
    ASSUME RefInv, RefInv', [Next]_vars
    PROVE  /\ \A r \in Rooms : SameRoom(r) \/ RoomStep(r)
           /\ \A r, s \in Rooms : r # s => SameRoom(r) \/ SameRoom(s)
  <1>1. ASSUME NEW r \in Rooms PROVE SameRoom(r) \/ RoomStep(r)
    <2>1. Effect(r)
      BY StepEffects DEF RefInv
    <2>2. ASSUME NEW u \in Users, Created(r, u) PROVE RoomStep(r)
      BY <2>2, CreatedRoom DEF RoomStep
    <2>3. ASSUME NEW c \in Clients, request[c].at = "joinPush", request[c].room = r, Joined(r, UserOf(c))
          PROVE  SameRoom(r) \/ RoomStep(r)
      <3>1. status[r] # "none"
        BY <2>3 DEF RefInv, TypeOK, RoomSteps
      <3> QED
        BY <2>3, <3>1, JoinedRoom, UserOfType
    <2> QED
      BY <2>1, <2>2, <2>3, UnchangedRoom, EndedRoom, MarkedRoom, UserOfType DEF Effect, QuietEffect
  <1>2. ASSUME NEW r \in Rooms, NEW s \in Rooms, r # s PROVE SameRoom(r) \/ SameRoom(s)
    BY <1>2, StepEffects, UnchangedRoom DEF RefInv
  <1> QED
    BY <1>1, <1>2

\* At first no huddle exists.
LEMMA RefinementInit == Init => Abstract!Init
  BY RequestFields DEF Init, Abstract!Init, RoomState, RoomMembers, Open

\* Every step of a handler is a step of HuddleRooms or a stutter.
LEMMA RefinementStep == RefInv /\ RefInv' /\ [Next]_vars => [Abstract!Next]_Abstract!vars
  <1> SUFFICES ASSUME RefInv, RefInv', [Next]_vars PROVE [Abstract!Next]_Abstract!vars
    OBVIOUS
  <1>1. ASSUME NEW r \in Rooms, NEW st, NEW us, BecomesRoom(r, st, us),
               \A s \in Rooms \ {r} : SameRoom(s)
        PROVE  Abstract!Become(r, st, us)
    BY <1>1 DEF Abstract!Become, BecomesRoom, SameRoom
  <1>2. CASE \A r \in Rooms : SameRoom(r)
    BY <1>2 DEF SameRoom, Abstract!vars
  <1>3. ASSUME NEW r \in Rooms, ~SameRoom(r) PROVE Abstract!Next
    <2>1. RoomStep(r) /\ \A s \in Rooms \ {r} : SameRoom(s)
      BY <1>3, OneRoomSteps
    <2> QED
      BY <1>1, <2>1
        DEF RoomStep, Abstract!Next, Abstract!End, Abstract!Create, Abstract!Enter, Abstract!Quit,
            Abstract!QuitLast
  <1> QED
    BY <1>2, <1>3

\* Every behaviour of the handlers is one of HuddleRooms: a join after the last
\* leave does not bring a huddle back, and no huddle is emptied under somebody.
THEOREM HuddlesImplementRooms == Spec => ImplementsRooms
  BY RefInvInit, RefInvStep, RefinementInit, RefinementStep, PTL
    DEF Spec, ImplementsRooms, Abstract!Spec

-----------------------------------------------------------------------------
(* Huddles that are ended                                                  *)

\* A huddle that is ended stays ended.
LEMMA EndedStays ==
    ASSUME TypeOK, [Next]_vars, NEW r \in Rooms, status[r] = "ended"
    PROVE  status'[r] = "ended"
  <1>1. Effect(r)
    BY StepEffects
  <1> QED
    BY <1>1 DEF Effect, QuietEffect, Unchanged, Created, Joined, Ended, Marked

\* Who has passed the checks of joinHuddle and is about to be added.
Joiners(r) == {c \in Clients : request[c].at = "joinPush" /\ request[c].room = r}

\* An ended huddle stays ended; no join passes its checks any more, and an entry is
\* added only by one of those that had passed them before, each of which adds one.
EndForGood ==
    [][\A r \in Rooms : status[r] = "ended" =>
          /\ status'[r] = "ended"
          /\ Joiners(r)' \subseteq Joiners(r)
          /\ Len(participants'[r]) = Len(participants[r])
             \/ /\ Len(participants'[r]) = Len(participants[r]) + 1
                /\ Joiners(r)' # Joiners(r)]_vars

\* Whoever waits to be added to an ended huddle did so before.
LEMMA JoinersBefore ==
    ASSUME TypeOK, [Next]_vars, NEW r \in Rooms, status[r] = "ended"
    PROVE  Joiners(r)' \subseteq Joiners(r)
  <1> SUFFICES ASSUME NEW c \in Clients, request'[c].at = "joinPush", request'[c].room = r
               PROVE  request'[c] = request[c]
    BY DEF Joiners
  <1>1. ASSUME JoinRead(c), request'[c] = At("joinPush", request[c].room) PROVE FALSE
    <2>1. request[c].room = r /\ request[c].at = "joinRead"
      BY <1>1, RequestFields DEF JoinRead
    <2>2. request' = [request EXCEPT ![c] = Idle]
      BY <1>1, <2>1 DEF JoinRead, Answer
    <2>3. request'[c] = Idle
      BY <2>2 DEF TypeOK
    <2> QED
      BY <1>1, <2>3, RequestFields
  <1> QED
    BY <1>1, ChecksBefore, RequestFields

\* What was ended takes in nobody who had not passed the checks before it was.
THEOREM HuddlesEndForGood == Spec => EndForGood
  <1>1. ASSUME TypeOK, [Next]_vars, NEW r \in Rooms, status[r] = "ended"
        PROVE  /\ status'[r] = "ended"
               /\ Joiners(r)' \subseteq Joiners(r)
               /\ Len(participants'[r]) = Len(participants[r])
                  \/ /\ Len(participants'[r]) = Len(participants[r]) + 1
                     /\ Joiners(r)' # Joiners(r)
    <2>1. participants[r] \in Seq(Entry)
      BY <1>1 DEF TypeOK
    <2>2. CASE Unchanged(r) \/ Ended(r)
      BY <1>1, <2>2, EndedStays, JoinersBefore DEF Unchanged, Ended
    <2>3. ASSUME NEW i, Marked(r, i)
          PROVE  Len(participants'[r]) = Len(participants[r])
      BY <2>1, <2>3, MarkLeftFacts DEF Marked
    <2>4. ASSUME NEW c \in Clients, request[c].at = "joinPush", request[c].room = r,
                 request'[c].at = "idle", Joined(r, UserOf(c))
          PROVE  /\ Len(participants'[r]) = Len(participants[r]) + 1
                 /\ Joiners(r)' # Joiners(r)
      <3>1. Len(participants'[r]) = Len(participants[r]) + 1
        BY <2>1, <2>4, UserOfType, NewEntry, AppendFacts DEF Joined
      <3>2. c \in Joiners(r) /\ c \notin Joiners(r)'
        BY <2>4 DEF Joiners
      <3> QED
        BY <3>1, <3>2
    <2>5. ~ \E u : Created(r, u)
      BY <1>1 DEF Created
    <2>6. Effect(r)
      BY <1>1, StepEffects
    <2> QED
      BY <1>1, <2>2, <2>3, <2>4, <2>5, <2>6, EndedStays, JoinersBefore DEF Effect, QuietEffect
  <1>2. TypeOK /\ [Next]_vars =>
          [\A r \in Rooms : status[r] = "ended" =>
              /\ status'[r] = "ended"
              /\ Joiners(r)' \subseteq Joiners(r)
              /\ Len(participants'[r]) = Len(participants[r])
                 \/ /\ Len(participants'[r]) = Len(participants[r]) + 1
                    /\ Joiners(r)' # Joiners(r)]_vars
    BY <1>1
  <1> QED
    BY <1>2, TypeCorrect, PTL DEF Spec, EndForGood

\* The end of a huddle is announced in its chat only once it is ended.
Announcing(c) == request[c].at = "leaveMessage"
AnnouncedIsEnded == \A r \in Rooms : endMessages[r] > 0 => status[r] = "ended"
AnnouncersEnded == \A c \in Clients : Announcing(c) => status[request[c].room] = "ended"
Announced == TypeOK /\ AnnouncedIsEnded /\ AnnouncersEnded

\* Whoever is about to announce an end was so before, or has just ended the huddle.
LEMMA AnnouncersBefore ==
    ASSUME TypeOK, [Next]_vars, NEW c \in Clients, Announcing(c)'
    PROVE  \/ request'[c] = request[c]
           \/ request'[c].room \in Rooms /\ status'[request'[c].room] = "ended"
  <1>0. request \in [Clients -> Request]
    BY DEF TypeOK
  <1>1. CASE UNCHANGED request
    BY <1>1
  <1>2. ASSUME NEW d \in Clients, EndEmptied(d)
        PROVE  \/ request'[c] = request[c]
               \/ request'[c].room \in Rooms /\ status'[request'[c].room] = "ended"
    <2>1. CASE c = d
      <3>1. request[d].room \in Rooms /\ request'[d] = At("leaveMessage", request[d].room)
        BY <1>0, <1>2 DEF EndEmptied, GoOn, TypeOK, RoomSteps
      <3>2. request'[d].room = request[d].room
        BY <3>1, RequestFields
      <3> QED
        BY <1>2, <2>1, <3>1, <3>2 DEF EndEmptied, TypeOK
    <2>2. CASE c # d
      BY <1>0, <1>2, <2>2 DEF EndEmptied, GoOn
    <2> QED
      BY <2>1, <2>2
  <1>3. ASSUME NEW d \in Clients, NEW r, request' = [request EXCEPT ![d] = r], r.at # "leaveMessage"
        PROVE  request'[c] = request[c]
    BY <1>0, <1>3 DEF Announcing
  <1>4. ASSUME NEW d \in Clients, CreateHuddle(d) \/ JoinRead(d) PROVE request'[c] = request[c]
    BY <1>3, <1>4, RequestFields DEF CreateHuddle, JoinRead, GoOn, Answer
  <1>5. ASSUME NEW d \in Clients, NEW r \in Rooms, JoinHuddle(d, r) \/ LeaveHuddle(d, r)
        PROVE  request'[c] = request[c]
    BY <1>3, <1>5, RequestFields DEF JoinHuddle, LeaveHuddle, GoOn
  <1>6. ASSUME NEW d \in Clients,
               CreateSave(d) \/ AddParticipant(d) \/ CreateEndMessage(d) \/ RequestFails(d)
        PROVE  request'[c] = request[c]
    BY <1>3, <1>6, RequestFields DEF CreateSave, AddParticipant, CreateEndMessage, RequestFails, Answer
  <1>7. \A rs : \A step \in {"forceEnd", "forceMark"} : ForceAt(step, rs).at # "leaveMessage"
    BY RequestFields DEF ForceAt, Idle
  <1>8. ASSUME NEW d \in Clients, NEW step \in {"forceEnd", "forceMark"}, NEW rs,
               request' = [request EXCEPT ![d] = ForceAt(step, rs)]
        PROVE  request'[c] = request[c]
    BY <1>3, <1>7, <1>8
  <1>9. ASSUME NEW d \in Clients, ForceLeave(d) PROVE request'[c] = request[c]
    BY <1>8, <1>9 DEF ForceLeave
  <1>10. ASSUME NEW d \in Clients, ForceEnd(d) PROVE request'[c] = request[c]
    <2>1. PICK r : request' = [request EXCEPT ![d] =
                       IF request[d].todo = {r} THEN ForceAt("forceMark", Rooms)
                                                ELSE ForceAt("forceEnd", request[d].todo \ {r})]
      BY <1>10 DEF ForceEnd
    <2>2. CASE request[d].todo = {r}
      BY <1>8, <2>1, <2>2
    <2>3. CASE request[d].todo # {r}
      BY <1>8, <2>1, <2>3
    <2> QED
      BY <2>2, <2>3
  <1>11. ASSUME NEW d \in Clients, ForceMark(d) PROVE request'[c] = request[c]
    BY <1>8, <1>11 DEF ForceMark, ForceMarkAt
  <1> QED
    BY <1>1, <1>2, <1>4, <1>5, <1>6, <1>9, <1>10, <1>11 DEF Next, Ask, Continue, DeleteHuddle, vars

\* A step adds to the announcements of one huddle, whose leave has ended it.
LEMMA AnnouncedStep == Announced /\ [Next]_vars => Announced'
  <1> SUFFICES ASSUME Announced, [Next]_vars PROVE AnnouncedIsEnded' /\ AnnouncersEnded'
    BY TypeStep DEF Announced
  <1>0. TypeOK /\ TypeOK'
    BY TypeStep DEF Announced
  <1>1. ASSUME NEW c \in Clients, Announcing(c)' PROVE status'[request'[c].room] = "ended"
    <2>1. CASE request'[c] = request[c]
      <3>1. request[c].room \in Rooms /\ status[request[c].room] = "ended"
        BY <1>0, <1>1, <2>1 DEF Announced, AnnouncersEnded, Announcing, TypeOK, RoomSteps
      <3> QED
        BY <1>0, <2>1, <3>1, EndedStays
    <2> QED
      BY <1>0, <1>1, <2>1, AnnouncersBefore
  <1>2. ASSUME NEW r \in Rooms, endMessages'[r] > 0 PROVE status'[r] = "ended"
    <2>1. CASE endMessages'[r] = endMessages[r]
      BY <1>0, <1>2, <2>1, EndedStays DEF Announced, AnnouncedIsEnded
    <2>2. CASE endMessages'[r] # endMessages[r]
      <3>1. PICK c \in Clients : CreateEndMessage(c)
        BY <2>2 DEF Next, Ask, Continue, vars, CreateHuddle, CreateSave, JoinHuddle, JoinRead,
                    AddParticipant, LeaveHuddle, EndEmptied, DeleteHuddle, ForceLeave, ForceEnd,
                    ForceMark, RequestFails
      <3>2. Announcing(c) /\ request[c].room = r
        BY <1>0, <2>2, <3>1 DEF CreateEndMessage, Announcing, TypeOK
      <3> QED
        BY <1>0, <3>2, EndedStays DEF Announced, AnnouncersEnded
    <2> QED
      BY <2>1, <2>2
  <1> QED
    BY <1>1, <1>2 DEF AnnouncedIsEnded, AnnouncersEnded

\* However many leaves believe they were the last, and whatever joins land in between,
\* the chat never says that a huddle is over which goes on.
THEOREM AnnouncementsAreTrue == Spec => []AnnouncedIsEnded
  <1>1. Init => Announced
    BY TypeInit, RequestFields DEF Init, Announced, AnnouncedIsEnded, AnnouncersEnded, Announcing
  <1>2. Announced => AnnouncedIsEnded
    BY DEF Announced
  <1> QED
    BY <1>1, <1>2, AnnouncedStep, PTL DEF Spec

-----------------------------------------------------------------------------
(* Without failures and force-leaves                                       *)

\* No request dies half way and no force-leave marks entries.
Undisturbed == failures = 0 /\ \A c \in Clients : request[c].at # "forceMark"

\* Everybody's leave is noticed by the last of them.
EmptiedIsClosing == \A r \in Rooms : status[r] = "active" /\ AllLeft(participants[r]) => Closing(r)
NoneAdrift == adrift = {}

\* Nothing else leaves a huddle adrift.
LEMMA UndisturbedStep ==
    ASSUME TypeOK, NoneAdrift, Undisturbed, Undisturbed', [Next]_vars
    PROVE  NoneAdrift'
  <1>1. ASSUME NEW c \in Clients PROVE ~ForceMark(c) /\ ~RequestFails(c)
    BY DEF ForceMark, RequestFails, Undisturbed, TypeOK
  <1> QED
    BY <1>1 DEF NoneAdrift, Next, Ask, Continue, vars, CreateHuddle, CreateSave, JoinHuddle, JoinRead,
                AddParticipant, LeaveHuddle, EndEmptied, CreateEndMessage, DeleteHuddle, ForceLeave,
                ForceEnd

\* Joins, leaves and ends of any number of devices alone never leave an empty huddle
\* behind that nobody is about to end.
THEOREM LeavesAreEnough == Spec /\ []Undisturbed => []EmptiedIsClosing
  <1>1. Init => NoneAdrift
    BY DEF Init, NoneAdrift
  <1>2. TypeOK /\ NoneAdrift /\ Undisturbed /\ Undisturbed' /\ [Next]_vars => NoneAdrift'
    BY UndisturbedStep
  <1>3. NoneAdrift /\ EmptyIsClosing => EmptiedIsClosing
    BY DEF NoneAdrift, EmptyIsClosing, EmptiedIsClosing
  <1> QED
    BY <1>1, <1>2, <1>3, TypeCorrect, EmptiedAreClosing, PTL DEF Spec


-----------------------------------------------------------------------------
(* Users who join once                                                     *)

\* No user has two entries in a huddle: nobody joins it again, while in it or after
\* a leave, not even who created it.
OneEntry ==
    \A r \in Rooms : \A i, j \in Places(r) :
        participants[r][i].user = participants[r][j].user => i = j

\* The position of a user's only entry is the one the update marks.
LEMMA OnlyEntryIsFirst ==
    ASSUME TypeOK, OneEntry, NEW r \in Rooms, NEW u, NEW i \in Places(r), participants[r][i].user = u
    PROVE  FirstOf(participants[r], u) = i
  <1>1. participants[r] \in Seq(Entry) /\ Places(r) = 1..Len(participants[r])
    BY DEF TypeOK, Places
  <1>2. \A j \in 1..(i - 1) : j \in Places(r) /\ j # i
    BY <1>1
  <1>3. \A j \in 1..(i - 1) : participants[r][j].user # u
    BY <1>2 DEF OneEntry
  <1>4. \A k \in Places(r) : participants[r][k].user = u => k = i
    BY DEF OneEntry
  <1> QED
    BY <1>3, <1>4 DEF FirstOf, Places

\* "Mark as left" is what a leave does as long as nobody joins twice: it is the second
\* entry that the positional operator does not find.
THEOREM OnlyEntriesEnd == Spec /\ []OneEntry => LeaverIsOut
  <1>1. ASSUME TypeOK, OneEntry, [Next]_vars, NEW c \in Clients, NEW r \in Rooms, LeaveHuddle(c, r)
        PROVE  ~InHuddle(r, UserOf(c))'
    <2> DEFINE ps == participants[r]
               k == FirstOf(ps, UserOf(c))
    <2>1. ps \in Seq(Entry) /\ participants'[r] = MarkLeft(ps, k)
      BY <1>1 DEF LeaveHuddle, TypeOK
    <2>2. /\ DOMAIN participants'[r] = DOMAIN ps
          /\ \A i \in DOMAIN ps : /\ participants'[r][i].user = ps[i].user
                                  /\ i = k => participants'[r][i].left
      BY <2>1, MarkLeftFacts
    <2>3. \A i \in DOMAIN ps : ps[i].user = UserOf(c) => k = i
      BY <1>1, OnlyEntryIsFirst DEF Places
    <2> QED
      BY <2>2, <2>3 DEF InHuddle, Places
  <1>2. TypeOK /\ OneEntry /\ [Next]_vars =>
          [\A c \in Clients, r \in Rooms : LeaveHuddle(c, r) => ~InHuddle(r, UserOf(c))']_vars
    BY <1>1
  <1> QED
    BY <1>2, TypeCorrect, PTL DEF Spec, LeaverIsOut
=============================================================================
