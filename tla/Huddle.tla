------------------------------- MODULE Huddle -------------------------------
(***************************************************************************)
(* Huddles: the REST handlers of HuddleController and the documents they   *)
(* share through HuddleRepository (src/src/modules/huddle).                *)
(*                                                                         *)
(* MongoDB makes each operation on one document atomic; a handler is a     *)
(* sequence of them.  An action is one operation together with the code up *)
(* to the next (a refused request changes nothing and is no action);       *)
(* `request' says what each device waits for.  A device sends one request  *)
(* at a time, a user may have several devices.                             *)
(*                                                                         *)
(* Names, media flags, times and durations are left out.                   *)
(***************************************************************************)
EXTENDS Naturals, Sequences

CONSTANTS
    Users,          \* user ids
    Devices,        \* what tells the devices of one user apart
    Rooms,          \* the room ids generateRoomId makes up, one per huddle
    None,           \* "no user", "no room"
    MaxEntries,     \* bound: nobody asks to join a huddle with so many entries
    MaxMessages,    \* bound: nobody leaves a huddle that was announced so often
    MaxFailures     \* bound on the requests that die half way

ASSUME NoneAssumption == None \notin Users \cup Rooms
ASSUME BoundAssumption == MaxEntries \in Nat /\ MaxMessages \in Nat /\ MaxFailures \in Nat

VARIABLES
    status,         \* room -> status of its huddle, "none" before it is created
    initiator,      \* room -> initiatorId
    participants,   \* room -> the participants array
    request,        \* device -> the operation it waits for
    endMessages,    \* room -> "huddle" messages posted in its chat
    failures,       \* requests that died so far
    adrift          \* history: rooms whose emptying did not make a leave end them

vars == <<status, initiator, participants, request, endMessages, failures, adrift>>
documents == <<status, initiator, participants>>

Clients == Users \X Devices
UserOf(c) == c[1]

Entry == [user : Users, left : BOOLEAN]

\* What a device waits for: `room' is what its request is about, `todo' the rooms
\* an updateMany has still to visit, `seen' the length of the participants that a
\* leave got back.
Steps == {"idle", "createSave", "joinRead", "joinPush", "leaveEnd", "leaveMessage",
          "forceEnd", "forceMark"}
RoomSteps == {"joinRead", "joinPush", "leaveEnd", "leaveMessage"}
Request == [at : Steps, room : Rooms \cup {None}, todo : SUBSET Rooms, seen : Nat]

Idle == [at |-> "idle", room |-> None, todo |-> {}, seen |-> 0]
At(step, r) == [Idle EXCEPT !.at = step, !.room = r]
EndAt(r, n) == [Idle EXCEPT !.at = "leaveEnd", !.room = r, !.seen = n]
ForceAt(step, rs) == IF rs = {} THEN Idle ELSE [Idle EXCEPT !.at = step, !.todo = rs]

Init ==
    /\ status = [r \in Rooms |-> "none"]
    /\ initiator = [r \in Rooms |-> None]
    /\ participants = [r \in Rooms |-> <<>>]
    /\ request = [c \in Clients |-> Idle]
    /\ endMessages = [r \in Rooms |-> 0]
    /\ failures = 0
    /\ adrift = {}

-----------------------------------------------------------------------------
(* Queries                                                                 *)

Places(r) == DOMAIN participants[r]
Lists(ps, u) == \E i \in DOMAIN ps : ps[i].user = u
AllLeft(ps) == \A i \in DOMAIN ps : ps[i].left
InHuddle(r, u) == \E i \in Places(r) : participants[r][i].user = u /\ ~participants[r][i].left

\* findActiveByUserId: the two conditions on participants are met by any two
\* elements of the array, which need not be the same one.
Counts(r, u) ==
    /\ status[r] = "active"
    /\ initiator[r] = u \/ (Lists(participants[r], u) /\ ~AllLeft(participants[r]))

\* findByRoomId populates participants.userId, and the text of a populated
\* document is its inspected form: p.userId.toString() === userId never holds.
MatchesPopulated(p, u) == FALSE
IsParticipant(r, u) ==
    \E i \in Places(r) : MatchesPopulated(participants[r][i], u) /\ ~participants[r][i].left

\* The element `participants.$' names when the query is about the user only.
FirstOf(ps, u) ==
    CHOOSE i \in DOMAIN ps : ps[i].user = u /\ \A j \in 1..(i - 1) : ps[j].user # u
FirstPresent(ps) ==
    CHOOSE i \in DOMAIN ps : ~ps[i].left /\ \A j \in 1..(i - 1) : ps[j].left

MarkLeft(ps, i) == [ps EXCEPT ![i].left = TRUE]

-----------------------------------------------------------------------------
(* Requests                                                                *)

Answer(c) == request' = [request EXCEPT ![c] = Idle]
GoOn(c, step, r) == request' = [request EXCEPT ![c] = At(step, r)]

\* POST /huddle
CreateHuddle(c) ==
    /\ request[c] = Idle
    /\ \A r \in Rooms : ~Counts(r, UserOf(c))
    /\ GoOn(c, "createSave", None)
    /\ UNCHANGED <<documents, endMessages, failures, adrift>>

CreateSave(c) ==
    /\ request[c].at = "createSave"
    /\ \E r \in Rooms :
          /\ status[r] = "none"
          /\ status' = [status EXCEPT ![r] = "active"]
          /\ initiator' = [initiator EXCEPT ![r] = UserOf(c)]
          /\ participants' = [participants EXCEPT ![r] = <<[user |-> UserOf(c), left |-> FALSE]>>]
    /\ Answer(c)
    /\ UNCHANGED <<endMessages, failures, adrift>>

\* Mutant of JoinHuddle: the user's other huddles are not looked at.
JoinHuddleUnchecked(c, r) ==
    /\ request[c] = Idle
    /\ status[r] # "none" /\ Len(participants[r]) < MaxEntries
    /\ GoOn(c, "joinRead", r)
    /\ UNCHANGED <<documents, endMessages, failures, adrift>>

\* Mutant of JoinHuddle: an unknown room is not refused.
JoinHuddleUnknown(c, r) ==
    /\ request[c] = Idle
    /\ \A s \in Rooms : ~Counts(s, UserOf(c))
    /\ GoOn(c, "joinRead", r)
    /\ UNCHANGED <<documents, endMessages, failures, adrift>>

\* POST /huddle/join: findOne answers with any one of the huddles that match.
JoinHuddle(c, r) ==
    /\ request[c] = Idle
    /\ status[r] # "none" /\ Len(participants[r]) < MaxEntries
    /\ Counts(r, UserOf(c)) \/ \A s \in Rooms : ~Counts(s, UserOf(c))
    /\ GoOn(c, "joinRead", r)
    /\ UNCHANGED <<documents, endMessages, failures, adrift>>

JoinRead(c) ==
    /\ request[c].at = "joinRead"
    /\ LET r == request[c].room IN
       IF status[r] = "active" /\ ~IsParticipant(r, UserOf(c))
         THEN GoOn(c, "joinPush", r)
         ELSE Answer(c)
    /\ UNCHANGED <<documents, endMessages, failures, adrift>>

\* Mutant of AddParticipant: the update also sets the status to active.
AddParticipantReopens(c) ==
    /\ request[c].at = "joinPush"
    /\ participants' = [participants EXCEPT ![request[c].room] =
                          Append(@, [user |-> UserOf(c), left |-> FALSE])]
    /\ status' = [status EXCEPT ![request[c].room] = "active"]
    /\ Answer(c)
    /\ UNCHANGED <<initiator, endMessages, failures, adrift>>

AddParticipant(c) ==
    /\ request[c].at = "joinPush"
    /\ participants' = [participants EXCEPT ![request[c].room] =
                          Append(@, [user |-> UserOf(c), left |-> FALSE])]
    /\ Answer(c)
    /\ UNCHANGED <<status, initiator, endMessages, failures, adrift>>

\* Mutant of LeaveHuddle: the participants are counted in the document that was
\* read before the update.
LeaveHuddleStale(c, r) ==
    /\ request[c] = Idle
    /\ status[r] # "none" /\ endMessages[r] < MaxMessages
    /\ Lists(participants[r], UserOf(c))
    /\ participants' = [participants EXCEPT ![r] = MarkLeft(@, FirstOf(@, UserOf(c)))]
    /\ request' = IF AllLeft(participants[r])
                    THEN [request EXCEPT ![c] = EndAt(r, Len(participants[r]))]
                    ELSE request
    /\ UNCHANGED <<status, initiator, endMessages, failures, adrift>>

\* Mutant of LeaveHuddle: a huddle with one remaining participant is ended.
LeaveHuddleEarly(c, r) ==
    /\ request[c] = Idle
    /\ status[r] # "none" /\ endMessages[r] < MaxMessages
    /\ Lists(participants[r], UserOf(c))
    /\ LET updated == MarkLeft(participants[r], FirstOf(participants[r], UserOf(c))) IN
       /\ participants' = [participants EXCEPT ![r] = updated]
       /\ request' = IF \A i, j \in DOMAIN updated : updated[i].left \/ updated[j].left \/ i = j
                       THEN [request EXCEPT ![c] = EndAt(r, Len(updated))]
                       ELSE request
    /\ UNCHANGED <<status, initiator, endMessages, failures, adrift>>

\* POST /huddle/:roomId/leave, whatever the status of the huddle.  What is read
\* before removeParticipant is not used.
LeaveHuddle(c, r) ==
    /\ request[c] = Idle
    /\ status[r] # "none" /\ endMessages[r] < MaxMessages
    /\ Lists(participants[r], UserOf(c))
    /\ LET updated == MarkLeft(participants[r], FirstOf(participants[r], UserOf(c))) IN
       /\ participants' = [participants EXCEPT ![r] = updated]
       /\ request' = IF AllLeft(updated)
                       THEN [request EXCEPT ![c] = EndAt(r, Len(updated))]
                       ELSE request
    /\ UNCHANGED <<status, initiator, endMessages, failures, adrift>>

EndEmptied(c) ==
    /\ request[c].at = "leaveEnd"
    /\ status' = [status EXCEPT ![request[c].room] = "ended"]
    /\ GoOn(c, "leaveMessage", request[c].room)
    /\ UNCHANGED <<initiator, participants, endMessages, failures, adrift>>

\* A huddle without a chat has no message, and a message that cannot be posted
\* is given up.
CreateEndMessage(c) ==
    /\ request[c].at = "leaveMessage"
    /\ \/ endMessages' = [endMessages EXCEPT ![request[c].room] = @ + 1]
       \/ UNCHANGED endMessages
    /\ Answer(c)
    /\ UNCHANGED <<documents, failures, adrift>>

\* DELETE /huddle/:roomId
DeleteHuddle(r) ==
    /\ status[r] # "none"
    /\ status' = [status EXCEPT ![r] = "ended"]
    /\ UNCHANGED <<initiator, participants, request, endMessages, failures, adrift>>

\* POST /huddle/force-leave: two updateMany, each of which visits the documents
\* one by one, in any order.
ForceLeave(c) ==
    /\ request[c] = Idle
    /\ request' = [request EXCEPT ![c] = ForceAt("forceEnd", Rooms)]
    /\ UNCHANGED <<documents, endMessages, failures, adrift>>

ForceEnd(c) ==
    /\ request[c].at = "forceEnd"
    /\ \E r \in request[c].todo :
          /\ status' = IF status[r] = "active" /\ initiator[r] = UserOf(c)
                         THEN [status EXCEPT ![r] = "ended"] ELSE status
          /\ request' = [request EXCEPT ![c] =
                           IF request[c].todo = {r} THEN ForceAt("forceMark", Rooms)
                                                    ELSE ForceAt("forceEnd", request[c].todo \ {r})]
    /\ UNCHANGED <<initiator, participants, endMessages, failures, adrift>>

\* The query has two conditions on the array, and MongoDB does not say which of
\* them `participants.$' then refers to: the first element of the user or the
\* first element without leftAt, whoever's it is.
Positions(ps, u) == {FirstOf(ps, u), FirstPresent(ps)}

ForceMarkAt(c, r) ==
    LET ps == participants[r] IN
    /\ IF status[r] = "active" /\ Lists(ps, UserOf(c)) /\ ~AllLeft(ps)
         THEN \E i \in Positions(ps, UserOf(c)) :
                 /\ participants' = [participants EXCEPT ![r] = MarkLeft(ps, i)]
                 /\ adrift' = IF AllLeft(MarkLeft(ps, i)) THEN adrift \cup {r} ELSE adrift
         ELSE UNCHANGED <<participants, adrift>>
    /\ request' = [request EXCEPT ![c] = ForceAt("forceMark", request[c].todo \ {r})]

ForceMark(c) ==
    /\ request[c].at = "forceMark"
    /\ \E r \in request[c].todo : ForceMarkAt(c, r)
    /\ UNCHANGED <<status, initiator, endMessages, failures>>

\* The database or the process fails: the rest of the handler does not happen.
RequestFails(c) ==
    /\ request[c] # Idle
    /\ failures < MaxFailures
    /\ failures' = failures + 1
    /\ adrift' = IF request[c].at = "leaveEnd" THEN adrift \cup {request[c].room} ELSE adrift
    /\ Answer(c)
    /\ UNCHANGED <<documents, endMessages>>

-----------------------------------------------------------------------------
(* Specification                                                           *)

\* The next operation of a handler that is under way.
Continue(c) ==
    \/ CreateSave(c)
    \/ JoinRead(c) \/ AddParticipant(c)
    \/ EndEmptied(c) \/ CreateEndMessage(c)
    \/ ForceEnd(c) \/ ForceMark(c)

Ask(c) ==
    \/ CreateHuddle(c)
    \/ \E r \in Rooms : JoinHuddle(c, r) \/ LeaveHuddle(c, r)
    \/ ForceLeave(c)

Next ==
    \/ \E c \in Clients : Ask(c) \/ Continue(c) \/ RequestFails(c)
    \/ \E r \in Rooms : DeleteHuddle(r)

Spec == Init /\ [][Next]_vars

\* Handlers run to their end; nobody has to send a request.
FairSpec == Spec /\ \A c \in Clients : WF_vars(Continue(c))

-----------------------------------------------------------------------------
(* Properties                                                              *)

\* Every variable holds a value of its type.
TypeOK ==
    /\ status \in [Rooms -> {"none", "active", "ended"}]
    /\ initiator \in [Rooms -> Users \cup {None}]
    /\ participants \in [Rooms -> Seq(Entry)]
    /\ request \in [Clients -> Request]
    /\ \A c \in Clients : request[c].at \in RoomSteps =>
          request[c].room \in Rooms /\ status[request[c].room] # "none"
    /\ endMessages \in [Rooms -> Nat]
    /\ failures \in 0..MaxFailures
    /\ adrift \subseteq Rooms

\* A leave that found the huddle empty is about to end it.
Closing(r) == \E c \in Clients : request[c].at = "leaveEnd" /\ request[c].room = r

\* Nobody is in an active huddle only while leaveHuddle is ending it: of any
\* number of people who leave at once, somebody sees that they were the last.
\* (A force-leave that empties a huddle, and a failure, leave it adrift.)
EmptyIsClosing ==
    \A r \in Rooms : status[r] = "active" /\ AllLeft(participants[r]) => Closing(r) \/ r \in adrift

\* leaveHuddle never ends a huddle on somebody it should have seen: whoever is
\* in a huddle being ended joined after the leave looked.
ClosesOnlyOnLatecomers ==
    \A c \in Clients : request[c].at = "leaveEnd" =>
        /\ request[c].seen <= Len(participants[request[c].room])
        /\ \A i \in 1..request[c].seen : participants[request[c].room][i].left

\* A huddle that goes on.
Open(r) == status[r] = "active" /\ ~Closing(r) /\ r \notin adrift

\* createHuddle and joinHuddle check, then write.  A user with one device is
\* nevertheless held by one open huddle at most, as initiator or participant,
\* whatever the other users do in between.
OneDevice == \A d, e \in Devices : d = e
HeldByOneHuddle ==
    OneDevice => \A u \in Users, r, s \in Rooms :
        Open(r) /\ Open(s) /\ Counts(r, u) /\ Counts(s, u) => r = s

\* A huddle that everybody has left is ended, unless it was left adrift.
EmptiedIsEnded ==
    \A r \in Rooms : status[r] = "active" /\ AllLeft(participants[r]) ~> status[r] = "ended" \/ r \in adrift
-----------------------------------------------------------------------------
(* Refinement                                                              *)

RoomState(r) ==
    CASE status[r] = "none" -> "none"
      [] status[r] = "ended" -> "ended"
      [] Open(r) -> "open"
      [] OTHER -> "emptied"
RoomMembers(r) == IF Open(r) THEN {u \in Users : InHuddle(r, u)} ELSE {}

Abstract == INSTANCE HuddleRooms
    WITH state <- [r \in Rooms |-> RoomState(r)], members <- [r \in Rooms |-> RoomMembers(r)]

\* The huddles, as the concurrent requests of all devices leave them, behave like
\* HuddleRooms: in particular a join that lands after the last leave does not
\* bring a huddle back, and no leave empties it under a present participant.
ImplementsRooms == Abstract!Spec
=============================================================================
