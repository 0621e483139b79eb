--------------------------- MODULE ChatDelivery_proof ---------------------------
(* Proofs about ChatDelivery: for any users, sockets, processes, messages,   *)
(* failures and crashes, the map names open sockets only, a status that      *)
(* settles wrongly is one of those in astray, and a message passes by nobody *)
(* but a socket that the room did not know yet.  While a user's sockets      *)
(* follow one another, what others see of them is what there is.             *)
EXTENDS ChatDelivery, TLAPS

-----------------------------------------------------------------------------
(* Types                                                                   *)

\* A message that is being sent was sent by a socket.
FromSocket == \A m \in Messages : message[m].at # "none" => message[m].from \in Sockets

\* The empty message is a message, and the fields of one can be set one by one.
LEMMA UnsentIsMessage == Unsent \in Message /\ Unsent.at = "none"
  BY DEF Unsent, Message

\* The processes start with an entry for each socket that is connected.
LEMMA InitTypes == Init => TypeOK /\ FromSocket
  <1> SUFFICES ASSUME Init PROVE TypeOK /\ FromSocket
    OBVIOUS
  <1>1. entry \in [Processes -> [Users -> Sockets \cup {None}]]
    <2> SUFFICES ASSUME NEW p \in Processes, NEW u \in Users,
                        \E s \in Early : Owner[s] = u /\ Home[s] = p
                 PROVE  (CHOOSE s \in Early : Owner[s] = u) \in Sockets
      BY DEF Init
    <2> QED
      BY EarlyAssumption
  <1>2. message \in [Messages -> Message] /\ FromSocket
    BY UnsentIsMessage DEF Init, FromSocket
  <1>3. /\ sock \in [Sockets -> {"new", "open", "closed"}]
        /\ connecting \in [Sockets -> Steps]
        /\ closing \subseteq Sockets /\ joined \subseteq Sockets /\ strayed \subseteq Sockets
        /\ status \in [Users -> {"online", "offline"}]
        /\ members \subseteq Users /\ astray \subseteq Users
        /\ events \in 0..MaxEvents
    BY EarlyAssumption, BoundAssumption DEF Init, Steps
  <1>4. \A s \in Sockets : sock[s] = "new" =>
          s \notin closing \cup joined \cup strayed /\ connecting[s] = "idle"
    BY DEF Init
  <1> QED
    BY <1>1, <1>2, <1>3, <1>4 DEF TypeOK

\* Counting an event stays within the bound.
LEMMA EventTypes == ASSUME TypeOK, Event PROVE events' \in 0..MaxEvents
  BY BoundAssumption DEF TypeOK, Event

\* The steps of a connection keep the types.
LEMMA PresenceTypes ==
    ASSUME TypeOK, FromSocket, NEW s \in Sockets,
           \/ Connect(s) \/ WriteOnline(s) \/ ReadRooms(s) \/ JoinRooms(s)
           \/ ConnectFails(s) \/ Close(s) \/ WriteOffline(s) \/ WriteOfflineFails(s)
           \/ JoinConversation(s) \/ LeaveConversation(s)
    PROVE  TypeOK' /\ FromSocket'
  <1> USE SocketAssumption, EventTypes DEF TypeOK, FromSocket, Open
  <1>1. CASE Connect(s)
    BY <1>1 DEF Connect, Steps
  <1>2. CASE WriteOnline(s)
    BY <1>2 DEF WriteOnline, Steps
  <1>3. CASE ReadRooms(s)
    BY <1>3 DEF ReadRooms, Steps
  <1>4. CASE JoinRooms(s)
    BY <1>4 DEF JoinRooms, Steps
  <1>5. CASE ConnectFails(s)
    <2>1. connecting' \in [Sockets -> Steps] /\ connecting'[s] = "idle"
      BY <1>5 DEF ConnectFails, Steps
    <2>2. CASE sock[s] = "open"
      <3>1. /\ sock' = [sock EXCEPT ![s] = "closed"] /\ joined' = joined \ {s}
            /\ entry' = [entry EXCEPT ![Home[s]][Owner[s]] = None]
            /\ closing' = closing \cup {s}
            /\ UNCHANGED <<status, members, message, strayed, astray>>
        BY <1>5, <2>2 DEF ConnectFails
      <3>2. events' \in 0..MaxEvents
        BY <1>5 DEF ConnectFails
      <3>3. \A t \in Sockets \ {s} : connecting'[t] = connecting[t]
        BY <1>5 DEF ConnectFails
      <3>4. \A t \in Sockets : sock'[t] = "new" =>
              t \notin closing' \cup joined' \cup strayed' /\ connecting'[t] = "idle"
        BY <2>1, <3>1, <3>3
      <3>5. /\ sock' \in [Sockets -> {"new", "open", "closed"}]
            /\ closing' \subseteq Sockets /\ joined' \subseteq Sockets
            /\ entry' \in [Processes -> [Users -> Sockets \cup {None}]]
        BY <3>1
      <3> QED
        BY <2>1, <3>1, <3>2, <3>4, <3>5
    <2>3. CASE sock[s] # "open"
      BY <1>5, <2>1, <2>3 DEF ConnectFails
    <2> QED
      BY <2>2, <2>3
  <1>6. CASE Close(s)
    BY <1>6 DEF Close
  <1>7. CASE WriteOffline(s)
    BY <1>7 DEF WriteOffline
  <1>8. CASE WriteOfflineFails(s)
    BY <1>8 DEF WriteOfflineFails
  <1>9. CASE JoinConversation(s)
    BY <1>9 DEF JoinConversation
  <1>10. CASE LeaveConversation(s)
    BY <1>10 DEF LeaveConversation
  <1> QED
    BY <1>1, <1>2, <1>3, <1>4, <1>5, <1>6, <1>7, <1>8, <1>9, <1>10

\* The steps of a message keep the types.
LEMMA MessageTypes ==
    ASSUME TypeOK, FromSocket, NEW m \in Messages,
           \/ \E s \in Sockets : Send(s, m)
           \/ Emit(m) \/ ReadStatus(m) \/ Notify(m) \/ SendFails(m)
    PROVE  TypeOK' /\ FromSocket'
  <1>0. message[m] \in Message
    BY DEF TypeOK
  <1>1. CASE \E s \in Sockets : Send(s, m)
    <2> PICK s \in Sockets : Send(s, m)
      BY <1>1
    <2> DEFINE r == [Unsent EXCEPT !.at = "fetch", !.from = s, !.to = members \ {Owner[s]}]
    <2>1. r \in Message /\ r.from \in Sockets
      BY DEF TypeOK, Message, Unsent
    <2>2. message' = [message EXCEPT ![m] = r]
      BY DEF Send
    <2> HIDE DEF r
    <2> QED
      BY <2>1, <2>2 DEF TypeOK, FromSocket, Send, presence
  <1>2. CASE Emit(m)
    <2>1. message'[m] \in Message /\ message'[m].from = message[m].from /\ message[m].at # "none"
      BY <1>0, <1>2 DEF TypeOK, Emit, Message, Listening
    <2> QED
      BY <1>2, <2>1 DEF TypeOK, FromSocket, Emit, presence
  <1>3. CASE ReadStatus(m)
    <2>1. message'[m] \in Message /\ message'[m].from = message[m].from /\ message[m].at # "none"
      BY <1>0, <1>3 DEF TypeOK, ReadStatus, Message
    <2> QED
      BY <1>3, <2>1 DEF TypeOK, FromSocket, ReadStatus, presence
  <1>4. CASE Notify(m)
    <2>1. message'[m] \in Message /\ message'[m].from = message[m].from /\ message[m].at # "none"
      BY <1>0, <1>4 DEF TypeOK, Notify, Message
    <2> QED
      BY <1>4, <2>1 DEF TypeOK, FromSocket, Notify, presence
  <1>5. CASE SendFails(m)
    <2>1. message'[m] \in Message /\ message'[m].from = message[m].from /\ message[m].at # "none"
      BY <1>0, <1>5 DEF TypeOK, SendFails, Message
    <2> QED
      BY <1>5, <2>1, EventTypes DEF TypeOK, FromSocket, SendFails, presence
  <1> QED
    BY <1>1, <1>2, <1>3, <1>4, <1>5

\* A crash, and a change of the participants, keep the types.
LEMMA OtherTypes ==
    ASSUME TypeOK, FromSocket,
           (\E u \in Users : ChangeMembers(u)) \/ (\E p \in Processes : Crash(p))
    PROVE  TypeOK' /\ FromSocket'
  <1>1. CASE \E u \in Users : ChangeMembers(u)
    BY <1>1, EventTypes DEF TypeOK, FromSocket, ChangeMembers, Of, Open
  <1>2. CASE \E p \in Processes : Crash(p)
    <2> PICK p \in Processes : Crash(p)
      BY <1>2
    <2> DEFINE lost == {s \in Sockets : Home[s] = p /\ sock[s] # "new"}
    <2>1. message' \in [Messages -> Message] /\ FromSocket'
      <3> SUFFICES ASSUME NEW m \in Messages
                   PROVE  /\ message'[m] \in Message
                          /\ message'[m].at # "none" => message'[m].from \in Sockets
        BY DEF Crash, FromSocket
      <3>1. message[m] \in Message
        BY DEF TypeOK
      <3>2. [message[m] EXCEPT !.at = "failed"] \in Message
        BY <3>1 DEF Message
      <3>3. CASE message[m].from \in lost /\ message[m].at # "done"
        <4>1. message'[m] = [message[m] EXCEPT !.at = "failed"]
          BY <3>3 DEF Crash
        <4>2. message'[m].from = message[m].from
          BY <3>1, <4>1 DEF Message
        <4> QED
          BY <3>2, <3>3, <4>1, <4>2
      <3>4. CASE ~(message[m].from \in lost /\ message[m].at # "done")
        BY <3>1, <3>4 DEF Crash, FromSocket
      <3> QED
        BY <3>3, <3>4
    <2>2. astray' \subseteq Users /\ events' \in 0..MaxEvents
      BY EventTypes, SocketAssumption DEF Crash, TypeOK
    <2>3. /\ sock' \in [Sockets -> {"new", "open", "closed"}]
          /\ connecting' \in [Sockets -> Steps]
          /\ entry' \in [Processes -> [Users -> Sockets \cup {None}]]
          /\ closing' \subseteq Sockets /\ joined' \subseteq Sockets /\ strayed' \subseteq Sockets
          /\ status' \in [Users -> {"online", "offline"}] /\ members' \subseteq Users
      BY DEF Crash, TypeOK, Steps
    <2>4. \A s \in Sockets : sock'[s] = "new" =>
            s \notin closing' \cup joined' \cup strayed' /\ connecting'[s] = "idle"
      BY DEF Crash, TypeOK
    <2> QED
      BY <2>1, <2>2, <2>3, <2>4 DEF TypeOK
  <1> QED
    BY <1>1, <1>2

\* Every step keeps the types.
LEMMA TypeStep == TypeOK /\ FromSocket /\ [Next]_vars => TypeOK' /\ FromSocket'
  <1> SUFFICES ASSUME TypeOK, FromSocket, [Next]_vars PROVE TypeOK' /\ FromSocket'
    OBVIOUS
  <1>1. CASE UNCHANGED vars
    BY <1>1 DEF vars, TypeOK, FromSocket
  <1>2. CASE Next
    BY <1>2, PresenceTypes, MessageTypes, OtherTypes DEF Next
  <1> QED
    BY <1>1, <1>2

\* Every variable holds a value of its type.
THEOREM Types == Spec => []TypeOK
  <1> QED
    BY InitTypes, TypeStep, PTL DEF Spec

-----------------------------------------------------------------------------
(* The map of connected users                                              *)

\* At the start the map names the sockets that are connected.
LEMMA InitEntries == Init => EntryIsOpen
  <1> SUFFICES ASSUME Init, NEW p \in Processes, NEW u \in Users, entry[p][u] # None
               PROVE  Open(entry[p][u]) /\ Owner[entry[p][u]] = u /\ Home[entry[p][u]] = p
    BY DEF EntryIsOpen
  <1>1. PICK s \in Early : Owner[s] = u /\ Home[s] = p
    BY DEF Init
  <1>2. entry[p][u] = CHOOSE t \in Early : Owner[t] = u
    BY <1>1 DEF Init
  <1>3. entry[p][u] = s
    BY <1>1, <1>2, EarlyAssumption
  <1> QED
    BY <1>1, <1>3, EarlyAssumption DEF Init, Open

\* Whatever happens, the map names open sockets of the right user and process: a
\* socket that closes takes with it the entry it could be named by.
LEMMA EntryStep == TypeOK /\ EntryIsOpen /\ [Next]_vars => EntryIsOpen'
  <1> SUFFICES ASSUME TypeOK, EntryIsOpen, [Next]_vars PROVE EntryIsOpen'
    OBVIOUS
  <1> USE SocketAssumption DEF EntryIsOpen, Open
  <1>1. ASSUME NEW s \in Sockets, Connect(s) PROVE EntryIsOpen'
    BY <1>1 DEF Connect, TypeOK
  <1>2. ASSUME NEW s \in Sockets, Close(s) PROVE EntryIsOpen'
    BY <1>2 DEF Close, TypeOK
  <1>3. ASSUME NEW s \in Sockets, ConnectFails(s) PROVE EntryIsOpen'
    <2>1. CASE sock[s] = "open"
      <3>1. /\ sock' = [sock EXCEPT ![s] = "closed"]
            /\ entry' = [entry EXCEPT ![Home[s]][Owner[s]] = None]
        BY <1>3, <2>1 DEF ConnectFails
      <3> QED
        BY <3>1 DEF TypeOK
    <2>2. CASE sock[s] # "open"
      BY <1>3, <2>2 DEF ConnectFails
    <2> QED
      BY <2>1, <2>2
  <1>4. ASSUME NEW p \in Processes, Crash(p) PROVE EntryIsOpen'
    <2> SUFFICES ASSUME NEW q \in Processes, NEW u \in Users, entry'[q][u] # None
                 PROVE  /\ sock'[entry'[q][u]] = "open"
                        /\ Owner[entry'[q][u]] = u /\ Home[entry'[q][u]] = q
      OBVIOUS
    <2>1. q # p /\ entry'[q][u] = entry[q][u]
      BY <1>4 DEF Crash, TypeOK
    <2>2. entry[q][u] \in Sockets
      BY <2>1 DEF TypeOK
    <2>3. sock'[entry[q][u]] = sock[entry[q][u]]
      BY <1>4, <2>1, <2>2 DEF Crash
    <2> QED
      BY <2>1, <2>3
  <1>5. CASE UNCHANGED <<sock, entry>>
    BY <1>5
  <1> QED
    BY <1>1, <1>2, <1>3, <1>4, <1>5
    DEF Next, vars, presence, WriteOnline, ReadRooms, JoinRooms, WriteOffline, WriteOfflineFails,
        JoinConversation, LeaveConversation, Send, Emit, ReadStatus, Notify, SendFails,
        ChangeMembers

\* connectedUsers names open sockets only, whatever connections overlap.
THEOREM Entries == Spec => []EntryIsOpen
  <1> QED
    BY InitTypes, InitEntries, TypeStep, EntryStep, PTL DEF Spec

-----------------------------------------------------------------------------
(* The room                                                                *)

\* A participant's socket whose rooms were read without the conversation: the
\* participant came later.
SkippedStrayed ==
    \A s \in Sockets : Open(s) /\ connecting[s] = "skip" /\ Owner[s] \in members =>
        s \in strayed
RoomOK == SettledInRoom /\ SkippedStrayed

\* At the start whoever is connected is in the room.
LEMMA InitRoom == Init => RoomOK
  BY EarlyAssumption DEF Init, RoomOK, SettledInRoom, SkippedStrayed, Open

\* Every step keeps a settled participant in the room, or among those who strayed.
LEMMA RoomStep == TypeOK /\ RoomOK /\ [Next]_vars => RoomOK'
  <1> SUFFICES ASSUME TypeOK, RoomOK, [Next]_vars PROVE RoomOK'
    OBVIOUS
  <1> USE SocketAssumption DEF RoomOK, SettledInRoom, SkippedStrayed, Open, TypeOK
  <1>1. ASSUME NEW s \in Sockets, Connect(s) PROVE RoomOK'
    BY <1>1 DEF Connect
  <1>2. ASSUME NEW s \in Sockets, WriteOnline(s) PROVE RoomOK'
    BY <1>2 DEF WriteOnline
  <1>3. ASSUME NEW s \in Sockets, ReadRooms(s) PROVE RoomOK'
    BY <1>3 DEF ReadRooms
  <1>4. ASSUME NEW s \in Sockets, JoinRooms(s) PROVE RoomOK'
    BY <1>4 DEF JoinRooms
  <1>5. ASSUME NEW s \in Sockets, ConnectFails(s) PROVE RoomOK'
    <2>1. CASE sock[s] = "open"
      BY <1>5, <2>1 DEF ConnectFails
    <2>2. CASE sock[s] # "open"
      BY <1>5, <2>2 DEF ConnectFails
    <2> QED
      BY <2>1, <2>2
  <1>6. ASSUME NEW s \in Sockets, Close(s) PROVE RoomOK'
    BY <1>6 DEF Close
  <1>7. ASSUME NEW s \in Sockets, JoinConversation(s) PROVE RoomOK'
    BY <1>7 DEF JoinConversation
  <1>8. ASSUME NEW s \in Sockets, LeaveConversation(s) PROVE RoomOK'
    BY <1>8 DEF LeaveConversation
  <1>9. ASSUME NEW u \in Users, ChangeMembers(u) PROVE RoomOK'
    <2>1. CASE u \in members
      BY <1>9, <2>1 DEF ChangeMembers
    <2>2. CASE u \notin members
      BY <1>9, <2>2 DEF ChangeMembers, Of
    <2> QED
      BY <2>1, <2>2
  <1>10. ASSUME NEW p \in Processes, Crash(p) PROVE RoomOK'
    BY <1>10 DEF Crash
  <1>11. CASE UNCHANGED <<sock, connecting, joined, strayed, members>>
    BY <1>11
  <1> QED
    BY <1>1, <1>2, <1>3, <1>4, <1>5, <1>6, <1>7, <1>8, <1>9, <1>10, <1>11
    DEF Next, vars, presence, WriteOffline, WriteOfflineFails, Send, Emit, ReadStatus, Notify,
        SendFails

\* A connected participant is in the room, unless they left it or came later.
THEOREM Rooms == Spec => []SettledInRoom
  <1>1. RoomOK => SettledInRoom
    BY DEF RoomOK
  <1> QED
    BY <1>1, InitTypes, InitRoom, TypeStep, RoomStep, PTL DEF Spec

-----------------------------------------------------------------------------
(* The status                                                              *)

\* A status that is wrong, and not astray, is about to be written.
OfflinePending ==
    \A u \in Users : u \notin astray /\ status[u] = "online" =>
        \E s \in Of(u) : Open(s) \/ s \in closing
OnlinePending ==
    \A u \in Users : u \notin astray /\ status[u] = "offline" =>
        \A s \in Of(u) : Open(s) => connecting[s] = "status"
StatusOK == OfflinePending /\ OnlinePending

\* At the start a user is shown online exactly if connected.
LEMMA InitStatus == Init => StatusOK
  BY EarlyAssumption DEF Init, StatusOK, OfflinePending, OnlinePending, Open, Of

\* Every step that makes a status wrong leaves a handler that will write it, or
\* puts its user among the astray.
LEMMA StatusStep == TypeOK /\ StatusOK /\ [Next]_vars => StatusOK'
  <1> SUFFICES ASSUME TypeOK, StatusOK, [Next]_vars PROVE StatusOK'
    OBVIOUS
  <1> USE SocketAssumption DEF StatusOK, OfflinePending, OnlinePending, Open, Of, TypeOK
  <1>1. ASSUME NEW s \in Sockets, Connect(s) PROVE StatusOK'
    BY <1>1 DEF Connect
  <1>2. ASSUME NEW s \in Sockets, WriteOnline(s) PROVE StatusOK'
    BY <1>2 DEF WriteOnline
  <1>3. ASSUME NEW s \in Sockets, ReadRooms(s) PROVE StatusOK'
    BY <1>3 DEF ReadRooms
  <1>4. ASSUME NEW s \in Sockets, JoinRooms(s) PROVE StatusOK'
    BY <1>4 DEF JoinRooms
  <1>5. ASSUME NEW s \in Sockets, ConnectFails(s) PROVE StatusOK'
    <2>1. CASE sock[s] = "open"
      BY <1>5, <2>1 DEF ConnectFails
    <2>2. CASE sock[s] # "open"
      BY <1>5, <2>2 DEF ConnectFails
    <2> QED
      BY <2>1, <2>2
  <1>6. ASSUME NEW s \in Sockets, Close(s) PROVE StatusOK'
    BY <1>6 DEF Close
  <1>7. ASSUME NEW s \in Sockets, WriteOffline(s) PROVE StatusOK'
    <2>1. CASE \E t \in Of(Owner[s]) : Open(t) /\ connecting[t] # "status"
      BY <1>7, <2>1 DEF WriteOffline
    <2>2. CASE ~\E t \in Of(Owner[s]) : Open(t) /\ connecting[t] # "status"
      BY <1>7, <2>2 DEF WriteOffline
    <2> QED
      BY <2>1, <2>2
  <1>8. ASSUME NEW s \in Sockets, WriteOfflineFails(s) PROVE StatusOK'
    BY <1>8 DEF WriteOfflineFails
  <1>9. ASSUME NEW p \in Processes, Crash(p) PROVE StatusOK'
    BY <1>9 DEF Crash
  <1>10. CASE UNCHANGED <<sock, connecting, closing, status, astray>>
    BY <1>10
  <1> QED
    BY <1>1, <1>2, <1>3, <1>4, <1>5, <1>6, <1>7, <1>8, <1>9, <1>10
    DEF Next, vars, presence, JoinConversation, LeaveConversation, ChangeMembers,
        Send, Emit, ReadStatus, Notify, SendFails

\* When no status of a user is being written, it is right, or the user astray.
THEOREM Statuses == Spec => []StatusSettles
  <1>1. TypeOK /\ StatusOK => StatusSettles
    BY DEF TypeOK, StatusOK, OfflinePending, OnlinePending, StatusSettles, Quiet
  <1> QED
    BY <1>1, InitTypes, InitStatus, TypeStep, StatusStep, PTL DEF Spec

-----------------------------------------------------------------------------
(* Messages                                                                *)

\* The decision whom to notify leaves out only those whose entry names an open
\* socket of the sender's process: it was in the room, or had not joined it.
LEMMA NotifyReaches ==
    TypeOK /\ FromSocket /\ EntryIsOpen /\ [Next]_vars =>
        \A m \in Messages : message[m].at = "decide" /\ message'[m].at = "done" =>
            \A u \in message[m].to : Reached(m, u)
  <1> SUFFICES ASSUME TypeOK, FromSocket, EntryIsOpen, [Next]_vars, NEW m \in Messages,
                      message[m].at = "decide", message'[m].at = "done",
                      NEW u \in message[m].to
               PROVE  Reached(m, u)
    OBVIOUS
  <1>0. message[m] \in Message /\ message \in [Messages -> Message] /\ u \in Users
    BY DEF TypeOK, Message
  <1>1. Notify(m)
    <2>1. ~UNCHANGED message
      OBVIOUS
    <2>2. ASSUME NEW n \in Messages, (\E s \in Sockets : Send(s, n)) \/ Emit(n) \/ ReadStatus(n) \/ SendFails(n)
          PROVE  FALSE
      <3>1. CASE \E s \in Sockets : Send(s, n)
        <4>1. message[n] = Unsent /\ message' = [message EXCEPT ![n] = message'[n]]
              /\ message'[n].at = "fetch"
          BY <1>0, <3>1 DEF Send, Unsent
        <4> QED
          BY <1>0, <4>1
      <3>2. CASE Emit(n)
        <4>1. \A l \in Messages \ {n} : message'[l] = message[l]
          BY <1>0, <3>2 DEF Emit
        <4>2. message[n] \in Message /\ message'[n].at = "notify"
          BY <1>0, <3>2 DEF Emit, Message
        <4> QED
          BY <4>1, <4>2
      <3>3. CASE ReadStatus(n)
        BY <1>0, <3>3 DEF ReadStatus, Message
      <3>4. CASE SendFails(n)
        BY <1>0, <3>4 DEF SendFails, Message
      <3> QED
        BY <2>2, <3>1, <3>2, <3>3, <3>4
    <2>3. ASSUME NEW n \in Messages, Notify(n)
          PROVE  n = m
      BY <1>0, <2>3 DEF Notify
    <2>4. ASSUME NEW p \in Processes, Crash(p)
          PROVE  FALSE
      BY <1>0, <2>4 DEF Crash, Message
    <2> QED
      BY <2>1, <2>2, <2>3, <2>4
      DEF Next, vars, Connect, WriteOnline, ReadRooms, JoinRooms, ConnectFails, Close,
          WriteOffline, WriteOfflineFails, JoinConversation, LeaveConversation, ChangeMembers
  <1>2. message'[m].pushed = message[m].away \cup
                {v \in message[m].to : entry[Home[message[m].from]][v] = None}
    BY <1>0, <1>1 DEF Notify, Message
  <1>3. CASE entry[Home[message[m].from]][u] = None
    BY <1>2, <1>3 DEF Reached
  <1>4. CASE entry[Home[message[m].from]][u] # None
    <2> DEFINE s == entry[Home[message[m].from]][u]
    <2>1. message[m].from \in Sockets /\ Home[message[m].from] \in Processes
      BY SocketAssumption DEF FromSocket
    <2>2. s \in Sockets /\ Open(s) /\ Owner[s] = u /\ Home[s] = Home[message[m].from]
      BY <1>0, <1>4, <2>1 DEF TypeOK, EntryIsOpen
    <2> QED
      BY <2>2 DEF Reached, Of
  <1> QED
    BY <1>3, <1>4

\* Whom neither the room nor a push reaches has a socket the room did not know yet.
THEOREM Deliveries == Spec => NobodyMissed
  <1>1. TypeOK /\ FromSocket /\ EntryIsOpen /\ [Next]_vars =>
          [\A m \in Messages : message[m].at = "decide" /\ message'[m].at = "done" =>
              \A u \in message[m].to : Reached(m, u)]_vars
    BY NotifyReaches
  <1> QED
    BY <1>1, InitTypes, InitEntries, TypeStep, EntryStep, PTL DEF Spec, NobodyMissed


-----------------------------------------------------------------------------
(* Connections that do not overlap                                         *)

\* A socket that is open, or one of whose handlers is still at work.
Busy(s) == Open(s) \/ connecting[s] # "idle" \/ s \in closing

\* What the gateway takes for granted: a user's sockets follow one another, each
\* once the handlers of the one before are done, and none closes before its
\* 'online' is written.
OneAtATime ==
    /\ \A s, t \in Sockets : Owner[s] = Owner[t] /\ Busy(s) /\ Busy(t) => s = t
    /\ \A s \in Sockets : connecting[s] = "status" => Open(s)

\* No 'offline' is lost, to a failure or with its process.
NoLoss ==
    /\ \A s \in Sockets : ~WriteOfflineFails(s)
    /\ \A p \in Processes : ~Crash(p)

\* Then the map has every open socket, and no status is astray.
Exact ==
    /\ astray = {}
    /\ \A s \in closing : sock[s] = "closed"
    /\ \A s \in Sockets : Open(s) => entry[Home[s]][Owner[s]] = s

\* What others see of a user is what there is: their process maps them to their
\* socket, and a settled status is 'online' exactly if they have one.
PresenceIsTrue ==
    /\ \A s \in Sockets : Open(s) => entry[Home[s]][Owner[s]] = s
    /\ \A u \in Users : Quiet(u) => (status[u] = "online" <=> \E s \in Of(u) : Open(s))

\* At the start the map has the sockets that are connected.
LEMMA InitExact == Init => Exact
  <1> SUFFICES ASSUME Init, NEW s \in Sockets, Open(s)
               PROVE  entry[Home[s]][Owner[s]] = s
    BY DEF Init, Exact
  <1>1. s \in Early
    BY DEF Init, Open
  <1>2. entry[Home[s]][Owner[s]] = CHOOSE t \in Early : Owner[t] = Owner[s]
    BY <1>1, SocketAssumption DEF Init
  <1> QED
    BY <1>1, <1>2, EarlyAssumption

\* Every step of connections that do not overlap keeps the map exact and leaves
\* nobody astray.
LEMMA ExactStep ==
    TypeOK /\ OneAtATime /\ OneAtATime' /\ Exact /\ [Next]_vars /\ [NoLoss]_vars => Exact'
  <1> SUFFICES ASSUME TypeOK, OneAtATime, OneAtATime', Exact, [Next]_vars, [NoLoss]_vars
               PROVE  Exact'
    OBVIOUS
  <1> USE SocketAssumption DEF Exact, Open, TypeOK
  <1>1. ASSUME NEW s \in Sockets, Connect(s) PROVE Exact'
    <2>1. \A t \in Sockets \ {s} : sock[t] = "open" => Owner[t] # Owner[s]
      <3> SUFFICES ASSUME NEW t \in Sockets \ {s}, sock[t] = "open" PROVE Owner[t] # Owner[s]
        OBVIOUS
      <3>1. sock'[t] = "open" /\ sock'[s] = "open"
        BY <1>1 DEF Connect
      <3> QED
        BY <3>1 DEF OneAtATime, Busy
    <2> QED
      BY <1>1, <2>1 DEF Connect
  <1>2. ASSUME NEW s \in Sockets, WriteOnline(s) PROVE Exact'
    BY <1>2 DEF WriteOnline, OneAtATime
  <1>3. ASSUME NEW s \in Sockets, sock[s] = "open"
        PROVE  \A t \in Sockets \ {s} : sock[t] = "open" => Owner[t] # Owner[s]
    BY <1>3 DEF OneAtATime, Busy
  <1>4. ASSUME NEW s \in Sockets, Close(s) PROVE Exact'
    BY <1>3, <1>4 DEF Close
  <1>5. ASSUME NEW s \in Sockets, ConnectFails(s) PROVE Exact'
    <2>1. CASE sock[s] = "open"
      <3>1. /\ sock' = [sock EXCEPT ![s] = "closed"]
            /\ entry' = [entry EXCEPT ![Home[s]][Owner[s]] = None]
            /\ closing' = closing \cup {s} /\ astray' = astray
        BY <1>5, <2>1 DEF ConnectFails
      <3> QED
        BY <1>3, <2>1, <3>1
    <2>2. CASE sock[s] # "open"
      BY <1>5, <2>2 DEF ConnectFails
    <2> QED
      BY <2>1, <2>2
  <1>6. ASSUME NEW s \in Sockets, WriteOffline(s) PROVE Exact'
    <2>1. ~\E t \in Of(Owner[s]) : Open(t)
      BY <1>6 DEF WriteOffline, OneAtATime, Busy, Of
    <2> QED
      BY <1>6, <2>1 DEF WriteOffline
  <1>7. CASE UNCHANGED <<sock, closing, entry, astray>>
    BY <1>7
  <1>8. CASE NoLoss /\ Next
    BY <1>1, <1>2, <1>4, <1>5, <1>6, <1>7, <1>8
    DEF NoLoss, Next, presence, ReadRooms, JoinRooms, JoinConversation, LeaveConversation,
        Send, Emit, ReadStatus, Notify, SendFails, ChangeMembers
  <1> QED
    BY <1>7, <1>8 DEF vars

\* While a user's sockets follow one another and no 'offline' is lost, presence is
\* exact: the map names every open socket, and each settled status is right.
THEOREM SerialPresenceIsTrue ==
    Spec /\ []OneAtATime /\ [][NoLoss]_vars => []PresenceIsTrue
  <1>1. Exact /\ StatusSettles => PresenceIsTrue
    BY DEF Exact, StatusSettles, PresenceIsTrue
  <1> QED
    BY <1>1, InitTypes, TypeStep, InitExact, ExactStep, Statuses, PTL DEF Spec
=============================================================================
