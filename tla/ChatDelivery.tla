----------------------------- MODULE ChatDelivery -----------------------------
(***************************************************************************)
(* Presence and the delivery of messages: ChatGateway                      *)
(* (src/src/gateways/chat.gateway.ts) in every process of the cluster.     *)
(*                                                                         *)
(* A process keeps, in memory, one socket per user (connectedUsers) and    *)
(* the room of the conversation; the processes share the database only:    *)
(* the users' status and the participants of the conversation.  An action  *)
(* is the code between two awaits.  What a message does to the documents   *)
(* is in Conversations; here it is who hears of it.                        *)
(***************************************************************************)
EXTENDS Naturals

CONSTANTS
    Users,
    Processes,
    Sockets,        \* the connections that are ever made
    Owner,          \* socket -> the user of its token
    Home,           \* socket -> the process that serves it
    Messages,
    None,           \* "no socket"
    Early,          \* the sockets that are connected, in their room, at the start
    MaxEvents       \* bound on the changes of the room and of the participants,
                    \* the failed operations and the crashes

ASSUME SocketAssumption == Owner \in [Sockets -> Users] /\ Home \in [Sockets -> Processes]
ASSUME NoneAssumption == None \notin Sockets
ASSUME EarlyAssumption ==
    /\ Early \subseteq Sockets
    /\ \A s, t \in Early : Owner[s] = Owner[t] => s = t
ASSUME BoundAssumption == MaxEvents \in Nat

VARIABLES
    sock,           \* socket -> is it open?
    connecting,     \* socket -> what its handleConnection waits for
    closing,        \* sockets whose handleDisconnect waits for its update
    entry,          \* process -> connectedUsers
    joined,         \* sockets in the room of the conversation
    status,         \* user -> status in the user's document
    members,        \* participants in the conversation's document
    message,        \* message -> how far its handler is
    events,         \* how many changes, failures and crashes there were
    strayed,        \* history: sockets that left the room by themselves, or whose
                    \* user became a participant after their rooms were read
    astray          \* history: users whose status was written out of order

vars == <<sock, connecting, closing, entry, joined, status, members, message,
          events, strayed, astray>>
presence == <<sock, connecting, closing, entry, joined, status, strayed, astray>>

Steps == {"idle", "status", "query", "join", "skip"}
Message == [at : {"none", "fetch", "notify", "decide", "done", "failed"},
            from : Sockets \cup {None},
            to : SUBSET Users,          \* recipientIds
            heard : SUBSET Sockets,     \* who was in the room when it was emitted
            away : SUBSET Users,        \* recipients read as offline
            pushed : SUBSET Users]      \* recipients notified
Unsent == [at |-> "none", from |-> None, to |-> {}, heard |-> {}, away |-> {}, pushed |-> {}]

Event == events < MaxEvents /\ events' = events + 1

Open(s) == sock[s] = "open"
Of(u) == {s \in Sockets : Owner[s] = u}

Init ==
    /\ sock = [s \in Sockets |-> IF s \in Early THEN "open" ELSE "new"]
    /\ connecting = [s \in Sockets |-> "idle"]
    /\ closing = {}
    /\ entry = [p \in Processes |-> [u \in Users |->
                   IF \E s \in Early : Owner[s] = u /\ Home[s] = p
                     THEN CHOOSE s \in Early : Owner[s] = u ELSE None]]
    /\ joined = Early
    /\ status = [u \in Users |-> IF \E s \in Early : Owner[s] = u THEN "online" ELSE "offline"]
    /\ members = Users
    /\ message = [m \in Messages |-> Unsent]
    /\ events = 0
    /\ strayed = {} /\ astray = {}

-----------------------------------------------------------------------------
(* Connections                                                             *)

\* Mutant of Connect: the map keeps the user, not the socket.
ConnectKeepsUser(s) ==
    /\ sock[s] = "new"
    /\ sock' = [sock EXCEPT ![s] = "open"]
    /\ entry' = [entry EXCEPT ![Home[s]][Owner[s]] = Owner[s]]
    /\ connecting' = [connecting EXCEPT ![s] = "status"]
    /\ UNCHANGED <<closing, joined, status, members, message, events, strayed, astray>>

\* handleConnection, up to its first await.
Connect(s) ==
    /\ sock[s] = "new"
    /\ sock' = [sock EXCEPT ![s] = "open"]
    /\ entry' = [entry EXCEPT ![Home[s]][Owner[s]] = s]
    /\ connecting' = [connecting EXCEPT ![s] = "status"]
    /\ UNCHANGED <<closing, joined, status, members, message, events, strayed, astray>>

WriteOnline(s) ==
    /\ connecting[s] = "status"
    /\ connecting' = [connecting EXCEPT ![s] = "query"]
    /\ status' = [status EXCEPT ![Owner[s]] = "online"]
    /\ astray' = IF Open(s) THEN astray \ {Owner[s]} ELSE astray \cup {Owner[s]}
    /\ UNCHANGED <<sock, closing, entry, joined, members, message, events, strayed>>

\* getUserConversations reads the database ...
ReadRooms(s) ==
    /\ connecting[s] = "query"
    /\ connecting' = [connecting EXCEPT ![s] = IF Owner[s] \in members THEN "join" ELSE "skip"]
    /\ UNCHANGED <<sock, closing, entry, joined, status, members, message, events, strayed, astray>>

\* Mutant of JoinRooms: the rooms are left to conversation:join.
JoinNoRooms(s) ==
    /\ connecting[s] \in {"join", "skip"}
    /\ connecting' = [connecting EXCEPT ![s] = "idle"]
    /\ UNCHANGED <<sock, closing, entry, joined, status, members, message, events, strayed, astray>>

\* ... and the socket is joined to what it answered, be it open or not.
JoinRooms(s) ==
    /\ connecting[s] \in {"join", "skip"}
    /\ connecting' = [connecting EXCEPT ![s] = "idle"]
    /\ joined' = IF connecting[s] = "join" THEN joined \cup {s} ELSE joined
    /\ UNCHANGED <<sock, closing, entry, status, members, message, events, strayed, astray>>

\* Mutant of Close: the entry of the user stays.
CloseKeepsEntry(s) ==
    /\ Open(s)
    /\ sock' = [sock EXCEPT ![s] = "closed"]
    /\ joined' = joined \ {s}
    /\ closing' = closing \cup {s}
    /\ UNCHANGED <<entry, connecting, status, members, message, events, strayed, astray>>

\* Mutant of Close: the status is left to the next connection.
CloseSilently(s) ==
    /\ Open(s)
    /\ sock' = [sock EXCEPT ![s] = "closed"]
    /\ joined' = joined \ {s}
    /\ entry' = [entry EXCEPT ![Home[s]][Owner[s]] = None]
    /\ UNCHANGED <<closing, connecting, status, members, message, events, strayed, astray>>

\* The socket closes, by itself or because handleConnection failed, and
\* handleDisconnect erases whatever entry its user has.
Close(s) ==
    /\ Open(s)
    /\ sock' = [sock EXCEPT ![s] = "closed"]
    /\ joined' = joined \ {s}
    /\ entry' = [entry EXCEPT ![Home[s]][Owner[s]] = None]
    /\ closing' = closing \cup {s}
    /\ UNCHANGED <<connecting, status, members, message, events, strayed, astray>>

WriteOffline(s) ==
    /\ s \in closing
    /\ closing' = closing \ {s}
    /\ status' = [status EXCEPT ![Owner[s]] = "offline"]
    /\ astray' = IF \E t \in Of(Owner[s]) : Open(t) /\ connecting[t] # "status"
                   THEN astray \cup {Owner[s]} ELSE astray \ {Owner[s]}
    /\ UNCHANGED <<sock, connecting, entry, joined, members, message, events, strayed>>

\* The update of handleDisconnect fails: the status stays.
WriteOfflineFails(s) ==
    /\ s \in closing
    /\ Event
    /\ closing' = closing \ {s}
    /\ astray' = astray \cup {Owner[s]}
    /\ UNCHANGED <<sock, connecting, entry, joined, status, members, message, strayed>>

\* An operation of handleConnection fails: the rest does not happen, and its
\* socket is closed if it is still open.
ConnectFails(s) ==
    /\ connecting[s] \in {"status", "query"}
    /\ Event
    /\ connecting' = [connecting EXCEPT ![s] = "idle"]
    /\ IF Open(s)
         THEN /\ sock' = [sock EXCEPT ![s] = "closed"]
              /\ joined' = joined \ {s}
              /\ entry' = [entry EXCEPT ![Home[s]][Owner[s]] = None]
              /\ closing' = closing \cup {s}
         ELSE UNCHANGED <<sock, joined, entry, closing>>
    /\ UNCHANGED <<status, members, message, strayed, astray>>

\* conversation:join and conversation:leave
JoinConversation(s) ==
    /\ Open(s) /\ s \notin joined
    /\ Event
    /\ joined' = joined \cup {s}
    /\ UNCHANGED <<sock, connecting, closing, entry, status, members, message, strayed, astray>>

LeaveConversation(s) ==
    /\ Open(s) /\ s \in joined
    /\ Event
    /\ joined' = joined \ {s}
    /\ strayed' = strayed \cup {s}
    /\ UNCHANGED <<sock, connecting, closing, entry, status, members, message, astray>>

\* Another handler adds or removes a participant; no socket hears of it.
ChangeMembers(u) ==
    /\ Event
    /\ \/ /\ u \in members
          /\ members' = members \ {u}
          /\ UNCHANGED strayed
       \/ /\ u \notin members
          /\ members' = members \cup {u}
          /\ strayed' = strayed \cup {s \in Of(u) : Open(s) /\ connecting[s] \notin {"status", "query"}}
    /\ UNCHANGED <<sock, connecting, closing, entry, joined, status, message, astray>>

-----------------------------------------------------------------------------
(* Messages                                                                *)

\* message:send.  The message is created; who takes part is read.
Send(s, m) ==
    /\ Open(s)
    /\ message[m] = Unsent
    /\ message' = [message EXCEPT ![m] =
                     [Unsent EXCEPT !.at = "fetch", !.from = s, !.to = members \ {Owner[s]}]]
    /\ UNCHANGED <<presence, members, events>>

\* server.to(room).emit reaches the open sockets of this process in the room.
Listening(p) == {s \in joined : Open(s) /\ Home[s] = p}

Emit(m) ==
    /\ message[m].at = "fetch"
    /\ message' = [message EXCEPT ![m].at = "notify", ![m].heard = Listening(Home[message[m].from])]
    /\ UNCHANGED <<presence, members, events>>

\* getUsersByIds
ReadStatus(m) ==
    /\ message[m].at = "notify"
    /\ message' = [message EXCEPT ![m].at = "decide",
                     ![m].away = {u \in message[m].to : status[u] = "offline"}]
    /\ UNCHANGED <<presence, members, events>>

\* Mutant of Notify: only those who are offline by their status are notified.
NotifyByStatus(m) ==
    /\ message[m].at = "decide"
    /\ message' = [message EXCEPT ![m].at = "done", ![m].pushed = message[m].away]
    /\ UNCHANGED <<presence, members, events>>

\* The status was read before, connectedUsers is read now.
Notify(m) ==
    /\ message[m].at = "decide"
    /\ message' = [message EXCEPT ![m].at = "done", ![m].pushed =
                     message[m].away \cup
                     {u \in message[m].to : entry[Home[message[m].from]][u] = None}]
    /\ UNCHANGED <<presence, members, events>>

\* The increment of the unread counts or the query fails: nobody is notified.
SendFails(m) ==
    /\ message[m].at \in {"fetch", "notify", "decide"}
    /\ Event
    /\ message' = [message EXCEPT ![m].at = "failed"]
    /\ UNCHANGED <<presence, members>>

-----------------------------------------------------------------------------
(* Crashes                                                                 *)

\* A process dies, and one that remembers nothing takes its place.
Crash(p) ==
    LET lost == {s \in Sockets : Home[s] = p /\ sock[s] # "new"} IN
    /\ Event
    /\ sock' = [s \in Sockets |-> IF s \in lost THEN "closed" ELSE sock[s]]
    /\ connecting' = [s \in Sockets |-> IF s \in lost THEN "idle" ELSE connecting[s]]
    /\ closing' = closing \ lost
    /\ joined' = joined \ lost
    /\ entry' = [entry EXCEPT ![p] = [u \in Users |-> None]]
    /\ message' = [m \in Messages |->
                     IF message[m].from \in lost /\ message[m].at # "done"
                       THEN [message[m] EXCEPT !.at = "failed"] ELSE message[m]]
    /\ astray' = astray \cup {Owner[s] : s \in lost}
    /\ UNCHANGED <<status, members, strayed>>

-----------------------------------------------------------------------------
(* Specification                                                           *)

Next ==
    \/ \E s \in Sockets :
          \/ Connect(s) \/ WriteOnline(s) \/ ReadRooms(s) \/ JoinRooms(s)
          \/ ConnectFails(s)
          \/ Close(s) \/ WriteOffline(s) \/ WriteOfflineFails(s)
          \/ JoinConversation(s) \/ LeaveConversation(s)
          \/ \E m \in Messages : Send(s, m)
    \/ \E m \in Messages : Emit(m) \/ ReadStatus(m) \/ Notify(m) \/ SendFails(m)
    \/ \E u \in Users : ChangeMembers(u)
    \/ \E p \in Processes : Crash(p)

Spec == Init /\ [][Next]_vars

-----------------------------------------------------------------------------
(* Properties                                                              *)

\* Every variable holds a value of its type, and only a socket that was opened
\* has handlers, entries and rooms.
TypeOK ==
    /\ sock \in [Sockets -> {"new", "open", "closed"}]
    /\ connecting \in [Sockets -> Steps]
    /\ closing \subseteq Sockets /\ joined \subseteq Sockets /\ strayed \subseteq Sockets
    /\ entry \in [Processes -> [Users -> Sockets \cup {None}]]
    /\ status \in [Users -> {"online", "offline"}]
    /\ members \subseteq Users
    /\ message \in [Messages -> Message]
    /\ events \in 0..MaxEvents
    /\ astray \subseteq Users
    /\ \A s \in Sockets : sock[s] = "new" =>
          s \notin closing \cup joined \cup strayed /\ connecting[s] = "idle"

\* However connections and disconnections of one user overlap, connectedUsers
\* names only open sockets, of the right user and process.
EntryIsOpen ==
    \A p \in Processes, u \in Users : entry[p][u] # None =>
        LET s == entry[p][u] IN Open(s) /\ Owner[s] = u /\ Home[s] = p

\* Once no status of a user is being written, the user is shown online exactly if a
\* socket is open, unless a process crashed, a write failed, an 'offline' overtook
\* the 'online' of its own connection or came from an old socket after a new one's
\* 'online': these are the ways in which a user can be shown wrongly.
Quiet(u) == \A s \in Of(u) : connecting[s] # "status" /\ s \notin closing
StatusSettles ==
    \A u \in Users : Quiet(u) /\ u \notin astray =>
        (status[u] = "online" <=> \E s \in Of(u) : Open(s))

\* A connected participant is in the room, but for those who left it by
\* themselves or became participants later.
SettledInRoom ==
    \A s \in Sockets : Open(s) /\ connecting[s] = "idle" /\ Owner[s] \in members =>
        s \in joined \cup strayed

\* A recipient whom neither the room nor a push reaches has an open socket in the
\* sender's process that was not in the room when the message was emitted there.
Reached(m, u) ==
    \/ \E s \in message[m].heard : Owner[s] = u
    \/ u \in message'[m].pushed
    \/ \E s \in Of(u) : /\ Open(s) /\ Home[s] = Home[message[m].from]
                        /\ s \notin message[m].heard
NobodyMissed ==
    [][\A m \in Messages : message[m].at = "decide" /\ message'[m].at = "done" =>
          \A u \in message[m].to : Reached(m, u)]_vars
=============================================================================
