--------------------------- MODULE CallSignaling ---------------------------
(***************************************************************************)
(* Call signalling: the /webrtc Socket.IO gateway                          *)
(* (src/src/gateways/webrtc.gateway.ts), the call history it persists      *)
(* through CallsService (src/src/modules/calls/calls.service.ts) and the   *)
(* REST endpoints of CallsController that touch the same history.          *)
(*                                                                         *)
(* Node runs one handler at a time, but a handler gives up the thread at   *)
(* every await.  An action below is therefore one stretch of a handler     *)
(* between two awaits, and `tasks' holds the handlers that are waiting.    *)
(*                                                                         *)
(* A call is known under two identifiers: the random callId the gateway    *)
(* makes up, <<c, "gw">>, and the MongoDB _id of its history record,       *)
(* <<c, "db">>.  The gateway's map uses the first; the REST API the second. *)
(***************************************************************************)
EXTENDS Naturals, FiniteSets

CONSTANTS
    Users,          \* user ids (payload.sub of the access token)
    Sockets,        \* socket ids; Socket.IO never reuses one
    Calls,          \* one element per call:initiate or POST /calls
    None,           \* "no user", "no socket"
    RestUsers,      \* the users that also use the REST endpoints
    RestStatuses,   \* the statuses they write with PUT /calls/:id
    Initiations,    \* the pairs <<u, us>> such that u may start a call that names us
    AnswersOwn,     \* clients let a user answer and reject a call of his own
    MaxPending      \* bound: no request is taken while this many handlers wait

TerminalStatus == {"completed", "missed", "rejected", "failed"}
DbStatus == {"ongoing"} \cup TerminalStatus

ASSUME NoneAssumption == None \notin Users \cup Sockets
ASSUME RestAssumption == RestUsers \subseteq Users /\ RestStatuses \subseteq DbStatus
ASSUME InitiationAssumption == Initiations \subseteq Users \X SUBSET Users
ASSUME AnswersAssumption == AnswersOwn \in BOOLEAN
ASSUME BoundAssumption == MaxPending \in Nat

VARIABLES
    sockUser,       \* client.data.userId of each socket, None before it connects
    open,           \* the sockets whose transport is up
    connectedUsers, \* Map userId -> socketId, None when there is no entry
    activeCalls,    \* Map callId -> CallSession, NoSession when there is no entry
    rooms,          \* the Socket.IO room call:<id>
    record,         \* the calls collection: call -> document, or NoRecord
    caller,         \* who started each call, None while its identifiers are unused
    messages,       \* outcomes announced by "call" messages in the conversation
    tasks,          \* handlers waiting at an await
    known,          \* id -> the users a client of whom was told it
    ringing,        \* <<socket, id>>: the device's last event for id was call:incoming
    lost            \* history: calls whose record the gateway cannot be held to

gatewayVars == <<connectedUsers, activeCalls, rooms>>
historyVars == <<record, messages, caller, lost>>
clientVars  == <<sockUser, open, known, ringing>>
vars == <<sockUser, open, connectedUsers, activeCalls, rooms, record, caller,
          messages, tasks, known, ringing, lost>>

-----------------------------------------------------------------------------
(* Data                                                                    *)

Keys == Calls \X {"gw", "db"}
GwKey(c) == <<c, "gw">>
DbKey(c) == <<c, "db">>

\* A session keeps what the handlers read: a session rebuilt by call:answer has
\* initiator None and no dbCallId (saved = FALSE).
Session == [initiator : Users \cup {None}, participants : SUBSET Users,
            status : {"ringing", "active"}, saved : BOOLEAN]
NoSession == [initiator |-> None, participants |-> {}, status |-> "none", saved |-> FALSE]

Record == [status : DbStatus, participants : SUBSET Users]
NoRecord == [status |-> "absent", participants |-> {}]

\* A session or a record with another status, or with more participants.
WithStatus(doc, st) == [doc EXCEPT !.status = st]
WithUsers(doc, us) == [doc EXCEPT !.participants = @ \cup us]

Ops == {"initiate", "replay", "reject", "end", "drop", "put", "invite"}
Pcs == {"save", "set", "caller", "push", "join", "find", "message", "update", "finish", "emit"}
\* sock: the client, a socket or the user of a REST request; key: the call; status: the outcome being recorded;
\* users: the participants of the call, or the users being invited;
\* saves: the record was created (initiate), or its status will be written
\* (Mongoose writes a field only when it differs from what findById read).
Task == [op : Ops, pc : Pcs, sock : Sockets \cup RestUsers, key : Keys,
         status : DbStatus, users : SUBSET Users, saves : BOOLEAN]

NewTask(op, pc, s, k, st, us) ==
    [op |-> op, pc |-> pc, sock |-> s, key |-> k, status |-> st, users |-> us,
     saves |-> FALSE]
Replace(t, u) == tasks' = (tasks \ {t}) \cup {u}
At(t, pc) == [t EXCEPT !.pc = pc]
Settled(t, pc, saves) == [t EXCEPT !.pc = pc, !.saves = saves]
Advance(t, pc) == Replace(t, At(t, pc))
Finished(t) == tasks' = tasks \ {t}

\* One handler of a kind per client and call is in flight: a client waits for
\* the answer before it sends the same request again.
Outstanding(op, s, k) == \E t \in tasks : t.op = op /\ t.sock = s /\ t.key = k

HasRoom == Cardinality(tasks) < MaxPending

\* The handlers that delete the entry of their key when they finish.
Closing(k) == {t \in tasks : t.op \in {"reject", "end", "drop"} /\ t.key = k}

Live(k) == activeCalls[k] # NoSession

Init ==
    /\ sockUser = [s \in Sockets |-> None]
    /\ open = {}
    /\ connectedUsers = [u \in Users |-> None]
    /\ activeCalls = [k \in Keys |-> NoSession]
    /\ rooms = [k \in Keys |-> {}]
    /\ record = [c \in Calls |-> NoRecord]
    /\ caller = [c \in Calls |-> None]
    /\ messages = [c \in Calls |-> {}]
    /\ tasks = {}
    /\ known = [k \in Keys |-> {}]
    /\ ringing = {}
    /\ lost = {}

-----------------------------------------------------------------------------
(* Connection management                                                   *)

\* The calls whose call:incoming a newly connected user has to be sent again.
PendingFor(u) ==
    {k \in Keys : /\ activeCalls[k].status = "ringing"
                  /\ activeCalls[k].initiator # u
                  /\ u \in activeCalls[k].participants}

\* The token is verified and the map updated in one stretch; each pending call
\* then waits for usersService.findById(call.initiator).
HandleConnection(s, u) ==
    /\ sockUser[s] = None
    /\ sockUser' = [sockUser EXCEPT ![s] = u]
    /\ open' = open \cup {s}
    /\ connectedUsers' = [connectedUsers EXCEPT ![u] = s]
    /\ tasks' = tasks \cup {NewTask("replay", "caller", s, k, "ongoing", {}) : k \in PendingFor(u)}
    /\ UNCHANGED <<activeCalls, rooms, historyVars, known, ringing>>

\* The rest of the callback of handleConnection: client.emit('call:incoming').
ReplayIncoming(t) ==
    /\ t.op = "replay"
    /\ Finished(t)
    /\ IF t.sock \in open
       THEN /\ ringing' = ringing \cup {<<t.sock, t.key>>}
            /\ known' = [known EXCEPT ![t.key] = @ \cup {sockUser[t.sock]}]
       ELSE UNCHANGED <<ringing, known>>
    /\ UNCHANGED <<sockUser, open, gatewayVars, historyVars>>

\* The process ends: memory and connections go, the database stays.  Every call
\* issued so far is lost: no handler is left to record how it ends.
Crash ==
    /\ open' = {}
    /\ connectedUsers' = [u \in Users |-> None]
    /\ activeCalls' = [k \in Keys |-> NoSession]
    /\ rooms' = [k \in Keys |-> {}]
    /\ tasks' = {}
    /\ ringing' = {}
    /\ lost' = lost \cup {c \in Calls : caller[c] # None}
    /\ UNCHANGED <<sockUser, record, caller, messages, known>>

\* The callback is async inside forEach, so a findById that rejects is nobody's
\* to catch: main.ts installs no handler and Node ends the process.
ReplayFails(t) ==
    /\ t.op = "replay"
    /\ Crash

Restart == Crash

\* Mutant of Abandoned: the user who leaves is not filtered out of the participants,
\* and the entry is still there when the calls are examined.
AbandonedByAll(s) ==
    {k \in Keys : /\ activeCalls[k].status = "active"
                  /\ sockUser[s] \in activeCalls[k].participants
                  /\ \A p \in activeCalls[k].participants : connectedUsers[p] = None}

\* The calls that the loss of socket s ends: active ones of its user in which
\* no other participant has a map entry.
Abandoned(s) ==
    {k \in Keys : /\ activeCalls[k].status = "active"
                  /\ sockUser[s] \in activeCalls[k].participants
                  /\ \A p \in activeCalls[k].participants \ {sockUser[s]} : connectedUsers[p] = None}

\* Mutant of HandleDisconnect: the map entry stays.
HandleDisconnectKeepsEntry(s) ==
    /\ s \in open
    /\ open' = open \ {s}
    /\ rooms' = [k \in Keys |-> rooms[k] \ {s}]
    /\ ringing' = {r \in ringing : r[1] # s}
    /\ UNCHANGED <<sockUser, connectedUsers, activeCalls, known, tasks, historyVars>>

\* The user's entry is deleted whichever socket it names.  handleCallEnd runs for
\* each abandoned call: to its first await when the call has a record, to the end
\* otherwise.
HandleDisconnect(s) ==
    /\ s \in open
    /\ open' = open \ {s}
    /\ connectedUsers' = [connectedUsers EXCEPT ![sockUser[s]] = None]
    /\ rooms' = [k \in Keys |-> rooms[k] \ {s}]
    /\ LET saved == {k \in Abandoned(s) : activeCalls[k].saved}
           gone  == Abandoned(s) \ saved
       IN /\ tasks' = tasks \cup
                {NewTask("drop", "find", s, k, "completed", activeCalls[k].participants) : k \in saved}
          /\ activeCalls' = [k \in Keys |-> IF k \in gone THEN NoSession ELSE activeCalls[k]]
          /\ ringing' = {r \in ringing : r[1] # s /\ ~(r[2] \in gone /\ r[1] \in rooms[r[2]])}
    /\ UNCHANGED <<sockUser, known, historyVars>>

-----------------------------------------------------------------------------
(* call:initiate                                                           *)

\* Up to the first await, callsService.create.  The list of participants is taken
\* as it comes: it may be empty and it may name the caller.
HandleCallInitiate(s, c, us) ==
    /\ s \in open /\ HasRoom
    /\ caller[c] = None
    /\ <<sockUser[s], us>> \in Initiations
    /\ caller' = [caller EXCEPT ![c] = sockUser[s]]
    /\ tasks' = tasks \cup {NewTask("initiate", "save", s, GwKey(c), "ongoing", us)}
    /\ UNCHANGED <<clientVars, gatewayVars, record, messages, lost>>

\* callsService.create saves the record, or fails and the failure is swallowed.
InitiateSave(t) ==
    /\ t.op = "initiate" /\ t.pc = "save"
    /\ \E saved \in BOOLEAN :
         /\ record' = IF saved
                      THEN [record EXCEPT ![t.key[1]] =
                               [status |-> "ongoing", participants |-> t.users \cup {sockUser[t.sock]}]]
                      ELSE record
         /\ Replace(t, Settled(t, "set", saved))
    /\ UNCHANGED <<clientVars, gatewayVars, messages, caller, lost>>

\* activeCalls.set, then the wait for the caller's profile.
InitiateSet(t) ==
    /\ t.op = "initiate" /\ t.pc = "set"
    /\ activeCalls' = [activeCalls EXCEPT ![t.key] =
            [initiator |-> sockUser[t.sock], participants |-> t.users \cup {sockUser[t.sock]},
             status |-> "ringing", saved |-> t.saves]]
    /\ Advance(t, "caller")
    /\ UNCHANGED <<clientVars, connectedUsers, rooms, historyVars>>

\* The caller's profile arrived: call:incoming to every participant in the map.
InitiateRing(t) ==
    /\ t.op = "initiate" /\ t.pc = "caller"
    /\ LET reached == {p \in t.users : connectedUsers[p] # None}
       IN /\ ringing' = ringing \cup {<<connectedUsers[p], t.key>> : p \in reached}
          /\ known' = [known EXCEPT ![t.key] = @ \cup reached]
    /\ Advance(t, "push")
    /\ UNCHANGED <<sockUser, open, gatewayVars, historyVars>>

\* findById threw: the outer catch answers {success: false}; the session stays.
InitiateFails(t) ==
    /\ t.op = "initiate" /\ t.pc = "caller"
    /\ Finished(t)
    /\ UNCHANGED <<clientVars, gatewayVars, historyVars>>

\* Push notifications reach the participants that have tokens, if any.
InitiatePush(t) ==
    /\ t.op = "initiate" /\ t.pc = "push"
    /\ \E us \in SUBSET t.users : known' = [known EXCEPT ![t.key] = @ \cup us]
    /\ Advance(t, "join")
    /\ UNCHANGED <<sockUser, open, ringing, gatewayVars, historyVars>>

\* client.join and the acknowledgement, which tells the caller the identifier.
InitiateJoin(t) ==
    /\ t.op = "initiate" /\ t.pc = "join"
    /\ rooms' = [rooms EXCEPT ![t.key] = @ \cup {t.sock}]
    /\ known' = IF t.sock \in open
                THEN [known EXCEPT ![t.key] = @ \cup {sockUser[t.sock]}]
                ELSE known
    /\ Finished(t)
    /\ UNCHANGED <<sockUser, open, ringing, connectedUsers, activeCalls, historyVars>>

-----------------------------------------------------------------------------
(* call:answer, call:reject, call:end                                      *)

\* Mutant of MinimalSession: the status is not one a session can have.
MinimalSessionEnded(u) ==
    [initiator |-> None, participants |-> {u}, status |-> "ended", saved |-> FALSE]

\* The session that call:answer makes up for an unknown identifier.
MinimalSession(u) ==
    [initiator |-> None, participants |-> {u}, status |-> "active", saved |-> FALSE]

\* A client may answer or reject a call it was told of; the gateway does not ask
\* whether its user started it.
Offered(s, k) ==
    /\ s \in open
    /\ sockUser[s] \in known[k]
    /\ sockUser[s] = caller[k[1]] => AnswersOwn

\* Everything up to `call.status = active' is one stretch.  The awaited joinCall
\* changes nothing: joinedAt defaults to Date.now for every participant at
\* creation, so `!existingParticipant.joinedAt' never holds.
HandleCallAnswer(s, k) ==
    /\ Offered(s, k)
    /\ activeCalls' = [activeCalls EXCEPT ![k] =
            IF Live(k) THEN WithStatus(@, "active") ELSE MinimalSession(sockUser[s])]
    /\ rooms' = [rooms EXCEPT ![k] = @ \cup {s}]
    /\ ringing' = ringing \ {<<s, k>>}
    /\ UNCHANGED <<sockUser, open, known, connectedUsers, tasks, historyVars>>

\* call:rejected goes to the room and to the rejecting socket; the entry goes.
RejectSession(s, k) ==
    /\ ringing' = {r \in ringing : ~(r[2] = k /\ r[1] \in rooms[k] \cup {s})}
    /\ activeCalls' = [activeCalls EXCEPT ![k] = NoSession]

\* call:ended goes to the room, to the map entry of every other participant and
\* to the ending socket; the entry goes.
EndSession(s, k, us) ==
    /\ LET others == {connectedUsers[p] : p \in us \ {sockUser[s]}}
       IN ringing' = {r \in ringing : ~(r[2] = k /\ r[1] \in rooms[k] \cup others \cup {s})}
    /\ activeCalls' = [activeCalls EXCEPT ![k] = NoSession]

\* Up to `await callsService.update', or to the end when the call has no record.
HandleCallReject(s, k) ==
    /\ Offered(s, k)
    /\ Live(k) /\ HasRoom
    /\ ~Outstanding("reject", s, k)
    /\ IF activeCalls[k].saved
       THEN /\ tasks' = tasks \cup {NewTask("reject", "find", s, k, "rejected", {})}
            /\ UNCHANGED <<ringing, activeCalls>>
       ELSE /\ RejectSession(s, k)
            /\ UNCHANGED tasks
    /\ UNCHANGED <<sockUser, open, known, connectedUsers, rooms, historyVars>>

\* The outcome is decided from the session before the await.
Outcome(k) == IF activeCalls[k].status = "ringing" THEN "missed" ELSE "completed"

HandleCallEnd(s, k) ==
    /\ s \in open
    /\ sockUser[s] \in known[k]
    /\ Live(k) /\ HasRoom
    /\ ~Outstanding("end", s, k)
    /\ IF activeCalls[k].saved
       THEN /\ tasks' = tasks \cup
                 {NewTask("end", "find", s, k, Outcome(k), activeCalls[k].participants)}
            /\ UNCHANGED <<ringing, activeCalls>>
       ELSE /\ EndSession(s, k, activeCalls[k].participants)
            /\ UNCHANGED tasks
    /\ UNCHANGED <<sockUser, open, known, connectedUsers, rooms, historyVars>>

FinishReject(t) ==
    /\ t.op = "reject" /\ t.pc = "finish"
    /\ RejectSession(t.sock, t.key)
    /\ Finished(t)
    /\ UNCHANGED <<sockUser, open, known, connectedUsers, rooms, historyVars>>

FinishEnd(t) ==
    /\ t.op \in {"end", "drop"} /\ t.pc = "finish"
    /\ EndSession(t.sock, t.key, t.users)
    /\ Finished(t)
    /\ UNCHANGED <<sockUser, open, known, connectedUsers, rooms, historyVars>>

-----------------------------------------------------------------------------
(* CallsService.update, awaited by the handlers above and by PUT /calls/:id *)

Updating(t, pc) == t.op \in {"reject", "end", "drop", "put"} /\ t.pc = pc

\* update threw: the gateway logs it and goes on, the controller answers an error.
GiveUp(t) == IF t.op = "put" THEN Finished(t) ELSE Advance(t, "finish")

\* findById, which throws NotFoundException for a deleted record.
UpdateFind(t) ==
    LET rec == record[t.key[1]]
    IN /\ Updating(t, "find")
       /\ IF rec = NoRecord
          THEN GiveUp(t)
          ELSE Replace(t, Settled(t, IF t.status \in TerminalStatus THEN "message" ELSE "update",
                                       rec.status # t.status))
       /\ UNCHANGED <<clientVars, gatewayVars, historyVars>>

\* createCallEndMessage, whose own failures are swallowed.
UpdateMessage(t) ==
    /\ Updating(t, "message")
    /\ \E sent \in BOOLEAN :
         messages' = IF sent THEN [messages EXCEPT ![t.key[1]] = @ \cup {t.status}] ELSE messages
    /\ Advance(t, "update")
    /\ UNCHANGED <<clientVars, gatewayVars, record, caller, lost>>

\* Mutant of UpdateSave: the document is saved without its new status.
UpdateSaveForgetsStatus(t) ==
    /\ Updating(t, "update")
    /\ GiveUp(t)
    /\ lost' = IF t.status = "ongoing" THEN lost \cup {t.key[1]} ELSE lost
    /\ UNCHANGED <<clientVars, gatewayVars, record, caller, messages>>

\* call.save(), which throws when the record has been deleted meanwhile.  A call
\* that PUT reopens is out of the gateway's hands.
UpdateSave(t) ==
    LET c == t.key[1]
    IN /\ Updating(t, "update")
       /\ IF record[c] = NoRecord
          THEN /\ GiveUp(t)
               /\ UNCHANGED <<record, lost>>
          ELSE /\ record' = IF t.saves THEN [record EXCEPT ![c] = WithStatus(@, t.status)] ELSE record
               /\ lost' = IF t.status = "ongoing" THEN lost \cup {c} ELSE lost
               /\ GiveUp(t)
       /\ UNCHANGED <<clientVars, gatewayVars, caller, messages>>

\* The database fails the read or the write: the outcome is never recorded.
UpdateFails(t) ==
    /\ Updating(t, "find") \/ Updating(t, "update")
    /\ GiveUp(t)
    /\ lost' = lost \cup {t.key[1]}
    /\ UNCHANGED <<clientVars, gatewayVars, record, caller, messages>>

-----------------------------------------------------------------------------
(* CallsController: the history through its MongoDB identifier              *)

\* POST /calls writes a record that no gateway session stands behind; participantIds
\* may be left out and may name the initiator, who is filtered.
RestCreate(u, c, us) ==
    /\ caller[c] = None
    /\ <<u, us>> \in Initiations
    /\ caller' = [caller EXCEPT ![c] = u]
    /\ record' = [record EXCEPT ![c] = [status |-> "ongoing", participants |-> us \cup {u}]]
    /\ lost' = lost \cup {c}
    /\ UNCHANGED <<clientVars, gatewayVars, tasks, messages>>

\* PUT /calls/:id
PutCall(u, c, st) ==
    /\ record[c] # NoRecord /\ HasRoom
    /\ ~Outstanding("put", u, DbKey(c))
    /\ tasks' = tasks \cup {NewTask("put", "find", u, DbKey(c), st, {})}
    /\ UNCHANGED <<clientVars, gatewayVars, historyVars>>

\* DELETE /calls/history removes the calls u took part in, under way or not.
DeleteHistory(u) ==
    /\ \E c \in Calls : u \in record[c].participants
    /\ record' = [c \in Calls |-> IF u \in record[c].participants THEN NoRecord ELSE record[c]]
    /\ UNCHANGED <<clientVars, gatewayVars, tasks, caller, messages, lost>>

\* Mutant of Invite: the users who are already in the call are not filtered out.
InviteAgain(u, c, us) ==
    /\ record[c] # NoRecord /\ HasRoom
    /\ us # {}
    /\ ~Outstanding("invite", u, DbKey(c))
    /\ tasks' = tasks \cup {NewTask("invite", "update", u, DbKey(c), "ongoing", us)}
    /\ UNCHANGED <<clientVars, gatewayVars, historyVars>>

\* POST /calls/:id/invite reads the record and keeps the users not yet in it.
Invite(u, c, us) ==
    /\ record[c] # NoRecord /\ HasRoom
    /\ us \ record[c].participants # {}
    /\ ~Outstanding("invite", u, DbKey(c))
    /\ tasks' = tasks \cup
          {NewTask("invite", "update", u, DbKey(c), "ongoing", us \ record[c].participants)}
    /\ UNCHANGED <<clientVars, gatewayVars, historyVars>>

\* Mutant of InviteSave: the document is written back as it was read, also when it
\* has been deleted meanwhile.
InviteSaveUpserts(t) ==
    LET c == t.key[1]
    IN /\ t.op = "invite" /\ t.pc = "update"
       /\ record' = [record EXCEPT ![c] =
              [status |-> IF @ = NoRecord THEN t.status ELSE @.status,
               participants |-> @.participants \cup t.users]]
       /\ Advance(t, "emit")
       /\ UNCHANGED <<clientVars, gatewayVars, caller, messages, lost>>

InviteSave(t) ==
    LET c == t.key[1]
    IN /\ t.op = "invite" /\ t.pc = "update"
       /\ IF record[c] = NoRecord
          THEN Finished(t) /\ UNCHANGED record
          ELSE /\ record' = [record EXCEPT ![c] = WithUsers(@, t.users)]
               /\ Advance(t, "emit")
       /\ UNCHANGED <<clientVars, gatewayVars, caller, messages, lost>>

\* sendCallInvitation: the identifier sent, and looked up in activeCalls, is the
\* MongoDB one.
InviteEmit(t) ==
    /\ t.op = "invite" /\ t.pc = "emit"
    /\ LET reached == {u \in t.users : connectedUsers[u] # None}
       IN /\ ringing' = ringing \cup {<<connectedUsers[u], t.key>> : u \in reached}
          /\ known' = [known EXCEPT ![t.key] = @ \cup reached]
    /\ activeCalls' = IF Live(t.key)
                      THEN [activeCalls EXCEPT ![t.key] = WithUsers(@, t.users)]
                      ELSE activeCalls
    /\ Finished(t)
    /\ UNCHANGED <<sockUser, open, connectedUsers, rooms, historyVars>>

\* The save, the second findById or the inviter's profile fails.
InviteFails(t) ==
    /\ t.op = "invite"
    /\ Finished(t)
    /\ UNCHANGED <<clientVars, gatewayVars, historyVars>>

-----------------------------------------------------------------------------
(* Specification                                                           *)

\* The next stretch of a waiting handler, whatever its await resolves to.
Continue(t) ==
    \/ ReplayIncoming(t) \/ ReplayFails(t)
    \/ InitiateSave(t) \/ InitiateSet(t) \/ InitiateRing(t) \/ InitiateFails(t)
    \/ InitiatePush(t) \/ InitiateJoin(t)
    \/ UpdateFind(t) \/ UpdateMessage(t) \/ UpdateSave(t) \/ UpdateFails(t)
    \/ FinishReject(t) \/ FinishEnd(t)
    \/ InviteSave(t) \/ InviteEmit(t) \/ InviteFails(t)

Connection == \E s \in Sockets : (\E u \in Users : HandleConnection(s, u)) \/ HandleDisconnect(s)

Client ==
    \/ \E s \in Sockets, c \in Calls, us \in SUBSET Users : HandleCallInitiate(s, c, us)
    \/ \E s \in Sockets, k \in Keys :
          HandleCallAnswer(s, k) \/ HandleCallReject(s, k) \/ HandleCallEnd(s, k)

Rest ==
    \E u \in RestUsers :
        \/ DeleteHistory(u)
        \/ \E c \in Calls, us \in SUBSET Users : RestCreate(u, c, us) \/ Invite(u, c, us)
        \/ \E c \in Calls, st \in RestStatuses : PutCall(u, c, st)

Next == Connection \/ Client \/ Rest \/ (\E t \in tasks : Continue(t)) \/ Restart

Spec == Init /\ [][Next]_vars

\* Every await resolves or rejects, so the waiting handlers of a call go on; a
\* client need not connect, answer or hang up.
FairSpec == Spec /\ \A k \in Keys : WF_vars(\E t \in tasks : t.key = k /\ Continue(t))

-----------------------------------------------------------------------------
(* Properties                                                              *)

\* Every variable holds a value of its type; in particular the callbacks that
\* follow an await belong to sockets that did connect.
TypeOK ==
    /\ sockUser \in [Sockets -> Users \cup {None}]
    /\ open \subseteq Sockets
    /\ connectedUsers \in [Users -> Sockets \cup {None}]
    /\ activeCalls \in [Keys -> Session \cup {NoSession}]
    /\ rooms \in [Keys -> SUBSET Sockets]
    /\ record \in [Calls -> Record \cup {NoRecord}]
    /\ caller \in [Calls -> Users \cup {None}]
    /\ messages \in [Calls -> SUBSET DbStatus]
    /\ tasks \subseteq Task
    /\ known \in [Keys -> SUBSET Users]
    /\ ringing \subseteq Sockets \X Keys
    /\ lost \subseteq Calls

\* connectedUsers never routes a user's signalling to a socket that is closed or
\* that belongs to somebody else (handleConnection and handleDisconnect race for
\* the same entry when a client reconnects).
RoutesToOwnOpenSocket ==
    \A u \in Users : connectedUsers[u] # None =>
        connectedUsers[u] \in open /\ sockUser[connectedUsers[u]] = u

\* Some participant of k still has a connection.
Attended(k) == \E s \in open : sockUser[s] \in activeCalls[k].participants

\* An active call outlives its last connection only while a handler is ending
\* it: handleDisconnect leaves no answered call behind.
ActiveCallAttended ==
    \A k \in Keys : activeCalls[k].status = "active" => Attended(k) \/ Closing(k) # {}

\* Call history: a record says "ongoing" only while the gateway still has the
\* call and will record its end, unless the database failed, the process
\* restarted or the record was written through REST.
NoStuckOngoing ==
    \A c \in Calls : record[c].status = "ongoing" /\ c \notin lost =>
        \/ Live(GwKey(c)) /\ activeCalls[GwKey(c)].saved
        \/ \E t \in tasks : t.op = "initiate" /\ t.key = GwKey(c) /\ t.pc = "set"

\* A call whose end was announced in the conversation is recorded as over, or a
\* handler is still to record it: createCallEndMessage runs before call.save().
AnnouncedIsRecorded ==
    \A c \in Calls : messages[c] # {} /\ record[c].status = "ongoing" /\ c \notin lost =>
        \E t \in tasks : Updating(t, "update") /\ t.key[1] = c

\* A device of the caller rings for the caller's own call only because the request
\* that started the call named the caller: neither the replay on reconnection nor
\* an invitation ever rings it, whatever became of the call and of its record.
CallerRingsOnlyIfNamed ==
    [][\A r \in ringing' \ ringing : sockUser[r[1]] = caller[r[2][1]] =>
          \E t \in tasks : t.op = "initiate" /\ t.key = r[2] /\ sockUser[r[1]] \in t.users]_vars

\* A call that was active when its last participant left is removed.
AbandonedCallRemoved ==
    \A k \in Keys : activeCalls[k].status = "active" /\ ~Attended(k) ~> ~Live(k) \/ Attended(k)

-----------------------------------------------------------------------------
(* Refinement                                                              *)

\* The call has been started and its record is still to be saved.
Starting(c) == \E t \in tasks : t.op = "initiate" /\ t.pc = "save" /\ t.key = GwKey(c)

HistoryState(c) ==
    CASE record[c].status = "ongoing" -> "ongoing"
      [] record[c].status \in TerminalStatus -> "over"
      [] record[c] = NoRecord /\ caller[c] = None -> "new"
      [] record[c] = NoRecord /\ caller[c] # None /\ Starting(c) -> "starting"
      [] OTHER -> "gone"

History == INSTANCE CallHistory
    WITH state <- [c \in Calls |-> HistoryState(c)],
         parties <- [c \in Calls |-> record[c].participants],
         MayReopen <- "ongoing" \in RestStatuses

\* Whatever handlers and REST requests interleave, the collection is a CallHistory:
\* no save brings a deleted record back, no handler takes anybody out of one, and
\* nothing but a PUT of "ongoing" reopens a settled call.
ImplementsHistory == History!Spec
=============================================================================
