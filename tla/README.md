# Verification of the QuickChat backend gateway

This directory holds TLA+ models of the backend gateway (the NestJS application
under `src/`), the TLC configurations that model-check them and theorems about
them checked by TLAPS. Paths below are relative to the application's source
directory `src/` unless they say otherwise.

## 1. The system

The gateway is a NestJS application with REST controllers, Socket.IO gateways and
in-process workers over MongoDB, with optional Redis, RabbitMQ and Kafka. PM2 runs
one copy per core (`../ecosystem.config.js`, cluster mode) and starts a copy that
died again. A Node process runs one callback at a time, so nothing is preempted;
everything that is hard comes from `await`. A handler that awaits a database call
lets every other handler run, and what it read before the await may be wrong after
it. A process may end at any point (deployments, memory limits, unhandled
rejections) and loses what it keeps in memory: Socket.IO rooms, the maps of the
gateways, timers, and the rest of every handler that was waiting.

| Part | State | Operations | What makes it correct |
|---|---|---|---|
| Call signalling, `gateways/webrtc.gateway.ts` | `connectedUsers`, `activeCalls`, rooms `call:<id>` | connection, disconnection, `call:initiate`, `call:answer`, `call:reject`, `call:end`, relays | signalling is routed to the right socket; every call that is started ends, in memory and in the history |
| Call history, `modules/calls/` | the `calls` collection | create, update, history, delete, invite | a record ends as the call did |
| Huddles, `modules/huddle/` | the `huddles` collection | create, join, leave, end, force-leave, invite | a user is in one huddle at a time; a huddle that everybody left ends; nobody present is thrown out by a leave |
| Huddle gateway, `modules/huddle/huddle.gateway.ts` | `userSockets`, `socketRooms`, rooms | join-room, leave-room, relays, disconnection | offers reach the user's present socket; who is in a room is announced and told when others go |
| Scheduled messages, `modules/scheduled-messages/` | the `scheduledmessages` collection | schedule, edit, cancel, delete, send the due ones | a message is sent once, or reported failed, and never lost |
| Chat gateway, `gateways/chat.gateway.ts` | `connectedUsers`, rooms per conversation, `status` of users | connection, disconnection, join, leave, typing, send, read | a connected user is shown online; a message reaches every recipient, in the room or by a push |
| Conversations and messages, `modules/conversations/`, `modules/messages/` | the `conversations` and `messages` collections | create, participants, pin, send, read, react, delete | limits hold; one direct conversation per pair; one receipt and one reaction each; unread counts and the last message are those of the messages |
| Messages microservice, `microservices/messages-service/` | its own `messages` collection, copies of messages in a cache | send, forward, get, edit, delete, mark, react, pin | a copy is the message; one reaction each; a retracted message stays empty |
| Calls microservice, `microservices/calls-service/` | its own `calls` collection, cached active calls | initiate, answer, reject, join, leave, end | a call that ended stays ended and rings nobody; a live call has somebody in it |
| Sessions, `microservices/auth-service/` | the `sessions` collection, a blacklist in the cache | login, refresh, logout, revoke | a refresh token works once and dies with its session |
| Polls, `modules/polls/` | the `polls` collection | create, vote, remove vote, close, delete | totals agree with the votes; nobody votes in a closed poll |
| RabbitMQ, `common/rabbitmq/` | connection, channels, consumers, retry counters in headers | connect, reconnect, publish, consume, retry, dead-letter | every delivery is acknowledged or dead-lettered; the connection comes back |
| Notification queue, `common/queue/` | a heap in memory | enqueue, process, stop | highest priority first; nothing is lost while the process runs |
| Tokens of the gateway, `modules/auth/token.service.ts` | blacklist and sessions in memory | issue, refresh, logout | one process only |
| Cache, `common/cache/` | Redis or a map with TTLs | get, set, getOrSet, increment | a value read was stored after the last invalidation |
| CRUD modules and the other microservices | MongoDB collections | request and response | single-document writes |
| Infrastructure: logging, monitoring, storage, mail, PDF, CSV, XML, i18n, security headers | none that outlives a request | pure I/O and formatting | outside the scope of these models |

How the parts interact: the socket gateways call the services in process
(`CallsService.create` from `call:initiate`; `createMessage`, `markAsRead` and
`incrementUnreadCount` from `message:send` and `message:read`), the services call MongoDB and each
other (`createMessage` from the scheduler, from a finished call and from an ended
huddle), and REST controllers call back into the gateways (`sendCallInvitation`,
`sendHuddleInvitation`). Two processes share nothing but MongoDB (and Redis, where
it is configured); the maps of a gateway are correct for one process only.

`PROJECT.json` lists every component, the ones that are not modelled too, and under
"hazards" what is hard to test, at its line.

## 2. The modules

| Module | Models |
|---|---|
| `CallSignaling` | the `/webrtc` gateway with the call history it writes and the REST endpoints over the same history |
| `Huddle` | the REST handlers of huddles, at the granularity of their database operations |
| `HuddleRooms` | abstract specification: what huddles promise their users |
| `CallHistory` | abstract specification: what users see of the call history |
| `Outbox` | abstract specification: what scheduled messages promise their senders |
| `ScheduledMessages` | the scheduler in every process of the cluster, and the requests that edit, cancel and delete what it sends |
| `CallRecords` | the calls microservice: each handler as its read and its save |
| `ChatDelivery` | the `/chat` gateway in every process: presence, rooms, and who hears of a message |
| `Conversations` | what REST and the chat gateway do to the documents of a conversation and its messages |
| `MessageStore` | the messages microservice: its collection and the cache of `getMessage` |
| `MCCallSignaling`, `MCHuddle`, `MCScheduledMessages`, `MCCallRecords`, `MCChatDelivery`, `MCConversations`, `MCMessageStore` | small instances for TLC |
| `CallSignalingClaims`, `HuddleClaims` | what comments and answers of the code say and the code does not do |
| `CallSignaling_proof`, `Huddle_proof`, `ScheduledMessages_proof`, `CallRecords_proof`, `ChatDelivery_proof`, `Conversations_proof`, `MessageStore_proof` | theorems |

In all of them an action is the stretch of one handler between two awaits, so TLC
and the proofs see every interleaving that the event loop, or several processes
over one database, can produce.

### CallSignaling

State. `sockUser` and `open` are Socket.IO's: who authenticated on each socket and
which sockets are up. `connectedUsers`, `activeCalls` and `rooms` are the
gateway's. `record` is the `calls` collection (status and participants) and
`messages` the outcomes announced by the `call` messages of the conversation.
`caller`, `known`, `ringing` and `lost` are what the environment knows: who
started a call, which users were told its identifier (only they can answer,
reject or end it), which devices are ringing for it, and for which calls the
record can no longer be expected to be right (database failure, restart, or
written by REST). Nothing checks whom a client names: `Initiations` holds the
requests there may be, and they may name nobody, or the caller himself, whose own
socket is then rung. `AnswersOwn` says whether a client lets its user answer and
reject a call of his own.

Steps. `tasks` is the set of handlers that wait at an `await`; each action is the
stretch of one handler between two awaits, so TLC and the proofs see every
interleaving that Node's event loop can produce. `call:initiate` is six actions
(`HandleCallInitiate`, `InitiateSave`, `InitiateSet`, `InitiateRing`,
`InitiatePush`, `InitiateJoin`, and `InitiateFails` when the profile lookup
throws); `call:reject` and `call:end` run to `callsService.update`, whose own
awaits are `UpdateFind`, `UpdateMessage` and `UpdateSave`, and then to
`FinishReject` or `FinishEnd`. A call without a record is ended in one stretch.
`handleDisconnect` starts one `drop` handler for each call it abandons. `Restart`
and `ReplayFails` (an unhandled rejection) end the process: memory and connections
go and the database stays. Database failures are explicit (`UpdateFails`,
`InviteFails`, the FALSE branch of `InitiateSave`).

`CallHistory` is what users see of the collection: a started call gets a record with
somebody in it, or none ever; its people only become more; it is settled, and
comes back only if clients may write that it goes on; who clears his history takes the
call away from everybody, and what is gone does not return, although handlers that read
the record before go on to save it. The mapping is `HistoryState` (a call is "starting"
while its `call:initiate` waits for the insertion, "gone" when it has been started and
there is neither a record nor such a handler) and the participants of the record.

Abstractions. The offer, answer, ICE and toggle relays change no state and are left
out, as are profiles, push payloads, durations, `joinedAt`/`leftAt` and the
conversation a call belongs to. A `call:answer` awaits `joinCall`, which changes
nothing that is modelled. A client, which is a socket or a user of REST, does not repeat a
request about a call before the previous one is acknowledged (`Outstanding`); requests of different
clients about one call overlap freely. Identifiers are never reused, as socket ids,
ObjectIds and the generated call ids are not.

### Huddle

State. `status`, `initiator` and `participants` are the documents; a participant is a
user with or without `leftAt`, and the array keeps one entry per join. `request` is
what the handler of each device waits for (a user may have several devices, and a
device sends one request at a time). `endMessages` counts the announcements of the
end in the chat. `failures` and `adrift` are history: how many requests died half
way, and which huddles were emptied in a way after which no leave ends them (by
force-leave, which marks entries and does not look whether anybody remains, or by a
leave that died).

Steps. `createHuddle` checks (`CreateHuddle`), then saves (`CreateSave`).
`joinHuddle` checks (`JoinHuddle`), reads the huddle (`JoinRead`), then pushes the
participant (`AddParticipant`). `leaveHuddle` updates and looks at what the update
returned (`LeaveHuddle`), then ends the huddle (`EndEmptied`) and announces it
(`CreateEndMessage`). Force-leave is two `updateMany`, each of which visits the
documents one at a time in any order (`ForceEnd`, `ForceMark`). MongoDB's rules for
arrays are modelled by what they do: two conditions on an array may be met by two
elements (`Counts`), and `participants.$` is the first match of the array condition
(`FirstOf`), or, with two array conditions, of either of them (`Positions`).

`HuddleRooms` is what users are promised: a huddle is open while somebody is in it,
the last one out empties it, an emptied huddle is never entered again and can only
be ended. The mapping is `RoomState` and `RoomMembers`: a huddle that is being ended,
or adrift, is already "emptied" and without members, and late joins are stutters.

Left out: names, media flags (`PUT :roomId/participant`), durations, queries, and
the invitation, which is always refused and changes nothing.

### ScheduledMessages

State. `status` of each document, `due` (its time has come), `posted` (how often it
stands in the conversation), `pass` (what each pass of the scheduler in each process
waits for, and the messages it found and has not yet sent), `request` (what each
sender's request waits for), `up` (the running processes). `repeated` is history:
messages that two passes had at once, or that a process had posted when it died
before it recorded the post.

Steps. A pass finds what is pending and due (`StartPass`, at startup and every
minute, whether or not the previous pass is finished), and for each message posts it
(`Post`: `createMessage`, which saves the message and then updates the conversation,
and may fail before or in between) and saves "sent" (`SaveSent`) or "failed"
(`SaveFailed`). `save()` writes the assigned fields only, whatever the document has
become, and fails if it is gone; a save that fails in the catch block rejects the
pass, nothing awaits it, and the process ends (`Die`). Edit, cancellation and deletion
read the message and write later (`CheckedRequest`, `DeleteRequest`, `SaveEdit`,
`SaveCancel`, `Delete`). An edit always has a new time, because the controller passes
`scheduledAt: undefined` otherwise and a document without the required field is not
saved.

`Outbox` is what senders are promised: a message waits, is taken out, posted and settled
in this order, what was sent was posted, what goes back to waiting was not. The one
exception is named: a message in `again` may be posted twice. The mapping is `Stage`: a
message is taken as long as some pass holds it, whatever its status says meanwhile (a
cancellation may be overwritten by "sent"), and what it is afterwards is its status.

Left out: text, attachments and the lists of messages.

### CallRecords

State. `call` is the collection: the status and the array `participants` of each
document. `request` is what the handler of each request has read and is about to
save. `stale` and `hasty` are history: the calls saved by a handler that had read
another state of them, and the callers who initiated twice at once.

Steps. Every handler but one is a read with its checks (`AnswerCall`, `RejectCall`,
`EndCall`, `JoinCall`, `LeaveCall`) and one `Save`; `initiateCall` is its checks
(`InitiateCall`) and the insertion (`Create`). What a save writes is the heart of the
module. Mongoose writes the paths that were assigned a value other than the one read
(`Assigned`), and no others, into whatever the document has become; a path through a
position of the array (`participants.1.status`) is written only if `__v` is still the
one that was read, and otherwise the save fails (`VersionError`); an append is a `$push`,
which checks nothing and increments `__v`. `Answered`, `Rejected`, `Ended`, `Joined`
and `LeftBy` take both documents, the one in the database and the one that was read.

`LeaveCall` has a guard that the code does not state: a leave that finds fewer than two
others sets `endReason` to `'all_left'` (:383), which the schema's enumeration does not
contain, so its save is refused and nothing changes. Such a leave is `RequestFails`
without the request.

An invitation is whatever the client sends as `calleeIds` (`InitiateCallDto` is an interface and
nothing validates it): empty, or naming the caller, who then has two entries, or the same
user twice. The call is a group call if several are named, or if the type that was sent
already says so, which the schema lets it (`group`).

Left out: `active_call` in the cache and the stored signals, whose readers
(`getActiveCall`, `getPendingSignals`) no message reaches; media flags, durations.

### ChatDelivery

State. Per process `entry` (`connectedUsers`: one socket per user) and `joined` (the
room of the conversation, by socket); in the database `status` and `members`. `sock`
is Socket.IO's, `connecting` and `closing` say where `handleConnection` and
`handleDisconnect` wait for each socket, `message` how far the handler of each
message is and what it has read. `strayed` and `astray` are history: sockets that
are out of the room for a reason that the connection has no part in, and users whose
status was last written in the wrong order, or not at all.

Steps. `handleConnection` is `Connect`, `WriteOnline`, `ReadRooms`, `JoinRooms`; it
does not look whether its socket is still open. `Close` removes the user's entry,
whatever socket it names, and `WriteOffline` is the update that follows.
`message:send` is `Send` (the message is created and the participants read), `Emit`
(to the room in the sender's process), `ReadStatus` and `Notify`. Any operation may
fail (`ConnectFails`, `WriteOfflineFails`, `SendFails`), and a process may die
(`Crash`). Only who is in the room and who takes part is kept of
`conversation:join`, `conversation:leave` and of the requests that change
participants.

Left out: typing indicators, which keep nothing; the pushes to people who are
mentioned and not recipients; other writers of `status` (a profile update), which
`StatusSettles` takes for granted are not there.

### Conversations

State. The document of one group: `exists`, `participants` (its array: who, the unread
count, the last message read), `pinned`, `last`. Per message `sender`, the receipts
and the reactions, counted by user. `direct` counts the direct conversations of two
users. `req` is what is left of each request. `sent`, `older` and `counted` are
history.

Steps. A request that reads before it writes is two actions (`AskPin` and `WritePin`,
`AskReceipt` and `WriteReceipt`, ...); sending a message is `Save`, `WriteLast`, `Fetch`
and `WriteCount`. A write is one MongoDB operation and is modelled by what it does to the
document it finds: `$addToSet` with an entry whose `joinedAt` is new always adds
(`WriteAdd`), `$pull` takes all entries of the user, `participants.$` is the first entry
that matches, also when the query names several recipients (`First`). Positions are
numbers that are not reused, because nothing but their order matters. `RequestFails`
ends a request at any await.

Left out: text, `editMessage`, `deleteMessage` and `clear`, which change one
document once; mute and timer settings; `PUT /conversations/:id/read`
(`conversations.controller.ts:241-249`), which calls `markAsRead` without a receipt and so
only does `WriteRead`, the reset of one unread count to 0;
`updateConversation`, whose body is any document; `markAllAsRead`, which no request reaches (section 5).

### MessageStore

State. `doc` is the collection, `cache` the copies in the memory of the process
(`Missing` where there is none); `req` is what is left of each request: the operation that
is next, the messages still to be written (`todo`), those whose copies are still to be
removed (`dirty`), and what was read (`copy`). `retracted`, `reworded`, `crossed` and
`astray` are history: messages deleted for everyone, messages edited since such a deletion
had read them, reactions whose additions overlapped, messages whose copy nobody will
remove.

Steps. A get that finds no copy is `GetMessage`, `Read` and `Fill`. Edit and deletion
read and check (`UpdateMessage`, `DeleteMessage`) and then `Save`, which writes what was
assigned a value other than the one read (`Saved`). `updateMany` visits its documents one
at a time (`Mark`). An addition of a reaction is two operations (`Pull`, `Apply`), a
removal and the pins are one. Whoever wrote goes on to remove the copies, one at a time
(`Forget`). Any operation may fail, or be applied without an answer (`RequestFails`);
the TTL index removes a message behind the back of the cache (`MessageExpires`); the
process may die with its cache (`Crash`).

The module takes the service by the contract of its controller. The HTTP gateway calls
only part of it: it sends `messageId` where the marks read `messageIds`, `messages.edit`
where the service listens to `messages.update`, `deleteType` where it reads
`forEveryone`. Left out: an edit to the empty text or without a text
(`messages-service.handler.ts:244-247`), so that a text is empty only by a retraction; attachments, which go with the text; `deliveredTo`; stars,
disappearing times and `processExpiredMessages`, which no message reaches; the key
`conv_messages`, under which nothing is stored.

## 3. The runs

Deadlock is not checked in any run: clients may simply be done.

| Run | Instance | Shows |
|---|---|---|
| `signaling` | 3 users, 2 sockets, 1 call, 2 handlers, one REST user | routing (`RoutesToOwnOpenSocket`), no answered call is left behind (`ActiveCallAttended`), a caller is rung for his own call only if he named himself (`CallerRingsOnlyIfNamed`), with reconnections and second devices; the REST user names nobody, or everybody and so herself, the others one other user; the history stays right (`NoStuckOngoing`, `AnnouncedIsRecorded`) while REST rewrites, deletes and extends the record, and invites: the second identifier of a call gets its own session; the collection is a `CallHistory` (`ImplementsHistory`) |
| `signaling_live` | 2 users, 2 sockets, 1 call, 2 handlers, who name nobody or the other, `FairSpec` | an active call that everybody left is removed, while two handlers of it race (`AbandonedCallRemoved`) |
| `huddle` | 2 users with one device, 2 huddles, 2 entries, 1 failure | no huddle empties unnoticed (`EmptyIsClosing`), a leave ends it on latecomers only (`ClosesOnlyOnLatecomers`), nobody is held by two (`HeldByOneHuddle`), and the documents implement `HuddleRooms` |
| `huddle_live` | 2 users, 1 huddle, 3 entries, 1 failure, `FairSpec` | a huddle that everybody left is ended, unless it was left adrift (`EmptiedIsEnded`) |
| `scheduled` | 2 messages, 2 processes, 1 pass each, 1 request, 1 fault, `FairSpec` | duplicates have two causes only (`PostedOnce`), what is settled stays so (`SettledForGood`), what is due is settled (`DueIsSettled`), and passes and requests together are an `Outbox` (`ImplementsOutbox`) |
| `call_records` | 3 users, 2 calls, 2 requests at once, 4 requests, invitations of nobody, one or two, the caller among them | whatever saves overlap, a settled call rings no callee (`SettledRingsNobody`), comes back only by an answer given while it rang (`SettledForGood`), an end misses only whom it could not see (`EndTakesEverybody`), and a second entry takes joins that cross (`JoinedOnce`); without overlapping saves a live call has somebody in it and a ringing one somebody to wait for, unless it was created for nobody (`LiveHasSomebody`), and nobody has two calls (`OneCallInitiated`) |
| `chat` | 2 users, 3 sockets, 1 process, 1 message, 2 events | the map names open sockets (`EntryIsOpen`), a wrong status has one of four named causes (`StatusSettles`), who is connected is in the room (`SettledInRoom`), and a message passes by nobody but a socket that was just connecting (`NobodyMissed`) |
| `conversations` | 3 users, a group of 2, 3 messages, 2 requests at once, 4 requests, 1 pin | what is checked before it is written passes its bound by no more than the requests at once (`PinnedBound`, `OnceEach`), the last message was not over before another one began (`LastNotOvertaken`), unread counts are of messages of others (`UnreadOfOthers`) |
| `messages` | 2 users, 2 messages, 2 requests at once, 4 requests, 1 fault | a copy in the cache is the message unless its removal is still to come or was missed (`CacheFresh`), two reactions of one user need additions that overlap (`OneReactionEach`), a retracted message has a text only if an edit came after the retraction had read it (`RetractedIsEmpty`) |
| `claim_missed` | 2 users, 2 sockets | VIOLATED: a missed call was not answered |
| `claim_huddle_leave` | 1 user, 1 huddle | VIOLATED: who left a huddle is out of it (after joining it twice) |
| `claim_huddle_conflict` | 2 users, 1 huddle | VIOLATED: only huddles a user is in count against the user |

Bounds, and why they are enough.

- `CallSignaling`: the races are between handlers of one call, so one call suffices;
  handlers of different calls share only the routing map and `connectedUsers`. Two
  sockets are a call between two devices, or one user's old and new connection; a third
  user is needed where somebody neither started nor answered the call (an invitation).
  REST writes "ongoing", which is what undoes a recorded outcome. Who names himself or
  nobody is the REST user only, and clients do not let users answer their own calls
  (`AnswersOwn` is FALSE): with both free for everybody the instance is out of TLC's
  reach, and the proofs, which leave both open, stand alone there. `MaxPending` stops new
  requests while that many handlers wait (continuations and disconnections are not
  bounded by it).
- `Huddle`: two users are enough for "the last two leave together" and "one leaves
  while the other joins"; two huddles for "one user, two huddles" and for the order
  of an `updateMany`; three entries (in `huddle_live`) for leaving and coming back.
  `MaxEntries` and `MaxMessages` only stop new joins and leaves.
- `ScheduledMessages`: what two overlapping passes of one process do, two processes
  do too, so one slot each suffices; two messages let a failure of one hit the other;
  one fault is a failed operation or a crash (a message deleted while it is sent ends
  a process without spending it).
- `CallRecords`: a caller and two callees reject, leave and end against each other; who
  joins uninvited is the third user in a group call of two; two calls for who initiates twice. Overlap is of two saves, so
  two workers; four requests are the shortest way to each of the properties' exceptions
  (initiate, leave beside end, join). `MaxEntries` is 4: one entry beside those of all
  users.
- `ChatDelivery`: presence is per user and rooms per socket, so one user with two
  sockets and one with the third, who sends. What crosses processes is only the status
  and the participants, and a second process is a sender without an entry for the
  recipient, which the close of an old socket produces in one process too.
  `MaxEvents` pays for failures, crashes, changes of the participants, and rooms left
  and joined: two of them together.
- `Conversations`: two requests at once are enough to pass a check together. The last
  message needs three (one over before another began, while a third is under way);
  a limit of 1 lets a pin and its rival pass it; the third user is added to the group
  and removed.
- `MessageStore`: what goes wrong is between two requests about one message; the second
  message is for an update of several and for forwarding. A get that is overtaken needs a
  sent message, a get and one write (3 requests), an edit around a deletion one more. One
  fault is a failed operation, an expired message or a crash; two of them are never needed
  together, because each alone is an exception of `CacheFresh`.

The theorems of section 4 remove the bounds for the safety properties.

Fairness. All three `FairSpec`s assume that a handler that waits goes on: every await
settles, because MongoDB operations have a socket timeout (10 s, `app.module.ts`)
and Mongoose rejects when the server is gone, and Node runs the continuation of a
settled promise. `ScheduledMessages` also assumes that a process which is up starts its
passes (`setInterval`, started by `onModuleInit`) and that one which is down is started
again (`autorestart`; PM2 gives up after ten restarts only if the process keeps dying
at once). Nothing is assumed of clients: they need not answer, hang up, leave or come
back.

## 4. What is proved

The theorems hold for every set of users, sockets, calls, devices, rooms, messages,
processes and overlapping passes, and for every bound, from the assumptions
the modules name (`NoneAssumption`, `BoundAssumption`, `RestAssumption`,
`InitiationAssumption`, `AnswersAssumption`, `InvitationAssumption`, `SocketAssumption`, `EarlyAssumption`, `GroupAssumption`,
`FiniteAssumption`, `LimitAssumption`), which TLC evaluates on every run. Those on requests (`InitiationAssumption`,
`InvitationAssumption`) give their types only: which users a request names is left open.

There are two kinds. Most are `Spec => []Inv`, `Spec => [][A]_vars` or a refinement, and
hold under every interleaving the module allows. Their exceptions ("unless repeated",
"not in `stale`") are what the code leaves open. The others (`SerialEndsAgree`,
`LeavesAreEnough`, `OnlyEntriesEnd`, `SerialPassesPostOnce`, `SerialRequestsKeepOrder`,
`SerialPresenceIsTrue`, `ApartKeepsLimits`, `SerialRequestsKeepCopies`) are
`Spec /\ []Discipline => []Exact`: they name the discipline the code takes for granted and
nobody enforces, and show that under it the exceptions vanish, whatever else
interleaves. A discipline is about the requests that can harm each other, and leaves all
others free. Together with a run that violates the claim, or an invariant
with its exception, they say where the line is.

### CallSignaling_proof

- `TypeCorrect`: `Spec => []TypeOK`;
- `RoutesCorrect`: `Spec => []RoutesToOwnOpenSocket`;
- `Invariance`: `Spec => []Inv`, the inductive invariant;
- `ActiveCallsAttended`, `NoneStuckOngoing`, `OutcomesRecorded` and
  `CallersRingIfNamed` (`CallerRingsOnlyIfNamed`): the other four safety properties of the
  passing runs;
- `GatewayImplementsHistory`: the refinement of `CallHistory`;
- `SerialEndsAgree`: `Spec /\ []OneEnds /\ [][AnswersWait]_vars => [](OutcomesAgree /\ MissedMeansUnanswered)`.

None of the four safety properties is inductive. `Inv` adds what their arguments need:

- `TaskShape`, `InitiateOwned`: where each kind of handler waits and under which of
  the two identifiers; a call has one `call:initiate`, its caller's.
- `UnsetIsUnknown`, `UnsavedHasNoRecord`: before the session is set nobody has been
  told the identifier, so nobody answers, rejects or ends the call; before the
  record is saved nobody updates it. Both follow from the identifiers being
  generated in `call:initiate`.
- `SessionShape`: whoever knows a ringing call is one of its participants (hence an
  answerer is one, hence `ActiveCallAttended` survives an answer).
- `OutcomeRecorded`: a closing handler that is about to remove the entry has
  written the outcome, found it written, or failed to. It is why removing the entry
  never leaves a record at "ongoing".
- `OngoingAttended`: the stronger form of `NoStuckOngoing` that a step preserves;
  `CallerKept`: the caller is in the record, and no replay and no invitation that waits
  is about to ring the caller, which is what `CallerRingsOnlyIfNamed` rests on.

The proof of a step is organised by variable: a frame lemma says which actions
change it (`SessionsFrame`, `RecordsFrame`, `KnownFrame`, ...), `Origins` says where
each waiting handler comes from, and a `...Before` lemma says what held before,
given what holds after. TLC checked every part of `Inv` on the instances of
section 3 before it was proved.

The refinement (`HistoryInv`) adds to `Inv` that a PUT which waits writes a status that
REST may write (`PutsAllowed`). That a record has somebody in it is its caller's own
entry, whomever the request named. That a deleted record
stays away rests on the saves being updates of what is there, and on the insertion
happening once, in the one `call:initiate` of the call.

The last theorem is the claim that `claim_missed` refutes, under the conditions that make
the comment right: one handler at a time records how a call ends, nobody answers it
meanwhile, and no REST client writes its status. Then a call has one outcome, and the
conversation and the history name the same. Its invariant (`EndsOK`) follows the one
handler that ends a call: what it decided still holds (`EndersKnow`), before it wrote nothing
was recorded or announced (`UnendedIsFresh`), and afterwards the record and the message are its
own (`OneOutcome`). TLC checked it on the instance of `signaling`, restricted by the
same conditions.

### Huddle_proof

- `TypeCorrect`, `EmptiedAreClosing`, `LeavesSpareThePresent` and `OneHuddlePerUser`:
  `TypeOK`, `EmptyIsClosing`, `ClosesOnlyOnLatecomers` and `HeldByOneHuddle` are
  invariants;
- `HuddlesImplementRooms`: `Spec => Abstract!Spec`, the refinement of `HuddleRooms`;
- `HuddlesEndForGood` (`EndForGood`), about the documents themselves: an ended huddle stays
  ended, no join passes its checks from then on, and its array grows only by the joins that had
  passed them before, one entry each;
- `AnnouncementsAreTrue`: the chat never announces the end of a huddle that goes on;
- `LeavesAreEnough`: without failures and force-leaves, `EmptyIsClosing` holds without its
  exception `adrift`;
- `OnlyEntriesEnd`: `Spec /\ []OneEntry => LeaverIsOut`, the claim that `claim_huddle_leave` refutes:
  "mark as left" is right until somebody joins twice.

`EmptyIsClosing` and `ClosesOnlyOnLatecomers` are inductive with the types: a leave
decides on the very document its update returned, entries are never taken out, and
marks stay. `HeldByOneHuddle` is not. `Held` adds that whoever is about to save a new
huddle is held by none (`CreatorsAreFree`) and whoever is about to be pushed into a
huddle by no other (`JoinersAreFree`); with one device per user, only the user's own
handler can falsify either, although the check is a query over documents that
everybody changes. The refinement needs that an open huddle has somebody in it, which is
`EmptyIsClosing` again, and that only huddles that exist are adrift (`RefInv`). Every step is first reduced
to what it does to any one huddle (`StepEffects`: created, joined, marked, ended or
unchanged), and the invariants are proved from that.

### ScheduledMessages_proof

- `TypeCorrect`, `PostedOnceUnlessRepeated` (`PostedOnce`), `SentStands`
  (`SentIsPosted`);
- `SettledStays`: the action property `SettledForGood`;
- `SchedulerImplementsOutbox`: the refinement of `Outbox`;
- `SerialPassesPostOnce`: `Spec /\ []Undisturbed => []RecordsAreTrue`.

`PostedOnce` is proved from three facts about a message that is not in `repeated`: at
most one pass has it (`Alone`), a pass that has yet to post it finds it unposted
(`Unposted`), and a message that was posted is either with a pass that is about to record
it or no longer pending (`Recorded`). It is the argument the code relies on without
saying so: the status takes the place of a claim only as long as passes do not overlap
and processes do not die in the middle. `SerialPassesPostOnce` states just that: if no
process is down and one pass runs at a time, `repeated` stays empty, and edits,
cancellations, deletions and failed operations never make a message stand twice or its
record untrue.

### CallRecords_proof

- `TypeCorrect`, `SettledIsQuiet` (`SettledRingsNobody`), `SettledStays`
  (`SettledForGood`), `EndsTakeEverybody` (`EndTakesEverybody`);
- `EntriesAreSingle` (`JoinedOnce`), `LiveCallsHaveSomebody` (`LiveHasSomebody`) and
  `CallersHaveOneCall` (`OneCallInitiated`);
- `SerialRequestsKeepOrder`: `Spec /\ []Serial => []KeptInOrder /\ SettledStay /\ EntriesStay`.

The first group, and `EntriesAreSingle`, hold whatever saves overlap, and follow from how documents grow
(`Grown`): entries are only added, keep their user, and none begins to ring. So a
document that was read is always an earlier state of the one in the database
(`Reading`): what has stopped ringing in it has stopped ringing in every later one, and
a save that settles the call finds no entry ringing that it does not stop, but a second
entry of the initiator, whom a rejection does not count (`Quiet`). The version check has its part there: it refuses the positions of a
shorter array. The others hold of the calls not in `stale`, where each save
found what it had read; `Orderly` collects what is then preserved (`Occupied`,
`Awaited`, `Present`), and `Callers` adds for `OneCallInitiated` that whoever
is about to insert a call was in no live one that the caller did not also initiate at
the same time. The last theorem draws the conclusion: if requests about one call and
initiations of one caller never overlap (`Serial`, which a single user of each call and
a client that waits for its answers would give, and which the service does not enforce), `stale` and `hasty`
stay empty, what is about to be saved was read from the present document (`Fresh`), and
everything the exceptions are made for holds without them: a settled call never comes back,
and nobody is given a second entry.

### ChatDelivery_proof

- `Types`, `Entries`, `Rooms`, `Statuses` and `Deliveries`: the four invariants of the
  run and the action property `NobodyMissed`;
- `SerialPresenceIsTrue`: `Spec /\ []OneAtATime /\ [][NoLoss]_vars => []PresenceIsTrue`.

`EntryIsOpen` is inductive with the types, because `Close` erases more than it
should. `SettledInRoom` needs what holds while the connection is under way: a socket
that read no membership has a user who is none, or strayed (`SkippedStrayed`).
`StatusSettles` needs both halves while a write is pending: with the user not
`astray`, a user shown offline has no socket that has passed its `WriteOnline`, and one
shown online has a socket that is open or a close under way (`OfflinePending`,
`OnlinePending`). `NobodyMissed` follows from `EntryIsOpen` in the state before the
decision: an entry that suppresses the push names an open socket of the recipient, which
heard the message unless it came after the broadcast. `SerialPresenceIsTrue` says when
the map is what its readers take it for: if a user's sockets follow one another, each after
the handlers of the one before are done and none closing before its 'online' is written, and no
'offline' is lost to a failure or a crash, then the map names every open socket and every settled status
is right.

### Conversations_proof

- `TypeCorrect`, `Pins`, `Once`, `Lasts` and `Unreads`: the five invariants of the run;
- `ApartKeepsLimits`: `Spec /\ []Apart => []Exact`.

The three bounds are the same argument: what is written plus what is about to be
written stays within the bound (`PinRoom`, `OnceRoom`, `DirectRoom`), as a worker takes
a request only while what is written is below the limit, and there are no more requests
about to write than workers. `LastNotOvertaken` needs that a message whose sending is
under way has one worker and is not in `sent` (`OnItsWay`), and that what was sent before
a message was saved is a set that `last` has left behind. `UnreadOfOthers` needs that a
message that is about to be counted is not among the counted (`Uncounted`) and that its
recipients exclude its sender, although the entry that is counted up may have been
added after the fetch. `ApartKeepsLimits` needs beside the bounds that what a request saw
when it was checked still holds when it writes (`StillSo`), which only another request of the
same kind about the same thing could change: the limit on pins, the single receipt, reaction and
direct conversation need no more than that those do not overlap.

### MessageStore_proof

- `TypeCorrect`, `CopiesFresh` (`CacheFresh`), `ReactionsAreSingle` (`OneReactionEach`) and
  `RetractedAreEmpty` (`RetractedIsEmpty`): the four invariants of the run;
- `Progress`: overlapping edits, deletions, marks and reactions never take back what another
  has recorded (`MessagesProgress`: deletions, readers and the status only grow);
- `StatusAgrees`: the status is "read" exactly if somebody beside the sender has a receipt;
- `SerialRequestsKeepCopies`: `Spec /\ []Serial => []CopiesAreTrue`.

All of them rest on `Born`: a message that is not there was never read, copied or deleted,
or has expired. `CacheFresh` needs the same of the copies on their way to the cache
(`FillsFresh`): one that was not overtaken by a removal is the message as it is, or the
message is about to be removed from the cache. `OneReactionEach` needs that between the two
operations of an addition the user has no reaction and no other addition (`PushesAlone`).
`RetractedIsEmpty` needs that a deletion which will not write the text, because it has
read an empty one, finds it empty or edited (`RetractsEmpty`). Frame lemmas
(`NewReaders`, `SameFills`, `NewPushes`, `KeepRetracts`) say for each kind of request
where those under way come from, so that a step is looked at for what it does to one
message. `Progress` and `StatusAgrees` need nothing about the requests but what a step may make
of one document (`Becomes`, by its operators `Saved`, `Marked` and `Applied`): each
update writes single fields into the document that is there, and status and receipt in one. In the
last theorem no two requests are about one message and nothing fails, expires or dies; then
no fill is overtaken and no addition crosses another (`NoneExempt`), and a copy
differs from its message only while the writer has yet to remove it.

Only model-checked: the liveness properties `AbandonedCallRemoved`, `EmptiedIsEnded`
and `DueIsSettled` (the prover has no support for ENABLED and fairness), and the
violated claims, of which `SerialEndsAgree` and `OnlyEntriesEnd` prove two under the conditions that
rule the violation out. `CountsOnlyPresent` needs the leaving itself ruled out, which
would say nothing.

## 5. Where code and words disagree

Checked by a run, in `PROJECT.json` under "findings":

- `gateways/webrtc.gateway.ts:438`: the outcome of a call is decided before an await; a
  call answered during it is recorded as missed while it goes on (`claim_missed`; `SerialEndsAgree`
  shows that an answer, another end or a PUT is what it takes).
- `modules/huddle/repositories/huddle.repository.ts:137`: a user who is in a huddle and
  joins it again has two entries, since the duplicate check never matches
  (`huddle-participant.service.ts:52-58`); leaving marks the first of them "as left" and the
  user remains in (`claim_huddle_leave`; `OnlyEntriesEnd` shows that a second entry is what it
  takes, which coming back after a leave makes too).
- `modules/huddle/services/huddle-creation.service.ts:31`: who has left still counts as
  present while others are in the huddle (`claim_huddle_conflict`).

Modelled as the code has it, and worth knowing when reading the modules:

- Calls. Nothing times a ringing call out (`webrtc.gateway.ts:151` keeps it for the
  pushed recipient). A rejection goes to the call's room, where nobody who is still
  ringing is (:401-402). An invitation carries the MongoDB id, under which the gateway
  has no session (:653-654), so the answer starts one of its own. The replay of
  ringing calls decides before an await and sends after it (:90-101). The close of a
  user's old socket erases the entry of the new one (:123-131). Who names himself in
  `call:initiate` is rung for the own call (:213-233), but not again when reconnecting (:87-88).
- Huddles. Two devices of one user can create two huddles (`huddle-creation.service.ts:26-27`).
  The duplicate check of a join and the check of an invitation compare a populated
  document with an id and never match (`huddle-participant.service.ts:52-58`, :205-211):
  joining twice makes two entries, and every invitation is refused. A join that read
  the huddle active is pushed after its end (:49). A repeated leave ends and announces
  the huddle again (:91). Force-leave has two array conditions and one
  `participants.$`, so it may mark somebody else's entry (`huddle.repository.ts:235-244`).
- Calls microservice. The last but one to leave a call cannot: `endReason` would be
  `'all_left'`, which the schema refuses (`calls-service.handler.ts:383`). A caller who
  names himself keeps an entry that rings when the others have declined, because a rejection
  does not count entries of the initiator (:250-251); a call that names nobody rings until its
  initiator ends or rejects it. A rejection
  is accepted from anybody at any time, and when nobody rings any more it makes an
  active call "declined" (:250-258).
- Messages microservice. `updateMessage` edits a deleted message, and `getMessage` returns
  one; "delete for me" deletes for everybody but keeps the text
  (`messages-service.handler.ts:290`). Only the first recipient's delivery is recorded,
  because the next finds the status no longer `sent` (:346). A message that the TTL index
  removed (`message.schema.ts:147`) is served from the cache for up to five minutes.
- Chat gateway. "Only offline users get message notifications" and "Mentioned user
  receives notification even if online" (`push-notifications.md:207`, `:149`, in the
  documentation): who is online but whose entry the close of an old socket erased is
  pushed, and mentions are pushed only to people who are offline and no recipients.
- Conversations. `PUT /conversations/read-all` (`conversations.controller.ts:273`) is
  shadowed by `@Put(':id')` (:214), so `markAllAsRead` is never reached.
  `incrementUnreadCount` counts the first matching recipient only
  (`conversations.service.ts:204`). `addParticipants` adds who is in already;
  `removeParticipant` leaves admins admins. `editMessage` edits deleted messages.
- Sessions of the auth microservice. `createSession` saves a required `refreshToken` as
  the empty string (`auth-service.handler.ts:131`, :336), which fails validation: no
  login gets a session.
- Polls. The options are of mixed type and changed in place, so a save writes
  `totalVotes` only; `createPoll` fails at its message, whose type `poll` is not in the
  schema; `closePoll` compares a populated document with a string.
- HTTP gateway of the microservices. It names fields otherwise than the services read
  them (`participantId` for `userId`, `fileId` for `mediaId`, `messageId` for
  `messageIds`, an upload without `size`)
  and sends patterns that nobody handles (`conversations.leave`,
  `conversations.direct.get_or_create`, the profile of a user).
- Scheduled messages. A cancellation that was accepted may lose against a pass that
  already has the message, and a message that was sent may end up "cancelled"
  (`scheduled-messages.service.ts:141`, :147, :190). A pass posts what it found, so a
  message that was put off may be posted at the old time. A "failed" message may stand
  in the conversation (:194 after a failure at `messages.service.ts:61`). An edit
  without a new time is refused by the schema (`scheduled-messages.controller.ts:69`).
  Deleting a message while it is being sent ends the process (:193, then :198).

## 6. What is not modelled, and what could follow

Each component of `PROJECT.json` with status `not_modelled` names its reason there. They
are of five kinds.

- Nothing happens. Sessions of the auth microservice and polls do not work as they
  stand (section 5); a model of them has no state to speak of.
- Nothing runs it. No module of the application imports RabbitMQ, the notification
  queue, channels and workspaces; BullMQ is switched off; the scheduler's own tasks only
  log.
- Not reached. Nothing is uploaded through the HTTP gateway of the microservices, which
  sends no `size`, so the media service has nothing to work on.
- One step. CRUD modules, status updates, communities, admin and analytics, and the
  users, conversations and notifications microservices read and write one document per
  request (the microservices with a cache as in `MessageStore`); the `/huddle` gateway changes two maps and a room
  without letting another handler in between. What can go wrong between their read and
  their write is what `Conversations` shows for the same pattern.
- Input and output: files, mail, PDF, CSV, push services, search, metrics.

What could follow, in order:

1. `HuddleGateway`, as a second instance of the presence part of `ChatDelivery`, which
   would then be a module of its own.
2. The composition of `ScheduledMessages` with `Conversations` over one `createMessage`,
   so that "posted" and "last message" are one fact.
3. `CallRecords` with a version check on the status, as a refinement of an abstract call
   that settles once; the theorem `SettledStays` names the single step that stands in the
   way today.
