------------------------ MODULE CallSignaling_proof ------------------------
(***************************************************************************)
(* Theorems about CallSignaling, for any users, sockets and calls.         *)
(*                                                                         *)
(* The invariant Inv is a conjunction of named parts, one lemma each says   *)
(* that a step keeps it.  Three kinds of lemma carry the argument: frames   *)
(* (which steps change a variable at all), Origins (a waiting handler was   *)
(* there, is an older handler gone on, or was just started) and ...Before   *)
(* lemmas (what held before, given what holds after).                       *)
(***************************************************************************)
EXTENDS CallSignalingClaims, TLAPS

-----------------------------------------------------------------------------
(* Names, identifiers, handlers                                             *)

\* The names of operations, points of waiting and statuses.
LEMMA Names ==
    /\ {"initiate", "replay", "reject", "end", "drop", "put", "invite"} \subseteq Ops
    /\ {"save", "set", "caller", "push", "join", "find", "message", "update", "finish", "emit"} \subseteq Pcs
    /\ {"ongoing", "completed", "missed", "rejected", "failed"} \subseteq DbStatus
  BY DEF Ops, Pcs, DbStatus, TerminalStatus

\* A call has two identifiers, and no other call shares them.
LEMMA KeyFacts ==
    /\ \A k \in Keys : k[1] \in Calls
    /\ \A c \in Calls : /\ GwKey(c) \in Keys /\ DbKey(c) \in Keys
                        /\ GwKey(c)[1] = c /\ DbKey(c)[1] = c
    /\ \A c, d \in Calls : GwKey(c) # DbKey(d) /\ (GwKey(c) = GwKey(d) => c = d)
  BY DEF Keys, GwKey, DbKey

\* The fields of a handler have their types.
LEMMA TaskFields ==
    \A t \in Task : /\ t.op \in Ops /\ t.pc \in Pcs /\ t.sock \in Sockets \cup RestUsers
                    /\ t.key \in Keys /\ t.status \in DbStatus /\ t.users \in SUBSET Users
                    /\ t.saves \in BOOLEAN
  BY DEF Task

\* A new handler has the fields it was given.
LEMMA NewTaskFields ==
    \A op \in Ops, pc \in Pcs, s \in Sockets \cup RestUsers, k \in Keys, st \in DbStatus, us \in SUBSET Users :
       LET t == NewTask(op, pc, s, k, st, us)
       IN  /\ t \in Task /\ t.op = op /\ t.pc = pc /\ t.sock = s /\ t.key = k
           /\ t.status = st /\ t.users = us /\ t.saves = FALSE
  BY DEF NewTask, Task

\* u is the handler t further on.
Follows(t, u) ==
    /\ u \in Task
    /\ u.op = t.op /\ u.sock = t.sock /\ u.key = t.key /\ u.status = t.status /\ u.users = t.users

\* Advance replaces a handler by the same one at another point.
LEMMA AdvanceMoves ==
    ASSUME NEW t \in Task, NEW pc \in Pcs, Advance(t, pc)
    PROVE  \E u : Replace(t, u) /\ Follows(t, u) /\ u.pc = pc /\ u.saves = t.saves
<1>1. Replace(t, At(t, pc))
  BY DEF Advance
<1>2. Follows(t, At(t, pc)) /\ At(t, pc).pc = pc /\ At(t, pc).saves = t.saves
  BY DEF Follows, At, Task
<1>3. QED
  BY <1>1, <1>2

\* So does Replace with Settled, which also sets `saves'.
LEMMA SettledMoves ==
    ASSUME NEW t \in Task, NEW pc \in Pcs, NEW b \in BOOLEAN, Replace(t, Settled(t, pc, b))
    PROVE  \E u : Replace(t, u) /\ Follows(t, u) /\ u.pc = pc /\ u.saves = b
<1>1. Follows(t, Settled(t, pc, b)) /\ Settled(t, pc, b).pc = pc /\ Settled(t, pc, b).saves = b
  BY DEF Follows, Settled, Task
<1>2. QED
  BY <1>1

\* What the continuation of a handler does to the set of waiting handlers.
Stepped(t) == Finished(t) \/ \E u : Replace(t, u) /\ Follows(t, u)

\* A handler that is continued, unless the process ends, finishes or goes on.
LEMMA ContinueSteps ==
    ASSUME TypeOK, NEW t \in tasks, Continue(t), ~Crash
    PROVE  Stepped(t)
<1>0. t \in Task
  BY DEF TypeOK
<1>1. ASSUME NEW pc \in Pcs, Advance(t, pc)  PROVE Stepped(t)
  BY <1>0, <1>1, AdvanceMoves DEF Stepped
<1>2. ASSUME NEW pc \in Pcs, NEW b \in BOOLEAN, Replace(t, Settled(t, pc, b))  PROVE Stepped(t)
  BY <1>0, <1>2, SettledMoves DEF Stepped
<1>3. Finished(t) => Stepped(t)
  BY DEF Stepped
<1>4. GiveUp(t) => Stepped(t)
  BY <1>1, <1>3, Names DEF GiveUp
<1>5. CASE ReplayIncoming(t) \/ InitiateFails(t) \/ InitiateJoin(t) \/ FinishReject(t) \/ FinishEnd(t)
             \/ InviteEmit(t) \/ InviteFails(t)
  BY <1>3, <1>5 DEF ReplayIncoming, InitiateFails, InitiateJoin, FinishReject, FinishEnd, InviteEmit, InviteFails
<1>6. CASE InitiateSet(t) \/ InitiateRing(t) \/ InitiatePush(t) \/ UpdateMessage(t)
  BY <1>1, <1>6, Names DEF InitiateSet, InitiateRing, InitiatePush, UpdateMessage
<1>7. CASE InitiateSave(t)
  BY <1>2, <1>7, Names DEF InitiateSave
<1>8. CASE UpdateFind(t)
  BY <1>2, <1>4, <1>8, Names DEF UpdateFind
<1>9. CASE UpdateSave(t) \/ UpdateFails(t)
  BY <1>4, <1>9 DEF UpdateSave, UpdateFails
<1>10. CASE InviteSave(t)
  BY <1>1, <1>3, <1>10, Names DEF InviteSave
<1>11. QED
  BY <1>5, <1>6, <1>7, <1>8, <1>9, <1>10 DEF Continue, ReplayFails

-----------------------------------------------------------------------------
\* A socket that is open, or that a handler serves, belongs to a user.
SocketOwned ==
    /\ \A s \in open : sockUser[s] # None
    /\ \A t \in tasks : t.op \notin {"put", "invite"} => t.sock \in Sockets /\ sockUser[t.sock] # None
Typed == TypeOK /\ SocketOwned

\* The steps after which the set of waiting handlers differs.
LEMMA TasksFrame ==
    ASSUME TypeOK, [Next]_vars
    PROVE  \/ UNCHANGED <<tasks, sockUser>> /\ open' \subseteq open
           \/ \E t \in tasks : Continue(t) /\ Stepped(t) /\ UNCHANGED <<open, sockUser>>
           \/ Crash
           \/ \E s \in Sockets, u \in Users : HandleConnection(s, u)
           \/ \E s \in Sockets : HandleDisconnect(s)
           \/ \E s \in Sockets, c \in Calls, us \in SUBSET Users : HandleCallInitiate(s, c, us)
           \/ \E s \in Sockets, k \in Keys : HandleCallReject(s, k) \/ HandleCallEnd(s, k)
           \/ \E u \in RestUsers, c \in Calls, st \in RestStatuses : PutCall(u, c, st)
           \/ \E u \in RestUsers, c \in Calls, us \in SUBSET Users : Invite(u, c, us)
<1>1. ASSUME NEW t \in tasks, Continue(t), ~Crash
      PROVE  Continue(t) /\ Stepped(t) /\ UNCHANGED <<open, sockUser>>
  <2>1. Stepped(t)
    BY <1>1, ContinueSteps
  <2>2. UNCHANGED <<open, sockUser>>
    BY <1>1 DEF Continue, ReplayFails, clientVars, gatewayVars, historyVars, ReplayIncoming,
       InitiateSave, InitiateSet, InitiateRing, InitiateFails, InitiatePush, InitiateJoin,
       UpdateFind, UpdateMessage, UpdateSave, UpdateFails, FinishReject, FinishEnd,
       InviteSave, InviteEmit, InviteFails
  <2>3. QED
    BY <1>1, <2>1, <2>2
<1>2. ASSUME NEW s \in Sockets, NEW k \in Keys, HandleCallAnswer(s, k)
      PROVE  UNCHANGED <<tasks, sockUser, open>>
  BY <1>2 DEF HandleCallAnswer
<1>3. ASSUME NEW u \in RestUsers, NEW c \in Calls, NEW us \in SUBSET Users, RestCreate(u, c, us)
      PROVE  UNCHANGED <<tasks, sockUser, open>>
  BY <1>3 DEF RestCreate, clientVars
<1>4. ASSUME NEW u \in RestUsers, DeleteHistory(u)
      PROVE  UNCHANGED <<tasks, sockUser, open>>
  BY <1>4 DEF DeleteHistory, clientVars
<1>5. CASE UNCHANGED vars
  BY <1>5 DEF vars
<1>6. QED
  BY <1>1, <1>2, <1>3, <1>4, <1>5 DEF Next, Connection, Client, Rest, Restart

\* A step keeps the handlers well typed and their sockets owned.
LEMMA TasksTyped ==
    ASSUME Typed, [Next]_vars
    PROVE  tasks' \subseteq Task /\ SocketOwned'
<1>0. /\ tasks \subseteq Task /\ open \subseteq Sockets /\ sockUser \in [Sockets -> Users \cup {None}]
      /\ activeCalls \in [Keys -> Session \cup {NoSession}] /\ record \in [Calls -> Record \cup {NoRecord}]
  BY DEF Typed, TypeOK
<1>1. CASE UNCHANGED <<tasks, sockUser>> /\ open' \subseteq open
  BY <1>0, <1>1 DEF Typed, SocketOwned
<1>2. ASSUME NEW t \in tasks, Stepped(t), UNCHANGED <<open, sockUser>>
      PROVE  tasks' \subseteq Task /\ SocketOwned'
  BY <1>0, <1>2 DEF Typed, SocketOwned, Stepped, Finished, Replace, Follows
<1>3. CASE Crash
  BY <1>3 DEF Crash, SocketOwned
<1>4. ASSUME NEW s \in Sockets, NEW u \in Users, HandleConnection(s, u)
      PROVE  tasks' \subseteq Task /\ SocketOwned'
  <2>1. \A k \in PendingFor(u) : LET t == NewTask("replay", "caller", s, k, "ongoing", {})
                                 IN  t \in Task /\ t.sock = s
    BY NewTaskFields, Names DEF PendingFor
  <2>2. \A r \in Sockets : sockUser[r] # None \/ r = s => sockUser'[r] # None
    BY <1>0, <1>4, NoneAssumption DEF HandleConnection
  <2>3. QED
    BY <1>0, <1>4, <2>1, <2>2 DEF HandleConnection, Typed, SocketOwned
<1>5. ASSUME NEW s \in Sockets, HandleDisconnect(s)
      PROVE  tasks' \subseteq Task /\ SocketOwned'
  <2>1. \A k \in Abandoned(s) :
           /\ NewTask("drop", "find", s, k, "completed", activeCalls[k].participants) \in Task
           /\ NewTask("drop", "find", s, k, "completed", activeCalls[k].participants).sock = s
    <3>1. \A k \in Abandoned(s) : k \in Keys /\ activeCalls[k].participants \in SUBSET Users
      BY <1>0 DEF Abandoned, Session, NoSession
    <3>2. QED
      BY <3>1, NewTaskFields, Names
  <2>2. s \in open /\ sockUser[s] # None /\ UNCHANGED sockUser /\ open' \subseteq open
    BY <1>5 DEF HandleDisconnect, Typed, SocketOwned
  <2>3. tasks' = tasks \cup {NewTask("drop", "find", s, k, "completed", activeCalls[k].participants) :
                               k \in {j \in Abandoned(s) : activeCalls[j].saved}}
    BY <1>5 DEF HandleDisconnect
  <2>4. \A t \in tasks' : t \in tasks \/ (t \in Task /\ t.sock = s)
    BY <2>1, <2>3
  <2>5. QED
    BY <1>0, <2>2, <2>4 DEF Typed, SocketOwned
<1>6. ASSUME NEW s \in Sockets, NEW t \in Task, s \in open, t.sock = s, tasks' = tasks \cup {t},
             UNCHANGED <<open, sockUser>>
      PROVE  tasks' \subseteq Task /\ SocketOwned'
  BY <1>0, <1>6 DEF Typed, SocketOwned
<1>7. ASSUME NEW s \in Sockets, NEW c \in Calls, NEW us \in SUBSET Users, HandleCallInitiate(s, c, us)
      PROVE  tasks' \subseteq Task /\ SocketOwned'
  BY <1>6, <1>7, NewTaskFields, Names, KeyFacts DEF HandleCallInitiate, clientVars
<1>8. ASSUME NEW s \in Sockets, NEW k \in Keys, HandleCallReject(s, k)
      PROVE  tasks' \subseteq Task /\ SocketOwned'
  <2>1. NewTask("reject", "find", s, k, "rejected", {}) \in Task
        /\ NewTask("reject", "find", s, k, "rejected", {}).sock = s
    BY NewTaskFields, Names
  <2>2. CASE UNCHANGED tasks
    BY <1>0, <1>8, <2>2 DEF HandleCallReject, Typed, SocketOwned
  <2>3. QED
    BY <1>6, <1>8, <2>1, <2>2 DEF HandleCallReject, Offered
<1>9. ASSUME NEW s \in Sockets, NEW k \in Keys, HandleCallEnd(s, k)
      PROVE  tasks' \subseteq Task /\ SocketOwned'
  <2>1. NewTask("end", "find", s, k, Outcome(k), activeCalls[k].participants) \in Task
        /\ NewTask("end", "find", s, k, Outcome(k), activeCalls[k].participants).sock = s
    <3>1. Outcome(k) \in DbStatus /\ activeCalls[k].participants \in SUBSET Users
      BY <1>0, Names DEF Outcome, Session, NoSession
    <3>2. QED
      BY <3>1, NewTaskFields, Names
  <2>2. CASE UNCHANGED tasks
    BY <1>0, <1>9, <2>2 DEF HandleCallEnd, Typed, SocketOwned
  <2>3. QED
    BY <1>6, <1>9, <2>1, <2>2 DEF HandleCallEnd
<1>10. ASSUME NEW u \in RestUsers, NEW c \in Calls, NEW st \in RestStatuses, PutCall(u, c, st)
      PROVE  tasks' \subseteq Task /\ SocketOwned'
  <2>1. st \in DbStatus /\ "put" \in Ops /\ "find" \in Pcs /\ DbKey(c) \in Keys
    BY RestAssumption, Names, KeyFacts
  <2>2. NewTask("put", "find", u, DbKey(c), st, {}) \in Task
        /\ NewTask("put", "find", u, DbKey(c), st, {}).op = "put"
    BY <2>1, NewTaskFields
  <2>3. QED
    BY <1>0, <1>10, <2>2 DEF PutCall, clientVars, Typed, SocketOwned
<1>11. ASSUME NEW u \in RestUsers, NEW c \in Calls, NEW us \in SUBSET Users, Invite(u, c, us)
      PROVE  tasks' \subseteq Task /\ SocketOwned'
  <2>1. LET t == NewTask("invite", "update", u, DbKey(c), "ongoing", us \ record[c].participants)
        IN  t \in Task /\ t.op = "invite"
    BY NewTaskFields, Names, KeyFacts
  <2>2. QED
    BY <1>0, <1>11, <2>1 DEF Invite, clientVars, Typed, SocketOwned
<1>12. QED
  BY <1>1, <1>2, <1>3, <1>4, <1>5, <1>7, <1>8, <1>9, <1>10, <1>11, TasksFrame DEF Typed

\* The variables that hold no sessions, records or handlers.
OthersOK ==
    /\ sockUser \in [Sockets -> Users \cup {None}]
    /\ open \subseteq Sockets
    /\ connectedUsers \in [Users -> Sockets \cup {None}]
    /\ rooms \in [Keys -> SUBSET Sockets]
    /\ caller \in [Calls -> Users \cup {None}]
    /\ messages \in [Calls -> SUBSET DbStatus]
    /\ known \in [Keys -> SUBSET Users]
    /\ ringing \subseteq Sockets \X Keys
    /\ lost \subseteq Calls

\* A step keeps their types.
LEMMA OthersTyped ==
    ASSUME Typed, [Next]_vars
    PROVE  OthersOK'
<1>0. /\ OthersOK
      /\ tasks \subseteq Task
      /\ activeCalls \in [Keys -> Session \cup {NoSession}]
  BY DEF Typed, TypeOK, OthersOK
<1>1. OthersOK'
  <2>t. ASSUME NEW t \in tasks
        PROVE  /\ t \in Task /\ t.key \in Keys /\ t.key[1] \in Calls /\ t.users \in SUBSET Users
               /\ t.status \in DbStatus
               /\ t.op \notin {"put", "invite"} => t.sock \in Sockets /\ sockUser[t.sock] \in Users
    <3>1. t \in Task
      BY <1>0
    <3>2. QED
      BY <1>0, <3>1, TaskFields, KeyFacts DEF Typed, SocketOwned, OthersOK
  <2>s. \A s \in open : sockUser[s] \in Users
    BY <1>0 DEF Typed, SocketOwned, OthersOK
  <2> USE <1>0, NoneAssumption, RestAssumption DEF OthersOK
  <2>1. ASSUME NEW s \in Sockets, NEW u \in Users, HandleConnection(s, u)
        PROVE  OthersOK'
    BY <2>1 DEF HandleConnection, historyVars
  <2>2. ASSUME NEW s \in Sockets, HandleDisconnect(s)
        PROVE  OthersOK'
    BY <2>2, <2>s DEF HandleDisconnect, historyVars
  <2>3. ASSUME NEW s \in Sockets, NEW c \in Calls, NEW us \in SUBSET Users, HandleCallInitiate(s, c, us)
        PROVE  OthersOK'
    BY <2>3, <2>s DEF HandleCallInitiate, clientVars, gatewayVars
  <2>4. ASSUME NEW s \in Sockets, NEW k \in Keys, HandleCallAnswer(s, k)
        PROVE  OthersOK'
    BY <2>4, KeyFacts DEF HandleCallAnswer, historyVars
  <2>5. ASSUME NEW s \in Sockets, NEW k \in Keys, HandleCallReject(s, k)
        PROVE  OthersOK'
    BY <2>5 DEF HandleCallReject, historyVars, RejectSession
  <2>6. ASSUME NEW s \in Sockets, NEW k \in Keys, HandleCallEnd(s, k)
        PROVE  OthersOK'
    BY <2>6 DEF HandleCallEnd, historyVars, EndSession
  <2>7. ASSUME NEW u \in RestUsers, NEW c \in Calls, NEW us \in SUBSET Users, RestCreate(u, c, us)
        PROVE  OthersOK'
    BY <2>7 DEF RestCreate, clientVars, gatewayVars
  <2>8. ASSUME NEW u \in RestUsers, NEW c \in Calls, NEW st \in RestStatuses, PutCall(u, c, st)
        PROVE  OthersOK'
    BY <2>8 DEF PutCall, clientVars, gatewayVars, historyVars
  <2>9. ASSUME NEW u \in RestUsers, DeleteHistory(u)
        PROVE  OthersOK'
    BY <2>9 DEF DeleteHistory, clientVars, gatewayVars
  <2>10. ASSUME NEW u \in RestUsers, NEW c \in Calls, NEW us \in SUBSET Users, Invite(u, c, us)
        PROVE  OthersOK'
    BY <2>10 DEF Invite, clientVars, gatewayVars, historyVars
  <2>11. ASSUME NEW t \in tasks, ReplayIncoming(t)
        PROVE  OthersOK'
    BY <2>11, <2>t DEF ReplayIncoming, gatewayVars, historyVars
  <2>12. ASSUME Crash
        PROVE  OthersOK'
    BY <2>12 DEF Crash
  <2>13. ASSUME NEW t \in tasks, InitiateSave(t)
        PROVE  OthersOK'
    BY <2>13, <2>t DEF InitiateSave, clientVars, gatewayVars
  <2>14. ASSUME NEW t \in tasks, InitiateSet(t)
        PROVE  OthersOK'
    BY <2>14, <2>t DEF InitiateSet, clientVars, historyVars
  <2>15. ASSUME NEW t \in tasks, InitiateRing(t)
        PROVE  OthersOK'
    BY <2>15, <2>t DEF InitiateRing, gatewayVars, historyVars
  <2>16. ASSUME NEW t \in tasks, InitiateFails(t)
        PROVE  OthersOK'
    BY <2>16, <2>t DEF InitiateFails, clientVars, gatewayVars, historyVars
  <2>17. ASSUME NEW t \in tasks, InitiatePush(t)
        PROVE  OthersOK'
    BY <2>17, <2>t DEF InitiatePush, gatewayVars, historyVars
  <2>18. ASSUME NEW t \in tasks, InitiateJoin(t)
        PROVE  OthersOK'
    BY <2>18, <2>t DEF InitiateJoin, historyVars
  <2>19. ASSUME NEW t \in tasks, UpdateFind(t)
        PROVE  OthersOK'
    BY <2>19, <2>t DEF UpdateFind, clientVars, gatewayVars, historyVars, Updating
  <2>20. ASSUME NEW t \in tasks, UpdateMessage(t)
        PROVE  OthersOK'
    BY <2>20, <2>t DEF UpdateMessage, clientVars, gatewayVars, Updating
  <2>21. ASSUME NEW t \in tasks, UpdateSave(t)
        PROVE  OthersOK'
    BY <2>21, <2>t DEF UpdateSave, clientVars, gatewayVars, Updating
  <2>22. ASSUME NEW t \in tasks, UpdateFails(t)
        PROVE  OthersOK'
    BY <2>22, <2>t DEF UpdateFails, clientVars, gatewayVars, Updating
  <2>23. ASSUME NEW t \in tasks, FinishReject(t)
        PROVE  OthersOK'
    BY <2>23, <2>t DEF FinishReject, historyVars, RejectSession
  <2>24. ASSUME NEW t \in tasks, FinishEnd(t)
        PROVE  OthersOK'
    BY <2>24, <2>t DEF FinishEnd, historyVars, EndSession
  <2>25. ASSUME NEW t \in tasks, InviteSave(t)
        PROVE  OthersOK'
    BY <2>25, <2>t DEF InviteSave, clientVars, gatewayVars
  <2>26. ASSUME NEW t \in tasks, InviteEmit(t)
        PROVE  OthersOK'
    BY <2>26, <2>t DEF InviteEmit, historyVars
  <2>27. ASSUME NEW t \in tasks, InviteFails(t)
        PROVE  OthersOK'
    BY <2>27, <2>t DEF InviteFails, clientVars, gatewayVars, historyVars
  <2>28. CASE UNCHANGED vars
    BY <2>28 DEF vars
  <2>q. QED
    BY <2>1, <2>2, <2>3, <2>4, <2>5, <2>6, <2>7, <2>8, <2>9, <2>10, <2>11, <2>12, <2>13, <2>14, <2>15, <2>16, <2>17, <2>18, <2>19, <2>20, <2>21, <2>22, <2>23, <2>24, <2>25, <2>26, <2>27, <2>28 DEF Next, Connection, Client, Rest, Continue, ReplayFails, Restart
<1>2. QED
  BY <1>1

\* The steps after which a session differs.
LEMMA SessionsFrame ==
    ASSUME [Next]_vars
    PROVE  \/ UNCHANGED activeCalls
           \/ Crash
           \/ \E s \in Sockets : HandleDisconnect(s)
           \/ \E s \in Sockets, k \in Keys :
                HandleCallAnswer(s, k) \/ HandleCallReject(s, k) \/ HandleCallEnd(s, k)
           \/ \E t \in tasks : InitiateSet(t) \/ FinishReject(t) \/ FinishEnd(t) \/ InviteEmit(t)
<1>1. ASSUME NEW t \in tasks, Continue(t)
      PROVE  UNCHANGED activeCalls \/ Crash \/ InitiateSet(t) \/ FinishReject(t) \/ FinishEnd(t) \/ InviteEmit(t)
  BY <1>1 DEF Continue, ReplayFails, gatewayVars, ReplayIncoming, InitiateSave, InitiateRing,
     InitiateFails, InitiatePush, InitiateJoin, UpdateFind, UpdateMessage, UpdateSave, UpdateFails,
     InviteSave, InviteFails
<1>2. ASSUME NEW s \in Sockets, NEW u \in Users, HandleConnection(s, u)  PROVE UNCHANGED activeCalls
  BY <1>2 DEF HandleConnection
<1>3. ASSUME NEW s \in Sockets, NEW c \in Calls, NEW us \in SUBSET Users, HandleCallInitiate(s, c, us)
      PROVE  UNCHANGED activeCalls
  BY <1>3 DEF HandleCallInitiate, gatewayVars
<1>4. CASE Rest
  BY <1>4 DEF Rest, RestCreate, PutCall, DeleteHistory, Invite, gatewayVars
<1>5. CASE UNCHANGED vars
  BY <1>5 DEF vars
<1>6. QED
  BY <1>1, <1>2, <1>3, <1>4, <1>5 DEF Next, Connection, Client, Restart

\* The steps after which a record differs.
LEMMA RecordsFrame ==
    ASSUME [Next]_vars
    PROVE  \/ UNCHANGED record
           \/ \E u \in RestUsers, c \in Calls, us \in SUBSET Users : RestCreate(u, c, us)
           \/ \E u \in RestUsers : DeleteHistory(u)
           \/ \E t \in tasks : InitiateSave(t) \/ UpdateSave(t) \/ InviteSave(t)
<1>1. ASSUME NEW t \in tasks, Continue(t)
      PROVE  UNCHANGED record \/ InitiateSave(t) \/ UpdateSave(t) \/ InviteSave(t)
  BY <1>1 DEF Continue, ReplayFails, Crash, historyVars, ReplayIncoming, InitiateSet, InitiateRing,
     InitiateFails, InitiatePush, InitiateJoin, UpdateFind, UpdateMessage, UpdateFails,
     FinishReject, FinishEnd, InviteEmit, InviteFails
<1>2. CASE Connection
  BY <1>2 DEF Connection, HandleConnection, HandleDisconnect, historyVars
<1>3. CASE Client
  BY <1>3 DEF Client, HandleCallInitiate, HandleCallAnswer, HandleCallReject, HandleCallEnd, historyVars
<1>4. CASE Rest
  BY <1>4 DEF Rest, PutCall, Invite, historyVars
<1>5. CASE UNCHANGED vars \/ Restart
  BY <1>5 DEF vars, Restart, Crash
<1>6. QED
  BY <1>1, <1>2, <1>3, <1>4, <1>5 DEF Next

\* What sessions contain, and what the two updates of one leave alone.
LEMMA SessionDocs ==
    /\ NoSession \notin Session
    /\ \A u \in Users : /\ MinimalSession(u) \in Session /\ MinimalSession(u).participants = {u}
                        /\ MinimalSession(u).status = "active" /\ ~MinimalSession(u).saved
    /\ \A x \in Session :
         /\ x.participants \in SUBSET Users /\ x.status \in {"ringing", "active"} /\ x.saved \in BOOLEAN
         /\ LET y == WithStatus(x, "active")
            IN  /\ y \in Session /\ y.status = "active" /\ y.initiator = x.initiator
                /\ y.participants = x.participants /\ y.saved = x.saved
         /\ \A us \in SUBSET Users :
              LET y == WithUsers(x, us)
              IN  /\ y \in Session /\ y.status = x.status /\ y.initiator = x.initiator
                  /\ y.participants = x.participants \cup us /\ y.saved = x.saved
    /\ NoSession.participants = {} /\ NoSession.status = "none" /\ ~NoSession.saved
  BY DEF Session, NoSession, MinimalSession, WithStatus, WithUsers

\* What records contain, and what the two updates of one leave alone.
LEMMA RecordDocs ==
    /\ NoRecord \notin Record /\ NoRecord.status = "absent" /\ NoRecord.participants = {}
    /\ \A st \in DbStatus, us \in SUBSET Users : [status |-> st, participants |-> us] \in Record
    /\ \A x \in Record :
         /\ x.status \in DbStatus /\ x.participants \in SUBSET Users
         /\ \A st \in DbStatus :
              LET y == WithStatus(x, st)
              IN  y \in Record /\ y.status = st /\ y.participants = x.participants
         /\ \A us \in SUBSET Users :
              LET y == WithUsers(x, us)
              IN  y \in Record /\ y.status = x.status /\ y.participants = x.participants \cup us
  BY DEF Record, NoRecord, WithStatus, WithUsers, DbStatus, TerminalStatus

\* What is known of a waiting handler and of the document it is about.
LEMMA TaskTyped ==
    ASSUME Typed, NEW t \in tasks
    PROVE  /\ t \in Task /\ t.key \in Keys /\ t.key[1] \in Calls /\ t.users \in SUBSET Users
           /\ t.status \in DbStatus /\ t.saves \in BOOLEAN
           /\ t.op \notin {"put", "invite"} => t.sock \in Sockets /\ sockUser[t.sock] \in Users
<1>1. t \in Task /\ sockUser \in [Sockets -> Users \cup {None}]
  BY DEF Typed, TypeOK
<1>2. QED
  BY <1>1, TaskFields, KeyFacts DEF Typed, SocketOwned

\* A step keeps activeCalls well typed.
LEMMA SessionsTyped ==
    ASSUME Typed, [Next]_vars
    PROVE  activeCalls' \in [Keys -> Session \cup {NoSession}]
<1>0. activeCalls \in [Keys -> Session \cup {NoSession}]
  BY DEF Typed, TypeOK
<1>s. \A s \in Sockets : s \in open => sockUser[s] \in Users
  BY DEF Typed, TypeOK, SocketOwned
<1>1. CASE UNCHANGED activeCalls \/ Crash
  BY <1>0, <1>1 DEF Crash
<1>2. ASSUME NEW s \in Sockets, HandleDisconnect(s)
      PROVE  activeCalls' \in [Keys -> Session \cup {NoSession}]
  BY <1>0, <1>2 DEF HandleDisconnect
<1>3. ASSUME NEW s \in Sockets, NEW k \in Keys, HandleCallAnswer(s, k)
      PROVE  activeCalls' \in [Keys -> Session \cup {NoSession}]
  BY <1>0, <1>s, <1>3, SessionDocs DEF HandleCallAnswer, Offered, Live
<1>4. ASSUME NEW s \in Sockets, NEW k \in Keys, HandleCallReject(s, k) \/ HandleCallEnd(s, k)
      PROVE  activeCalls' \in [Keys -> Session \cup {NoSession}]
  BY <1>0, <1>4 DEF HandleCallReject, HandleCallEnd, RejectSession, EndSession
<1>5. ASSUME NEW t \in tasks, InitiateSet(t)
      PROVE  activeCalls' \in [Keys -> Session \cup {NoSession}]
  <2>1. [initiator |-> sockUser[t.sock], participants |-> t.users \cup {sockUser[t.sock]},
         status |-> "ringing", saved |-> t.saves] \in Session
    BY <1>5, TaskTyped DEF InitiateSet, Session
  <2>2. QED
    BY <1>0, <1>5, <2>1, TaskTyped DEF InitiateSet
<1>6. ASSUME NEW t \in tasks, FinishReject(t) \/ FinishEnd(t)
      PROVE  activeCalls' \in [Keys -> Session \cup {NoSession}]
  BY <1>0, <1>6, TaskTyped DEF FinishReject, FinishEnd, RejectSession, EndSession
<1>7. ASSUME NEW t \in tasks, InviteEmit(t)
      PROVE  activeCalls' \in [Keys -> Session \cup {NoSession}]
  BY <1>0, <1>7, TaskTyped, SessionDocs DEF InviteEmit, Live
<1>8. QED
  BY <1>1, <1>2, <1>3, <1>4, <1>5, <1>6, <1>7, SessionsFrame

\* A step keeps the calls collection well typed.
LEMMA RecordsTyped ==
    ASSUME Typed, [Next]_vars
    PROVE  record' \in [Calls -> Record \cup {NoRecord}]
<1>0. record \in [Calls -> Record \cup {NoRecord}]
  BY DEF Typed, TypeOK
<1>1. ASSUME NEW u \in RestUsers, NEW c \in Calls, NEW us \in SUBSET Users, RestCreate(u, c, us)
      PROVE  record' \in [Calls -> Record \cup {NoRecord}]
  <2>1. us \cup {u} \in SUBSET Users /\ "ongoing" \in DbStatus
    BY RestAssumption, Names
  <2>2. QED
    BY <1>0, <1>1, <2>1, RecordDocs DEF RestCreate
<1>2. ASSUME NEW u \in RestUsers, DeleteHistory(u)
      PROVE  record' \in [Calls -> Record \cup {NoRecord}]
  BY <1>0, <1>2 DEF DeleteHistory
<1>3. ASSUME NEW t \in tasks, InitiateSave(t)
      PROVE  record' \in [Calls -> Record \cup {NoRecord}]
  <2>1. t.users \cup {sockUser[t.sock]} \in SUBSET Users /\ "ongoing" \in DbStatus
    BY <1>3, TaskTyped, Names DEF InitiateSave
  <2>2. QED
    BY <1>0, <1>3, <2>1, TaskTyped, RecordDocs DEF InitiateSave
<1>4. ASSUME NEW t \in tasks, UpdateSave(t) \/ InviteSave(t)
      PROVE  record' \in [Calls -> Record \cup {NoRecord}]
  BY <1>0, <1>4, TaskTyped, RecordDocs DEF UpdateSave, InviteSave
<1>5. QED
  BY <1>0, <1>1, <1>2, <1>3, <1>4, RecordsFrame

\* The state always has its type.
THEOREM TypeCorrect == Spec => []TypeOK
<1>1. Init => Typed
  BY DEF Init, Typed, TypeOK, SocketOwned, Keys
<1>2. ASSUME Typed, [Next]_vars
      PROVE  Typed'
  BY <1>2, TasksTyped, OthersTyped, SessionsTyped, RecordsTyped DEF Typed, TypeOK, OthersOK
<1>3. Spec => []Typed
  BY <1>1, <1>2, PTL DEF Spec
<1>4. QED
  BY <1>3, PTL DEF Typed

-----------------------------------------------------------------------------
(* Routing                                                                  *)

\* handleConnection overwrites an entry, handleDisconnect deletes it; neither leaves it wrong.
LEMMA RoutesKept ==
    ASSUME Typed, RoutesToOwnOpenSocket, [Next]_vars
    PROVE  RoutesToOwnOpenSocket'
<1>0. /\ connectedUsers \in [Users -> Sockets \cup {None}]
      /\ sockUser \in [Sockets -> Users \cup {None}]
      /\ open \subseteq Sockets
  BY DEF Typed, TypeOK
<1>1. CASE UNCHANGED <<connectedUsers, sockUser, open>>
  BY <1>1 DEF RoutesToOwnOpenSocket
<1>2. CASE Crash
  BY <1>2 DEF Crash, RoutesToOwnOpenSocket
<1>3. ASSUME NEW s \in Sockets, NEW u \in Users, HandleConnection(s, u)
      PROVE  RoutesToOwnOpenSocket'
  <2>1. ASSUME NEW v \in Users, connectedUsers'[v] # None
        PROVE  connectedUsers'[v] \in open' /\ sockUser'[connectedUsers'[v]] = v
    <3>1. CASE v = u
      BY <1>0, <1>3, <3>1 DEF HandleConnection
    <3>2. CASE v # u
      <4>1. connectedUsers'[v] = connectedUsers[v]
        BY <1>0, <1>3, <3>2 DEF HandleConnection
      <4>2. connectedUsers[v] \in open /\ sockUser[connectedUsers[v]] = v /\ connectedUsers[v] # s
        BY <1>3, <2>1, <4>1, NoneAssumption DEF RoutesToOwnOpenSocket, HandleConnection
      <4>3. QED
        BY <1>0, <1>3, <4>1, <4>2 DEF HandleConnection
    <3>3. QED
      BY <3>1, <3>2
  <2>2. QED
    BY <2>1 DEF RoutesToOwnOpenSocket
<1>4. ASSUME NEW s \in Sockets, HandleDisconnect(s)
      PROVE  RoutesToOwnOpenSocket'
  BY <1>0, <1>4 DEF HandleDisconnect, RoutesToOwnOpenSocket
<1>5. QED
  <2>1. ASSUME NEW t \in tasks, Continue(t), ~Crash
        PROVE  UNCHANGED <<connectedUsers, sockUser, open>>
    BY <2>1 DEF Continue, ReplayFails, clientVars, gatewayVars, historyVars, ReplayIncoming,
       InitiateSave, InitiateSet, InitiateRing, InitiateFails, InitiatePush, InitiateJoin,
       UpdateFind, UpdateMessage, UpdateSave, UpdateFails, FinishReject, FinishEnd,
       InviteSave, InviteEmit, InviteFails
  <2>2. Client \/ Rest => UNCHANGED <<connectedUsers, sockUser, open>>
    BY DEF Client, Rest, HandleCallInitiate, HandleCallAnswer, HandleCallReject, HandleCallEnd,
       RestCreate, PutCall, DeleteHistory, Invite, clientVars, gatewayVars
  <2>3. UNCHANGED vars => UNCHANGED <<connectedUsers, sockUser, open>>
    BY DEF vars
  <2>4. QED
    BY <1>1, <1>2, <1>3, <1>4, <2>1, <2>2, <2>3 DEF Next, Connection, Restart

\* The routing map never names a closed socket or somebody else's.
THEOREM RoutesCorrect == Spec => []RoutesToOwnOpenSocket
<1>1. Init => Typed /\ RoutesToOwnOpenSocket
  BY DEF Init, Typed, TypeOK, SocketOwned, Keys, RoutesToOwnOpenSocket
<1>2. Typed /\ RoutesToOwnOpenSocket /\ [Next]_vars => Typed' /\ RoutesToOwnOpenSocket'
  BY TasksTyped, OthersTyped, SessionsTyped, RecordsTyped, RoutesKept DEF Typed, TypeOK, OthersOK
<1>3. QED
  BY <1>1, <1>2, PTL DEF Spec

-----------------------------------------------------------------------------
(* Where the handlers come from                                             *)

\* x is a handler t that has gone on.
MovedOn(t, x) == Continue(t) /\ ~Crash /\ Replace(t, x) /\ Follows(t, x)

\* x was started by the step.
Started(x) ==
    \/ \E s \in Sockets, u \in Users : /\ HandleConnection(s, u) /\ x.op = "replay"
          /\ x.pc = "caller" /\ x.sock = s /\ x.key \in PendingFor(u)
    \/ \E s \in Sockets : /\ HandleDisconnect(s) /\ x.op = "drop" /\ x.pc = "find"
          /\ x.key \in Abandoned(s) /\ activeCalls[x.key].saved /\ x.status = "completed"
    \/ \E s \in Sockets, c \in Calls, us \in SUBSET Users : /\ HandleCallInitiate(s, c, us)
          /\ x.op = "initiate" /\ x.pc = "save" /\ x.sock = s /\ x.key = GwKey(c) /\ x.users = us
    \/ \E s \in Sockets, k \in Keys : /\ HandleCallReject(s, k) /\ x.op = "reject"
          /\ x.pc = "find" /\ x.key = k /\ activeCalls[k].saved /\ x.status = "rejected"
    \/ \E s \in Sockets, k \in Keys : /\ HandleCallEnd(s, k) /\ x.op = "end"
          /\ x.pc = "find" /\ x.key = k /\ activeCalls[k].saved /\ x.status = Outcome(k)
    \/ \E u \in RestUsers, c \in Calls, st \in RestStatuses : /\ PutCall(u, c, st) /\ x.op = "put"
          /\ x.pc = "find" /\ x.key = DbKey(c) /\ x.status = st
    \/ \E u \in RestUsers, c \in Calls, us \in SUBSET Users : /\ Invite(u, c, us) /\ x.op = "invite"
          /\ x.pc = "update" /\ x.key = DbKey(c) /\ x.users = us \ record[c].participants

\* A waiting handler was waiting, has gone on to this point, or was just started.
LEMMA Origins ==
    ASSUME Typed, [Next]_vars, NEW x \in tasks'
    PROVE  x \in tasks \/ (\E t \in tasks : MovedOn(t, x)) \/ Started(x)
<1> SUFFICES ASSUME x \notin tasks
             PROVE  (\E t \in tasks : MovedOn(t, x)) \/ Started(x)
  OBVIOUS
<1>0. /\ tasks \subseteq Task /\ activeCalls \in [Keys -> Session \cup {NoSession}]
      /\ record \in [Calls -> Record \cup {NoRecord}]
      /\ {} \in SUBSET Users
  BY DEF Typed, TypeOK
<1>1. ASSUME NEW t \in tasks, Continue(t), Stepped(t)
      PROVE  MovedOn(t, x)
  <2>1. ~Crash
    BY DEF Crash
  <2>2. PICK u : Replace(t, u) /\ Follows(t, u)
    BY <1>1 DEF Stepped, Finished
  <2>3. x = u
    BY <2>2 DEF Replace
  <2>4. QED
    BY <1>1, <2>1, <2>2, <2>3 DEF MovedOn
<1>2. ~Crash
  BY DEF Crash
<1>3. ASSUME NEW s \in Sockets, NEW u \in Users, HandleConnection(s, u)
      PROVE  x.op = "replay" /\ x.pc = "caller" /\ x.sock = s /\ x.key \in PendingFor(u)
  <2>1. PICK k \in PendingFor(u) : x = NewTask("replay", "caller", s, k, "ongoing", {})
    BY <1>3 DEF HandleConnection
  <2>2. k \in Keys
    BY DEF PendingFor
  <2>3. QED
    BY <1>0, <2>1, <2>2, NewTaskFields, Names
<1>4. ASSUME NEW s \in Sockets, HandleDisconnect(s)
      PROVE  /\ x.op = "drop" /\ x.pc = "find" /\ x.key \in Abandoned(s) /\ activeCalls[x.key].saved
             /\ x.status = "completed"
  <2>1. PICK k \in Abandoned(s) : /\ activeCalls[k].saved
                                 /\ x = NewTask("drop", "find", s, k, "completed", activeCalls[k].participants)
    BY <1>4 DEF HandleDisconnect
  <2>2. k \in Keys /\ activeCalls[k].participants \in SUBSET Users
    BY <1>0, SessionDocs DEF Abandoned
  <2>3. QED
    BY <2>1, <2>2, NewTaskFields, Names
<1>5. ASSUME NEW s \in Sockets, NEW c \in Calls, NEW us \in SUBSET Users, HandleCallInitiate(s, c, us)
      PROVE  x.op = "initiate" /\ x.pc = "save" /\ x.sock = s /\ x.key = GwKey(c) /\ x.users = us
  BY <1>5, NewTaskFields, Names, KeyFacts DEF HandleCallInitiate
<1>6. ASSUME NEW s \in Sockets, NEW k \in Keys, HandleCallReject(s, k)
      PROVE  x.op = "reject" /\ x.pc = "find" /\ x.key = k /\ activeCalls[k].saved /\ x.status = "rejected"
  BY <1>0, <1>6, NewTaskFields, Names DEF HandleCallReject
<1>7. ASSUME NEW s \in Sockets, NEW k \in Keys, HandleCallEnd(s, k)
      PROVE  x.op = "end" /\ x.pc = "find" /\ x.key = k /\ activeCalls[k].saved /\ x.status = Outcome(k)
  <2>1. Outcome(k) \in DbStatus /\ activeCalls[k].participants \in SUBSET Users
    BY <1>0, Names, SessionDocs DEF Outcome
  <2>2. QED
    BY <1>7, <2>1, NewTaskFields, Names DEF HandleCallEnd
<1>8. ASSUME NEW u \in RestUsers, NEW c \in Calls, NEW st \in RestStatuses, PutCall(u, c, st)
      PROVE  x.op = "put" /\ x.pc = "find" /\ x.key = DbKey(c) /\ x.status = st
  <2>1. st \in DbStatus /\ "put" \in Ops /\ "find" \in Pcs /\ DbKey(c) \in Keys
    BY RestAssumption, Names, KeyFacts
  <2>2. x = NewTask("put", "find", u, DbKey(c), st, {})
    BY <1>8 DEF PutCall
  <2>3. QED
    BY <1>0, <2>1, <2>2, NewTaskFields
<1>9. ASSUME NEW u \in RestUsers, NEW c \in Calls, NEW us \in SUBSET Users, Invite(u, c, us)
      PROVE  /\ x.op = "invite" /\ x.pc = "update" /\ x.key = DbKey(c)
             /\ x.users = us \ record[c].participants
  <2>1. us \ record[c].participants \in SUBSET Users
    OBVIOUS
  <2>2. QED
    BY <1>9, <2>1, NewTaskFields, Names, KeyFacts DEF Invite
<1>10. QED
  BY <1>1, <1>2, <1>3, <1>4, <1>5, <1>6, <1>7, <1>8, <1>9, TasksFrame DEF Typed, Started

-----------------------------------------------------------------------------
(* The inductive invariant, in named parts                                  *)

ClosingOp == {"reject", "end", "drop"}
UpdatingOp == ClosingOp \cup {"put"}

\* Each kind of handler waits where that kind waits, under the identifier it has.
TaskShape ==
    \A t \in tasks :
        /\ t.op = "initiate" => /\ t.pc \in {"save", "set", "caller", "push", "join"}
                                /\ t.key = GwKey(t.key[1])
        /\ t.op = "replay" => t.pc = "caller"
        /\ t.op \in ClosingOp => /\ t.pc \in {"find", "message", "update", "finish"}
                                 /\ t.key = GwKey(t.key[1])
                                 /\ t.status \in TerminalStatus
        /\ t.op = "put" => t.pc \in {"find", "message", "update"} /\ t.key = DbKey(t.key[1])
        /\ t.op = "invite" => t.pc \in {"update", "emit"} /\ t.key = DbKey(t.key[1])

\* A call:initiate that waits was sent by the caller and is the only one for its call.
InitiateOwned ==
    /\ \A t \in tasks : t.op = "initiate" => caller[t.key[1]] = sockUser[t.sock]
    /\ \A t, u \in tasks : t.op = "initiate" /\ u.op = "initiate" /\ t.key = u.key => t = u

\* c's session is not visible yet: unused, or its call:initiate has not set it.
Unset(c) ==
    \/ caller[c] = None
    \/ \E t \in tasks : t.op = "initiate" /\ t.key = GwKey(c) /\ t.pc \in {"save", "set"}
Unsaved(c) ==
    \/ caller[c] = None
    \/ \E t \in tasks : t.op = "initiate" /\ t.key = GwKey(c) /\ t.pc = "save"

UnsetIsUnknown ==
    \A c \in Calls : Unset(c) =>
        /\ activeCalls[GwKey(c)] = NoSession
        /\ known[GwKey(c)] = {}
        /\ \A t \in tasks : t.op \in ClosingOp \cup {"replay"} => t.key # GwKey(c)

UnsavedHasNoRecord ==
    \A c \in Calls : Unsaved(c) =>
        /\ record[c] = NoRecord
        /\ messages[c] = {}
        /\ \A t \in tasks : t.op \in UpdatingOp => t.key[1] # c

\* Sessions: only the gateway's identifier has saved or ringing ones, and a
\* ringing session holds everybody who can answer it.
SessionShape ==
    \A k \in Keys :
        /\ activeCalls[k].saved \/ activeCalls[k].status = "ringing" => k = GwKey(k[1])
        /\ activeCalls[k].status = "ringing" =>
              /\ activeCalls[k].initiator = caller[k[1]]
              /\ known[k] \subseteq activeCalls[k].participants
              /\ \A t \in tasks : t.key = k =>
                    /\ t.op = "replay" => sockUser[t.sock] \in activeCalls[k].participants
                    /\ t.op = "initiate" =>
                          t.users \cup {sockUser[t.sock]} \subseteq activeCalls[k].participants

\* A record that says "ongoing" although nothing exempts it.
Unended(c) == record[c].status = "ongoing" /\ c \notin lost

\* A handler that has written the outcome, or will find nothing to change, knows
\* that the record is over.
OutcomeRecorded ==
    \A t \in tasks :
        /\ t.op \in ClosingOp /\ t.pc = "finish" => ~Unended(t.key[1])
        /\ t.op \in UpdatingOp /\ t.pc \in {"message", "update"} /\ t.status \in TerminalStatus /\ ~t.saves
              => ~Unended(t.key[1])

\* A record is "ongoing" only under a saved session or just before it is set.
OngoingAttended ==
    \A c \in Calls : Unended(c) =>
        \/ activeCalls[GwKey(c)].saved
        \/ \E t \in tasks : t.op = "initiate" /\ t.key = GwKey(c) /\ t.pc = "set" /\ t.saves

\* The caller is in the record; no replay and no invitation is about to ring the caller.
CallerKept ==
    /\ \A c \in Calls : record[c] # NoRecord => caller[c] # None /\ caller[c] \in record[c].participants
    /\ \A k \in Keys, t \in tasks : t.key = k =>
          /\ caller[k[1]] # None
          /\ t.op = "replay" => sockUser[t.sock] # caller[k[1]]
          /\ t.op = "invite" => caller[k[1]] \notin t.users

Inv ==
    /\ Typed /\ RoutesToOwnOpenSocket
    /\ TaskShape /\ InitiateOwned
    /\ UnsetIsUnknown /\ UnsavedHasNoRecord
    /\ SessionShape /\ ActiveCallAttended
    /\ OutcomeRecorded /\ OngoingAttended /\ AnnouncedIsRecorded
    /\ CallerKept

-----------------------------------------------------------------------------
(* What no step changes, and how a handler goes on                          *)

\* Owners of sockets and callers of calls are set once; calls stay lost.
LEMMA Stable ==
    ASSUME Typed, [Next]_vars
    PROVE  /\ \A s \in Sockets : sockUser[s] # None => sockUser'[s] = sockUser[s]
           /\ \A c \in Calls : caller[c] # None => caller'[c] = caller[c]
           /\ lost \subseteq lost'
<1>0. sockUser \in [Sockets -> Users \cup {None}] /\ caller \in [Calls -> Users \cup {None}]
  BY DEF Typed, TypeOK
<1>1. ASSUME NEW t \in tasks, Continue(t), ~Crash
      PROVE  UNCHANGED <<sockUser, caller>> /\ lost \subseteq lost'
  BY <1>1 DEF Continue, ReplayFails, clientVars, gatewayVars, historyVars, ReplayIncoming,
     InitiateSave, InitiateSet, InitiateRing, InitiateFails, InitiatePush, InitiateJoin,
     UpdateFind, UpdateMessage, UpdateSave, UpdateFails, FinishReject, FinishEnd,
     InviteSave, InviteEmit, InviteFails
<1>2. CASE Crash \/ UNCHANGED vars
  BY <1>2 DEF Crash, vars
<1>3. CASE Connection
  BY <1>0, <1>3 DEF Connection, HandleConnection, HandleDisconnect, historyVars
<1>4. CASE Client
  BY <1>0, <1>4 DEF Client, HandleCallInitiate, HandleCallAnswer, HandleCallReject, HandleCallEnd,
     clientVars, historyVars
<1>5. CASE Rest
  BY <1>0, <1>5 DEF Rest, RestCreate, PutCall, DeleteHistory, Invite, clientVars, historyVars
<1>6. QED
  BY <1>1, <1>2, <1>3, <1>4, <1>5 DEF Next, Restart

\* A handler that has not been continued still waits, unless the process ended.
LEMMA Survives ==
    ASSUME Typed, [Next]_vars, NEW t \in tasks
    PROVE  t \in tasks' \/ Continue(t) \/ Crash
<1>1. ASSUME NEW u \in tasks, Continue(u), Stepped(u)
      PROVE  t \in tasks' \/ Continue(t)
  BY <1>1 DEF Stepped, Finished, Replace
<1>2. QED
  BY <1>1, TasksFrame DEF Typed, HandleConnection, HandleDisconnect, HandleCallInitiate,
     HandleCallReject, HandleCallEnd, PutCall, Invite

\* How a handler goes on, action by action.
LEMMA Transitions ==
    ASSUME Typed, NEW t \in tasks, NEW x, MovedOn(t, x), x \notin tasks
    PROVE  \/ InitiateSave(t) /\ x.pc = "set"
           \/ InitiateSet(t) /\ x.pc = "caller"
           \/ InitiateRing(t) /\ x.pc = "push"
           \/ InitiatePush(t) /\ x.pc = "join"
           \/ /\ UpdateFind(t) /\ record[t.key[1]] # NoRecord
              /\ x.pc = IF t.status \in TerminalStatus THEN "message" ELSE "update"
              /\ x.saves = (record[t.key[1]].status # t.status)
           \/ UpdateFind(t) /\ record[t.key[1]] = NoRecord /\ t.op # "put" /\ x.pc = "finish"
           \/ UpdateMessage(t) /\ x.pc = "update" /\ x.saves = t.saves
           \/ UpdateSave(t) /\ t.op # "put" /\ x.pc = "finish"
           \/ UpdateFails(t) /\ t.op # "put" /\ x.pc = "finish"
           \/ InviteSave(t) /\ x.pc = "emit"
<1>0. t \in Task /\ t.status \in DbStatus
  BY TaskTyped
<1>1. ~Finished(t) /\ x \in tasks'
  BY DEF MovedOn, Replace, Finished
<1>2. ASSUME NEW u, Replace(t, u)
      PROVE  x = u
  BY <1>1, <1>2 DEF Replace
<1>3. ASSUME NEW pc \in Pcs, Advance(t, pc)
      PROVE  x.pc = pc /\ x.saves = t.saves
  BY <1>0, <1>2, <1>3, AdvanceMoves
<1>4. ASSUME NEW pc \in Pcs, NEW b \in BOOLEAN, Replace(t, Settled(t, pc, b))
      PROVE  x.pc = pc /\ x.saves = b
  BY <1>0, <1>2, <1>4, SettledMoves
<1>5. GiveUp(t) => t.op # "put" /\ x.pc = "finish"
  BY <1>1, <1>3, Names DEF GiveUp
<1>6. CASE ReplayIncoming(t) \/ InitiateFails(t) \/ InitiateJoin(t) \/ FinishReject(t) \/ FinishEnd(t)
             \/ InviteEmit(t) \/ InviteFails(t)
  BY <1>1, <1>6 DEF ReplayIncoming, InitiateFails, InitiateJoin, FinishReject, FinishEnd, InviteEmit, InviteFails
<1>7. CASE InitiateSet(t) \/ InitiateRing(t) \/ InitiatePush(t) \/ UpdateMessage(t)
  BY <1>3, <1>7, Names DEF InitiateSet, InitiateRing, InitiatePush, UpdateMessage
<1>8. CASE InitiateSave(t)
  <2>1. PICK b \in BOOLEAN : Replace(t, Settled(t, "set", b))
    BY <1>8 DEF InitiateSave
  <2>2. QED
    BY <1>4, <1>8, <2>1, Names
<1>9. CASE UpdateFind(t)
  <2>1. CASE record[t.key[1]] = NoRecord
    BY <1>5, <1>9, <2>1 DEF UpdateFind
  <2>2. CASE record[t.key[1]] # NoRecord
    <3>1. Replace(t, Settled(t, IF t.status \in TerminalStatus THEN "message" ELSE "update",
                             record[t.key[1]].status # t.status))
      BY <1>9, <2>2 DEF UpdateFind
    <3>2. QED
      BY <1>4, <1>9, <2>2, <3>1, Names
  <2>3. QED
    BY <2>1, <2>2
<1>10. CASE UpdateSave(t) \/ UpdateFails(t)
  BY <1>5, <1>10 DEF UpdateSave, UpdateFails
<1>11. CASE InviteSave(t)
  BY <1>1, <1>3, <1>11, Names DEF InviteSave
<1>12. QED
  BY <1>6, <1>7, <1>8, <1>9, <1>10, <1>11 DEF MovedOn, Continue, ReplayFails

-----------------------------------------------------------------------------
(* Each part of the invariant is kept                                       *)

\* The identifiers of the documents that a step starts handlers for.
LEMMA StartedShape ==
    ASSUME Inv, NEW x, Started(x)
    PROVE  /\ x.op = "replay" => activeCalls[x.key].status = "ringing"
           /\ x.op \in ClosingOp => /\ activeCalls[x.key].saved /\ x.key = GwKey(x.key[1])
                                    /\ x.key \in Keys /\ x.status \in TerminalStatus /\ x.pc = "find"
           /\ x.op = "initiate" => /\ x.key = GwKey(x.key[1]) /\ caller[x.key[1]] = None /\ x.pc = "save"
                                   /\ x.key \in Keys
           /\ x.op \in {"put", "invite"} => /\ x.key = DbKey(x.key[1]) /\ record[x.key[1]] # NoRecord
                                            /\ x.key \in Keys
           /\ x.op = "replay" => x.pc = "caller" /\ x.key \in Keys
           /\ x.op = "put" => x.pc = "find"
           /\ x.op = "invite" => x.pc = "update"
           /\ x.op \in {"initiate", "replay", "put", "invite"} \cup ClosingOp
<1>0. SessionShape
  BY DEF Inv
<1>1. ASSUME NEW s \in Sockets, HandleDisconnect(s), x.key \in Abandoned(s), activeCalls[x.key].saved
      PROVE  x.key \in Keys /\ x.key = GwKey(x.key[1])
  BY <1>0, <1>1 DEF Abandoned, SessionShape
<1>2. ASSUME NEW s \in Sockets, NEW k \in Keys, activeCalls[k].saved
      PROVE  k = GwKey(k[1])
  BY <1>0, <1>2 DEF SessionShape
<1>3. \A k \in Keys : Outcome(k) \in TerminalStatus /\ {"completed", "rejected"} \subseteq TerminalStatus
  BY DEF Outcome, TerminalStatus
<1>4. ASSUME NEW s \in Sockets, NEW u \in Users, x.key \in PendingFor(u)
      PROVE  x.key \in Keys /\ activeCalls[x.key].status = "ringing"
  BY <1>4 DEF PendingFor
<1>5. CASE \E s \in Sockets, u \in Users : /\ HandleConnection(s, u) /\ x.op = "replay"
          /\ x.pc = "caller" /\ x.sock = s /\ x.key \in PendingFor(u)
  BY <1>4, <1>5 DEF ClosingOp
<1>6. CASE \E s \in Sockets : /\ HandleDisconnect(s) /\ x.op = "drop" /\ x.pc = "find"
          /\ x.key \in Abandoned(s) /\ activeCalls[x.key].saved /\ x.status = "completed"
  BY <1>1, <1>3, <1>6 DEF ClosingOp, TerminalStatus
<1>7. CASE \E s \in Sockets, c \in Calls, us \in SUBSET Users : /\ HandleCallInitiate(s, c, us)
          /\ x.op = "initiate" /\ x.pc = "save" /\ x.sock = s /\ x.key = GwKey(c) /\ x.users = us
  BY <1>7, KeyFacts DEF ClosingOp, HandleCallInitiate
<1>8. CASE \E s \in Sockets, k \in Keys : /\ HandleCallReject(s, k) /\ x.op = "reject"
          /\ x.pc = "find" /\ x.key = k /\ activeCalls[k].saved /\ x.status = "rejected"
  BY <1>2, <1>8 DEF ClosingOp, TerminalStatus
<1>9. CASE \E s \in Sockets, k \in Keys : /\ HandleCallEnd(s, k) /\ x.op = "end"
          /\ x.pc = "find" /\ x.key = k /\ activeCalls[k].saved /\ x.status = Outcome(k)
  BY <1>2, <1>3, <1>9 DEF ClosingOp
<1>10. CASE \E u \in RestUsers, c \in Calls, st \in RestStatuses : /\ PutCall(u, c, st) /\ x.op = "put"
          /\ x.pc = "find" /\ x.key = DbKey(c)
  BY <1>10, KeyFacts DEF ClosingOp, PutCall
<1>11. CASE \E u \in RestUsers, c \in Calls, us \in SUBSET Users : /\ Invite(u, c, us) /\ x.op = "invite"
          /\ x.pc = "update" /\ x.key = DbKey(c) /\ x.users = us \ record[c].participants
  <2>1. PICK u \in RestUsers, c \in Calls, us \in SUBSET Users : /\ Invite(u, c, us) /\ x.op = "invite"
          /\ x.pc = "update" /\ x.key = DbKey(c)
    BY <1>11
  <2>2. x.key[1] = c /\ x.key \in Keys /\ x.key = DbKey(x.key[1])
    BY <2>1, KeyFacts
  <2>3. record[c] # NoRecord
    BY <2>1 DEF Invite
  <2>4. QED
    BY <2>1, <2>2, <2>3 DEF ClosingOp
<1>12. QED
  BY <1>5, <1>6, <1>7, <1>8, <1>9, <1>10, <1>11 DEF Started

\* Handlers wait where their kind waits.
LEMMA TaskShapeKept ==
    ASSUME Inv, [Next]_vars
    PROVE  TaskShape'
<1>0. Typed /\ TaskShape
  BY DEF Inv
<1>1. ASSUME NEW x \in tasks', NEW t \in tasks, MovedOn(t, x), x \notin tasks
      PROVE  /\ x.op = "initiate" => /\ x.pc \in {"save", "set", "caller", "push", "join"}
                                     /\ x.key = GwKey(x.key[1])
             /\ x.op = "replay" => x.pc = "caller"
             /\ x.op \in ClosingOp => /\ x.pc \in {"find", "message", "update", "finish"}
                                      /\ x.key = GwKey(x.key[1])
                                      /\ x.status \in TerminalStatus
             /\ x.op = "put" => x.pc \in {"find", "message", "update"} /\ x.key = DbKey(x.key[1])
             /\ x.op = "invite" => x.pc \in {"update", "emit"} /\ x.key = DbKey(x.key[1])
  <2>1. x.op = t.op /\ x.key = t.key /\ x.status = t.status
    BY <1>1 DEF MovedOn, Follows
  <2>2. /\ x.op = "initiate" => x.pc \in {"set", "caller", "push", "join"}
        /\ x.op # "replay"
        /\ x.op \in ClosingOp => x.pc \in {"message", "update", "finish"}
        /\ x.op = "put" => x.pc \in {"message", "update"}
        /\ x.op = "invite" => x.pc = "emit"
    BY <1>0, <1>1, <2>1, Transitions DEF ClosingOp, InitiateSave, InitiateSet, InitiateRing, InitiatePush,
       UpdateFind, UpdateMessage, UpdateSave, UpdateFails, InviteSave, Updating
  <2>3. QED
    BY <1>0, <1>1, <2>1, <2>2 DEF TaskShape
<1>2. ASSUME NEW x \in tasks', Started(x)
      PROVE  /\ x.op = "initiate" => /\ x.pc \in {"save", "set", "caller", "push", "join"}
                                     /\ x.key = GwKey(x.key[1])
             /\ x.op = "replay" => x.pc = "caller"
             /\ x.op \in ClosingOp => /\ x.pc \in {"find", "message", "update", "finish"}
                                      /\ x.key = GwKey(x.key[1])
                                      /\ x.status \in TerminalStatus
             /\ x.op = "put" => x.pc \in {"find", "message", "update"} /\ x.key = DbKey(x.key[1])
             /\ x.op = "invite" => x.pc \in {"update", "emit"} /\ x.key = DbKey(x.key[1])
  BY <1>2, StartedShape
<1>3. QED
  BY <1>0, <1>1, <1>2, Origins DEF TaskShape

\* A call:initiate stays its caller's and the only one of its call.
LEMMA InitiateOwnedKept ==
    ASSUME Inv, [Next]_vars
    PROVE  InitiateOwned'
<1>0. Typed /\ InitiateOwned /\ TaskShape
  BY DEF Inv
<1>1. ASSUME NEW x \in tasks', x.op = "initiate"
      PROVE  caller'[x.key[1]] = sockUser'[x.sock]
  <2>1. ASSUME NEW t \in tasks, t.op = "initiate"
        PROVE  caller'[t.key[1]] = sockUser'[t.sock]
    <3>1. /\ caller[t.key[1]] = sockUser[t.sock]
          /\ sockUser[t.sock] # None /\ t.sock \in Sockets /\ t.key[1] \in Calls
      BY <1>0, <2>1, TaskTyped, NoneAssumption DEF InitiateOwned
    <3>2. QED
      BY <1>0, <3>1, Stable
  <2>2. ASSUME NEW t \in tasks, MovedOn(t, x)
        PROVE  caller'[x.key[1]] = sockUser'[x.sock]
    BY <1>1, <2>1, <2>2 DEF MovedOn, Follows
  <2>3. ASSUME NEW s \in Sockets, NEW c \in Calls, NEW us \in SUBSET Users, HandleCallInitiate(s, c, us),
               x.sock = s, x.key = GwKey(c), x.users = us
        PROVE  caller'[x.key[1]] = sockUser'[x.sock]
    <3>1. caller \in [Calls -> Users \cup {None}] /\ x.key[1] = c
      BY <1>0, <2>3, KeyFacts DEF Typed, TypeOK
    <3>2. QED
      BY <2>3, <3>1 DEF HandleCallInitiate, clientVars
  <2>4. Started(x) => caller'[x.key[1]] = sockUser'[x.sock]
    BY <1>1, <2>3 DEF Started
  <2>5. QED
    BY <1>0, <1>1, <2>1, <2>2, <2>4, Origins
<1>2. ASSUME NEW x \in tasks', NEW y \in tasks', x.op = "initiate", y.op = "initiate", x.key = y.key
      PROVE  x = y
  <2>1. \A a, b \in tasks : a.op = "initiate" /\ b.op = "initiate" /\ a.key = b.key => a = b
    BY <1>0 DEF InitiateOwned
  <2>2. \A a \in tasks : a.op = "initiate" => caller[a.key[1]] # None
    BY <1>0, TaskTyped, NoneAssumption DEF InitiateOwned
  <2>3. ASSUME NEW a \in tasks', Started(a), a.op = "initiate"
        PROVE  \E c \in Calls, s \in Sockets, us \in SUBSET Users : /\ caller[c] = None /\ a.key = GwKey(c)
                  /\ tasks' = tasks \cup {NewTask("initiate", "save", s, GwKey(c), "ongoing", us)}
    BY <2>3 DEF Started, HandleCallInitiate
  <2>4. \A a, b \in tasks' : Started(a) /\ a.op = "initiate" /\ b \in tasks /\ b.op = "initiate" => a.key # b.key
    BY <2>2, <2>3, KeyFacts
  <2>5. \A a, b \in tasks' : Started(a) /\ a.op = "initiate" /\ a \notin tasks /\ b \notin tasks => a = b
    BY <2>3
  <2>6. ASSUME NEW a \in tasks', NEW b \in tasks', NEW t \in tasks, MovedOn(t, a), a.op = "initiate",
               b.op = "initiate", b.key = a.key
        PROVE  a = b
    BY <2>1, <2>6 DEF MovedOn, Follows, Replace
  <2>7. x \in tasks \/ (\E t \in tasks : MovedOn(t, x)) \/ Started(x)
    BY <1>0, Origins
  <2>8. y \in tasks \/ (\E t \in tasks : MovedOn(t, y)) \/ Started(y)
    BY <1>0, Origins
  <2>9. QED
    BY <1>2, <2>1, <2>4, <2>5, <2>6, <2>7, <2>8
<1>3. QED
  BY <1>1, <1>2 DEF InitiateOwned

\* The session of a call does not become unset again.
LEMMA UnsetBefore ==
    ASSUME Inv, [Next]_vars, NEW c \in Calls
    PROVE  /\ Unset(c)' => Unset(c)
           /\ Unsaved(c)' => Unsaved(c)
<1>0. Typed /\ InitiateOwned /\ TaskShape
  BY DEF Inv
<1>1. caller'[c] = None => caller[c] = None
  BY <1>0, Stable
<1>2. ASSUME NEW x \in tasks', x.op = "initiate", x.key = GwKey(c), x.pc \in {"save", "set"}
      PROVE  Unset(c) /\ (x.pc = "save" => Unsaved(c))
  <2>1. CASE x \in tasks
    BY <1>2, <2>1 DEF Unset, Unsaved
  <2>2. ASSUME NEW t \in tasks, MovedOn(t, x), x \notin tasks
        PROVE  Unset(c) /\ (x.pc = "save" => Unsaved(c))
    <3>1. t.op = "initiate" /\ t.key = GwKey(c)
      BY <1>2, <2>2 DEF MovedOn, Follows
    <3>2. x.pc = "set" /\ t.pc = "save"
      BY <1>0, <1>2, <2>2, <3>1, Transitions DEF InitiateSave, UpdateFind, UpdateMessage, UpdateSave,
         UpdateFails, InviteSave, Updating
    <3>3. QED
      BY <3>1, <3>2 DEF Unset
  <2>3. CASE Started(x)
    <3>1. PICK d \in Calls : caller[d] = None /\ x.key = GwKey(d)
      BY <1>2, <2>3 DEF Started, HandleCallInitiate
    <3>2. d = c
      BY <1>2, <3>1, KeyFacts
    <3>3. QED
      BY <3>1, <3>2 DEF Unset, Unsaved
  <2>4. QED
    BY <1>0, <2>1, <2>2, <2>3, Origins
<1>3. QED
  BY <1>1, <1>2 DEF Unset, Unsaved

\* Only one call:initiate waits for a call, so an unset call is at that point.
LEMMA InitiateAlone ==
    ASSUME Inv, NEW t \in tasks, t.op = "initiate"
    PROVE  /\ t.key = GwKey(t.key[1]) /\ t.key[1] \in Calls /\ caller[t.key[1]] # None
           /\ Unset(t.key[1]) => t.pc \in {"save", "set"}
           /\ Unsaved(t.key[1]) => t.pc = "save"
<1>0. Typed /\ TaskShape /\ InitiateOwned
  BY DEF Inv
<1>1. t.key = GwKey(t.key[1]) /\ t.key[1] \in Calls
  BY <1>0, TaskTyped DEF TaskShape
<1>2. caller[t.key[1]] = sockUser[t.sock] /\ sockUser[t.sock] \in Users
  BY <1>0, TaskTyped DEF InitiateOwned
<1>3. caller[t.key[1]] # None
  BY <1>2, NoneAssumption
<1>4. \A x \in tasks : x.op = "initiate" /\ x.key = t.key => x = t
  BY <1>0 DEF InitiateOwned
<1>5. QED
  BY <1>1, <1>3, <1>4 DEF Unset, Unsaved

\* The step that sets a session, or saves a record, leaves the call set or saved.
LEMMA SetOnce ==
    ASSUME Inv, [Next]_vars, NEW t \in tasks
    PROVE  /\ InitiateSet(t) => ~Unset(t.key[1])'
           /\ InitiateSave(t) => ~Unsaved(t.key[1])'
<1>0. Typed /\ InitiateOwned /\ t \in Task
  BY TaskTyped DEF Inv
<1>1. ASSUME InitiateSet(t) \/ InitiateSave(t)
      PROVE  t.op = "initiate" /\ t.key = GwKey(t.key[1]) /\ caller'[t.key[1]] # None
  BY <1>0, <1>1, InitiateAlone, Stable DEF InitiateSet, InitiateSave
<1>2. ASSUME NEW u, Replace(t, u), t.op = "initiate", NEW x \in tasks', x.op = "initiate", x.key = t.key
      PROVE  x = u
  BY <1>0, <1>2 DEF InitiateOwned, Replace
<1>3. ASSUME InitiateSet(t)
      PROVE  ~Unset(t.key[1])'
  <2>1. PICK u : Replace(t, u) /\ u.pc = "caller"
    BY <1>0, <1>3, AdvanceMoves, Names DEF InitiateSet
  <2>2. QED
    BY <1>1, <1>2, <1>3, <2>1 DEF Unset
<1>4. ASSUME InitiateSave(t)
      PROVE  ~Unsaved(t.key[1])'
  <2>1. PICK b \in BOOLEAN : Replace(t, Settled(t, "set", b))
    BY <1>4 DEF InitiateSave
  <2>2. PICK u : Replace(t, u) /\ u.pc = "set"
    BY <1>0, <2>1, SettledMoves, Names
  <2>3. QED
    BY <1>1, <1>2, <1>4, <2>2 DEF Unsaved
<1>5. QED
  BY <1>3, <1>4

\* The steps after which a client knows of a call, or a device rings.
LEMMA KnownFrame ==
    ASSUME [Next]_vars
    PROVE  \/ UNCHANGED known
           \/ \E t \in tasks : \/ ReplayIncoming(t) \/ InitiateRing(t) \/ InitiatePush(t)
                              \/ InitiateJoin(t) \/ InviteEmit(t)
<1>1. ASSUME NEW t \in tasks, Continue(t)
      PROVE  \/ UNCHANGED known
             \/ ReplayIncoming(t) \/ InitiateRing(t) \/ InitiatePush(t) \/ InitiateJoin(t) \/ InviteEmit(t)
  BY <1>1 DEF Continue, ReplayFails, Crash, clientVars, InitiateSave, InitiateSet, InitiateFails,
     UpdateFind, UpdateMessage, UpdateSave, UpdateFails, FinishReject, FinishEnd, InviteSave, InviteFails
<1>2. CASE Connection
  BY <1>2 DEF Connection, HandleConnection, HandleDisconnect
<1>3. CASE Client
  BY <1>3 DEF Client, HandleCallInitiate, HandleCallAnswer, HandleCallReject, HandleCallEnd, clientVars
<1>4. CASE Rest
  BY <1>4 DEF Rest, RestCreate, PutCall, DeleteHistory, Invite, clientVars
<1>5. CASE UNCHANGED vars \/ Restart
  BY <1>5 DEF vars, Restart, Crash
<1>6. QED
  BY <1>1, <1>2, <1>3, <1>4, <1>5 DEF Next

\* The only step that announces an outcome.
LEMMA MessagesFrame ==
    ASSUME [Next]_vars
    PROVE  UNCHANGED messages \/ \E t \in tasks : UpdateMessage(t)
<1>1. ASSUME NEW t \in tasks, Continue(t)
      PROVE  UNCHANGED messages \/ UpdateMessage(t)
  BY <1>1 DEF Continue, ReplayFails, Crash, historyVars, ReplayIncoming, InitiateSave, InitiateSet,
     InitiateRing, InitiateFails, InitiatePush, InitiateJoin, UpdateFind, UpdateSave, UpdateFails,
     FinishReject, FinishEnd, InviteSave, InviteEmit, InviteFails
<1>2. CASE Connection
  BY <1>2 DEF Connection, HandleConnection, HandleDisconnect, historyVars
<1>3. CASE Client
  BY <1>3 DEF Client, HandleCallInitiate, HandleCallAnswer, HandleCallReject, HandleCallEnd, historyVars
<1>4. CASE Rest
  BY <1>4 DEF Rest, RestCreate, PutCall, DeleteHistory, Invite, historyVars
<1>5. CASE UNCHANGED vars \/ Restart
  BY <1>5 DEF vars, Restart, Crash
<1>6. QED
  BY <1>1, <1>2, <1>3, <1>4, <1>5 DEF Next

\* Nobody can answer, reject or end a call before its session is set.
LEMMA UnsetIsUnknownKept ==
    ASSUME Inv, [Next]_vars
    PROVE  UnsetIsUnknown'
<1> SUFFICES ASSUME NEW c \in Calls, Unset(c)'
             PROVE  /\ activeCalls'[GwKey(c)] = NoSession
                    /\ known'[GwKey(c)] = {}
                    /\ \A t \in tasks' : t.op \in ClosingOp \cup {"replay"} => t.key # GwKey(c)
  BY DEF UnsetIsUnknown
<1>0. Typed /\ TaskShape /\ InitiateOwned /\ SessionShape /\ UnsetIsUnknown
  BY DEF Inv
<1>1. /\ Unset(c) /\ GwKey(c) \in Keys /\ GwKey(c)[1] = c
      /\ activeCalls[GwKey(c)] = NoSession /\ known[GwKey(c)] = {}
      /\ \A t \in tasks : t.op \in ClosingOp \cup {"replay"} => t.key # GwKey(c)
  BY <1>0, UnsetBefore, KeyFacts DEF UnsetIsUnknown
<1>2. /\ activeCalls \in [Keys -> Session \cup {NoSession}] /\ known \in [Keys -> SUBSET Users]
      /\ ~Live(GwKey(c))
  BY <1>0, <1>1 DEF Typed, TypeOK, Live
<1>3. ASSUME NEW t \in tasks, t.op = "invite"
      PROVE  t.key # GwKey(c)
  BY <1>0, <1>3, TaskTyped, KeyFacts DEF TaskShape
<1>4. activeCalls'[GwKey(c)] = NoSession
  <2>1. CASE UNCHANGED activeCalls \/ Crash
    BY <1>1, <2>1 DEF Crash
  <2>2. ASSUME NEW s \in Sockets, HandleDisconnect(s)
        PROVE  activeCalls'[GwKey(c)] = NoSession
    BY <1>1, <2>2 DEF HandleDisconnect
  <2>3. ASSUME NEW s \in Sockets, NEW k \in Keys, HandleCallAnswer(s, k)
        PROVE  activeCalls'[GwKey(c)] = NoSession
    BY <1>1, <1>2, <2>3 DEF HandleCallAnswer, Offered
  <2>4. ASSUME NEW s \in Sockets, NEW k \in Keys, HandleCallReject(s, k) \/ HandleCallEnd(s, k)
        PROVE  activeCalls'[GwKey(c)] = NoSession
    BY <1>1, <1>2, <2>4 DEF HandleCallReject, HandleCallEnd, RejectSession, EndSession
  <2>5. ASSUME NEW t \in tasks, InitiateSet(t)
        PROVE  activeCalls'[GwKey(c)] = NoSession
    <3>1. t.key # GwKey(c)
      BY <1>1, <2>5, SetOnce
    <3>2. QED
      BY <1>1, <1>2, <2>5, <3>1 DEF InitiateSet
  <2>6. ASSUME NEW t \in tasks, FinishReject(t) \/ FinishEnd(t)
        PROVE  activeCalls'[GwKey(c)] = NoSession
    BY <1>1, <1>2, <2>6 DEF FinishReject, FinishEnd, RejectSession, EndSession
  <2>7. ASSUME NEW t \in tasks, InviteEmit(t)
        PROVE  activeCalls'[GwKey(c)] = NoSession
    BY <1>1, <1>2, <1>3, <2>7 DEF InviteEmit
  <2>8. QED
    BY <2>1, <2>2, <2>3, <2>4, <2>5, <2>6, <2>7, SessionsFrame
<1>5. known'[GwKey(c)] = {}
  <2>1. ASSUME NEW t \in tasks, InitiateRing(t) \/ InitiatePush(t) \/ InitiateJoin(t)
        PROVE  t.key # GwKey(c)
    <3>1. t.op = "initiate" /\ t.pc \in {"caller", "push", "join"}
      BY <2>1 DEF InitiateRing, InitiatePush, InitiateJoin
    <3>2. ~Unset(t.key[1])
      BY <3>1, InitiateAlone
    <3>3. QED
      BY <1>1, <3>2
  <2>2. ASSUME NEW t \in tasks, InitiateRing(t) \/ InitiatePush(t) \/ InitiateJoin(t)
        PROVE  known'[GwKey(c)] = {}
    BY <1>1, <1>2, <2>1, <2>2 DEF InitiateRing, InitiatePush, InitiateJoin
  <2>3. ASSUME NEW t \in tasks, ReplayIncoming(t)
        PROVE  known'[GwKey(c)] = {}
    BY <1>1, <1>2, <2>3 DEF ReplayIncoming
  <2>4. ASSUME NEW t \in tasks, InviteEmit(t)
        PROVE  known'[GwKey(c)] = {}
    BY <1>1, <1>2, <1>3, <2>4 DEF InviteEmit
  <2>5. QED
    BY <1>1, <2>2, <2>3, <2>4, KnownFrame
<1>6. ASSUME NEW x \in tasks', x.op \in ClosingOp \cup {"replay"}, x.key = GwKey(c)
      PROVE  FALSE
  <2>1. x \notin tasks
    BY <1>1, <1>6
  <2>2. ASSUME NEW t \in tasks, MovedOn(t, x)
        PROVE  FALSE
    BY <1>1, <1>6, <2>2 DEF MovedOn, Follows
  <2>3. CASE Started(x)
    BY <1>1, <1>6, <2>3, StartedShape, SessionDocs
  <2>4. QED
    BY <1>0, <2>1, <2>2, <2>3, Origins
<1>7. QED
  BY <1>4, <1>5, <1>6

\* Nobody can update a record before it is saved.
LEMMA UnsavedHasNoRecordKept ==
    ASSUME Inv, [Next]_vars
    PROVE  UnsavedHasNoRecord'
<1> SUFFICES ASSUME NEW c \in Calls, Unsaved(c)'
             PROVE  /\ record'[c] = NoRecord
                    /\ messages'[c] = {}
                    /\ \A t \in tasks' : t.op \in UpdatingOp => t.key[1] # c
  BY DEF UnsavedHasNoRecord
<1>0. Typed /\ TaskShape /\ InitiateOwned /\ SessionShape /\ UnsetIsUnknown /\ UnsavedHasNoRecord
  BY DEF Inv
<1>1. /\ Unsaved(c) /\ record[c] = NoRecord /\ messages[c] = {}
      /\ \A t \in tasks : t.op \in UpdatingOp => t.key[1] # c
  BY <1>0, UnsetBefore DEF UnsavedHasNoRecord
<1>2. activeCalls[GwKey(c)] = NoSession
  BY <1>0, <1>1 DEF Unsaved, Unset, UnsetIsUnknown
<1>3. /\ record \in [Calls -> Record \cup {NoRecord}] /\ messages \in [Calls -> SUBSET DbStatus]
      /\ caller \in [Calls -> Users \cup {None}]
  BY <1>0 DEF Typed, TypeOK
<1>4. record'[c] = NoRecord
  <2>1. ASSUME NEW u \in RestUsers, NEW d \in Calls, NEW us \in SUBSET Users, RestCreate(u, d, us)
        PROVE  record'[c] = NoRecord
    <3>1. ASSUME d = c
          PROVE  FALSE
      <4>1. caller[c] = None /\ caller'[c] = u /\ u # None /\ tasks' = tasks
        BY <1>3, <2>1, <3>1, RestAssumption, NoneAssumption DEF RestCreate
      <4>2. PICK t \in tasks : t.op = "initiate" /\ t.key = GwKey(c)
        BY <4>1 DEF Unsaved
      <4>3. QED
        BY <4>1, <4>2, InitiateAlone, KeyFacts
    <3>2. QED
      BY <1>1, <1>3, <2>1, <3>1 DEF RestCreate
  <2>2. ASSUME NEW u \in RestUsers, DeleteHistory(u)
        PROVE  record'[c] = NoRecord
    BY <1>1, <2>2 DEF DeleteHistory
  <2>3. ASSUME NEW t \in tasks, InitiateSave(t)
        PROVE  record'[c] = NoRecord
    <3>1. t.key[1] # c
      BY <2>3, SetOnce
    <3>2. QED
      BY <1>1, <1>3, <2>3, <3>1 DEF InitiateSave
  <2>4. ASSUME NEW t \in tasks, UpdateSave(t)
        PROVE  record'[c] = NoRecord
    <3>1. t.key[1] # c
      BY <1>1, <2>4 DEF UpdateSave, Updating, UpdatingOp, ClosingOp
    <3>2. QED
      BY <1>1, <1>3, <2>4, <3>1 DEF UpdateSave
  <2>5. ASSUME NEW t \in tasks, InviteSave(t)
        PROVE  record'[c] = NoRecord
    BY <1>1, <1>3, <2>5 DEF InviteSave
  <2>6. QED
    BY <1>1, <2>1, <2>2, <2>3, <2>4, <2>5, RecordsFrame
<1>5. messages'[c] = {}
  <2>1. ASSUME NEW t \in tasks, UpdateMessage(t)
        PROVE  messages'[c] = {}
    <3>1. t.key[1] # c
      BY <1>1, <2>1 DEF UpdateMessage, Updating, UpdatingOp, ClosingOp
    <3>2. QED
      BY <1>1, <1>3, <2>1, <3>1 DEF UpdateMessage
  <2>2. QED
    BY <1>1, <2>1, MessagesFrame
<1>6. ASSUME NEW x \in tasks', x.op \in UpdatingOp, x.key[1] = c
      PROVE  FALSE
  <2>1. x \notin tasks
    BY <1>1, <1>6
  <2>2. ASSUME NEW t \in tasks, MovedOn(t, x)
        PROVE  FALSE
    BY <1>1, <1>6, <2>2 DEF MovedOn, Follows
  <2>3. CASE Started(x)
    <3>1. x.op \in ClosingOp \/ x.op = "put"
      BY <1>6 DEF UpdatingOp
    <3>2. QED
      BY <1>1, <1>2, <1>6, <2>3, <3>1, StartedShape, SessionDocs
  <2>4. QED
    BY <1>0, <2>1, <2>2, <2>3, Origins
<1>7. QED
  BY <1>4, <1>5, <1>6

\* A session that rings rang before, with the same initiator and no more
\* participants, or has just been set.
LEMMA RingingBefore ==
    ASSUME Inv, [Next]_vars, NEW k \in Keys, activeCalls'[k].status = "ringing"
    PROVE  \/ /\ activeCalls[k].status = "ringing" /\ k = GwKey(k[1])
              /\ activeCalls'[k].initiator = activeCalls[k].initiator
              /\ activeCalls[k].participants \subseteq activeCalls'[k].participants
           \/ \E t \in tasks : /\ InitiateSet(t) /\ t.key = k
                              /\ activeCalls'[k].initiator = sockUser[t.sock]
                              /\ activeCalls'[k].participants = t.users \cup {sockUser[t.sock]}
<1>0. Typed /\ SessionShape /\ TaskShape
  BY DEF Inv
<1>1. activeCalls \in [Keys -> Session \cup {NoSession}] /\ sockUser \in [Sockets -> Users \cup {None}]
  BY <1>0 DEF Typed, TypeOK
<1>s. \A s \in Sockets : s \in open => sockUser[s] \in Users
  BY <1>0, <1>1 DEF Typed, SocketOwned, TypeOK
<1> DEFINE Rang == /\ activeCalls[k].status = "ringing"
                   /\ activeCalls'[k].initiator = activeCalls[k].initiator
                   /\ activeCalls[k].participants \subseteq activeCalls'[k].participants
<1>2. CASE activeCalls'[k] = activeCalls[k]
  BY <1>0, <1>2 DEF SessionShape
<1>3. activeCalls'[k] # NoSession
  BY SessionDocs
<1>4. CASE Crash
  BY <1>3, <1>4 DEF Crash
<1>5. ASSUME NEW s \in Sockets, HandleDisconnect(s)
      PROVE  activeCalls'[k] = activeCalls[k]
  BY <1>3, <1>5 DEF HandleDisconnect
<1>6. ASSUME NEW s \in Sockets, NEW j \in Keys, HandleCallAnswer(s, j)
      PROVE  activeCalls'[k] = activeCalls[k]
  <2>1. ASSUME j = k
        PROVE  activeCalls'[k].status = "active"
    <3>1. activeCalls'[k] = IF Live(k) THEN WithStatus(activeCalls[k], "active") ELSE MinimalSession(sockUser[s])
      BY <1>1, <1>6, <2>1 DEF HandleCallAnswer
    <3>2. sockUser[s] \in Users
      BY <1>s, <1>6 DEF HandleCallAnswer, Offered
    <3>3. Live(k) => activeCalls[k] \in Session
      BY <1>1 DEF Live
    <3>4. QED
      BY <3>1, <3>2, <3>3, SessionDocs
  <2>2. QED
    BY <1>1, <1>6, <2>1 DEF HandleCallAnswer
<1>7. ASSUME NEW s \in Sockets, NEW j \in Keys, HandleCallReject(s, j) \/ HandleCallEnd(s, j)
      PROVE  activeCalls'[k] = activeCalls[k]
  BY <1>1, <1>3, <1>7 DEF HandleCallReject, HandleCallEnd, RejectSession, EndSession
<1>8. ASSUME NEW t \in tasks, InitiateSet(t)
      PROVE  activeCalls'[k] = activeCalls[k] \/
               /\ t.key = k
               /\ activeCalls'[k].initiator = sockUser[t.sock]
               /\ activeCalls'[k].participants = t.users \cup {sockUser[t.sock]}
  BY <1>1, <1>8 DEF InitiateSet
<1>9. ASSUME NEW t \in tasks, FinishReject(t) \/ FinishEnd(t)
      PROVE  activeCalls'[k] = activeCalls[k]
  BY <1>1, <1>3, <1>9 DEF FinishReject, FinishEnd, RejectSession, EndSession
<1>10. ASSUME NEW t \in tasks, InviteEmit(t)
      PROVE  activeCalls'[k] = activeCalls[k] \/ Rang
  <2>1. CASE t.key = k /\ Live(k)
    <3>1. activeCalls'[k] = WithUsers(activeCalls[k], t.users)
      BY <1>1, <1>10, <2>1 DEF InviteEmit
    <3>2. activeCalls[k] \in Session /\ t.users \in SUBSET Users
      BY <1>0, <1>1, <2>1, TaskTyped DEF Live
    <3>3. QED
      BY <3>1, <3>2, SessionDocs
  <2>2. CASE ~(t.key = k /\ Live(k))
    BY <1>1, <1>10, <2>2 DEF InviteEmit
  <2>3. QED
    BY <2>1, <2>2
<1>11. Rang => k = GwKey(k[1])
  BY <1>0 DEF SessionShape
<1>12. QED
  BY <1>2, <1>4, <1>5, <1>6, <1>7, <1>8, <1>9, <1>10, <1>11, SessionsFrame

\* A saved session was saved before, or has just been set.
LEMMA SavedBefore ==
    ASSUME Inv, [Next]_vars, NEW k \in Keys, activeCalls'[k].saved
    PROVE  activeCalls[k].saved \/ \E t \in tasks : InitiateSet(t) /\ t.key = k
<1>0. Typed
  BY DEF Inv
<1>1. activeCalls \in [Keys -> Session \cup {NoSession}] /\ sockUser \in [Sockets -> Users \cup {None}]
  BY <1>0 DEF Typed, TypeOK
<1>s. \A s \in Sockets : s \in open => sockUser[s] \in Users
  BY <1>0, <1>1 DEF Typed, SocketOwned, TypeOK
<1>2. activeCalls'[k] # NoSession
  BY SessionDocs
<1>3. CASE Crash
  BY <1>2, <1>3 DEF Crash
<1>4. ASSUME NEW s \in Sockets, HandleDisconnect(s)
      PROVE  activeCalls'[k] = activeCalls[k]
  BY <1>2, <1>4 DEF HandleDisconnect
<1>5. ASSUME NEW s \in Sockets, NEW j \in Keys, HandleCallAnswer(s, j)
      PROVE  activeCalls[k].saved
  <2>1. CASE j = k
    <3>1. activeCalls'[k] = IF Live(k) THEN WithStatus(activeCalls[k], "active") ELSE MinimalSession(sockUser[s])
      BY <1>1, <1>5, <2>1 DEF HandleCallAnswer
    <3>2. sockUser[s] \in Users
      BY <1>s, <1>5 DEF HandleCallAnswer, Offered
    <3>3. Live(k) => activeCalls[k] \in Session
      BY <1>1 DEF Live
    <3>4. QED
      BY <3>1, <3>2, <3>3, SessionDocs
  <2>2. QED
    BY <1>1, <1>5, <2>1 DEF HandleCallAnswer
<1>6. ASSUME NEW s \in Sockets, NEW j \in Keys, HandleCallReject(s, j) \/ HandleCallEnd(s, j)
      PROVE  activeCalls'[k] = activeCalls[k]
  BY <1>1, <1>2, <1>6 DEF HandleCallReject, HandleCallEnd, RejectSession, EndSession
<1>7. ASSUME NEW t \in tasks, InitiateSet(t)
      PROVE  activeCalls'[k] = activeCalls[k] \/ t.key = k
  BY <1>1, <1>7 DEF InitiateSet
<1>8. ASSUME NEW t \in tasks, FinishReject(t) \/ FinishEnd(t)
      PROVE  activeCalls'[k] = activeCalls[k]
  BY <1>1, <1>2, <1>8 DEF FinishReject, FinishEnd, RejectSession, EndSession
<1>9. ASSUME NEW t \in tasks, InviteEmit(t)
      PROVE  activeCalls[k].saved
  <2>1. CASE t.key = k /\ Live(k)
    <3>1. activeCalls'[k] = WithUsers(activeCalls[k], t.users)
      BY <1>1, <1>9, <2>1 DEF InviteEmit
    <3>2. activeCalls[k] \in Session /\ t.users \in SUBSET Users
      BY <1>0, <1>1, <2>1, TaskTyped DEF Live
    <3>3. QED
      BY <3>1, <3>2, SessionDocs
  <2>2. CASE ~(t.key = k /\ Live(k))
    BY <1>1, <1>9, <2>2 DEF InviteEmit
  <2>3. QED
    BY <2>1, <2>2
<1>10. QED
  BY <1>3, <1>4, <1>5, <1>6, <1>7, <1>8, <1>9, SessionsFrame

\* A call with a session, or with a record, has a caller.
LEMMA LiveHasCaller ==
    ASSUME Inv, NEW c \in Calls
    PROVE  /\ activeCalls[GwKey(c)] # NoSession => ~Unset(c) /\ caller[c] # None
           /\ activeCalls[GwKey(c)].saved \/ activeCalls[GwKey(c)].status = "ringing"
                => ~Unset(c) /\ caller[c] # None
           /\ record[c] # NoRecord => ~Unsaved(c) /\ caller[c] # None
BY SessionDocs DEF Inv, UnsetIsUnknown, UnsavedHasNoRecord, Unset, Unsaved

\* Whoever knows a ringing call is one of its participants.
LEMMA SessionShapeKept ==
    ASSUME Inv, [Next]_vars
    PROVE  SessionShape'
<1>0. Typed /\ TaskShape /\ InitiateOwned /\ SessionShape /\ UnsetIsUnknown
  BY DEF Inv
<1>1. /\ known \in [Keys -> SUBSET Users] /\ sockUser \in [Sockets -> Users \cup {None}]
      /\ activeCalls \in [Keys -> Session \cup {NoSession}] /\ caller \in [Calls -> Users \cup {None}]
  BY <1>0 DEF Typed, TypeOK
<1>2. ASSUME NEW k \in Keys, activeCalls'[k].saved \/ activeCalls'[k].status = "ringing"
      PROVE  k = GwKey(k[1])
  <2>1. \A t \in tasks : InitiateSet(t) => t.key = GwKey(t.key[1])
    BY InitiateAlone DEF InitiateSet
  <2>2. activeCalls[k].saved => k = GwKey(k[1])
    BY <1>0 DEF SessionShape
  <2>3. CASE activeCalls'[k].saved
    BY <2>1, <2>2, <2>3, SavedBefore
  <2>4. CASE activeCalls'[k].status = "ringing"
    BY <2>1, <2>4, RingingBefore
  <2>5. QED
    BY <1>2, <2>3, <2>4
<1>3. ASSUME NEW k \in Keys, activeCalls'[k].status = "ringing",
             activeCalls[k].status = "ringing", k = GwKey(k[1]),
             activeCalls'[k].initiator = activeCalls[k].initiator,
             activeCalls[k].participants \subseteq activeCalls'[k].participants
      PROVE  /\ activeCalls'[k].initiator = caller'[k[1]]
             /\ known'[k] \subseteq activeCalls'[k].participants
             /\ \A x \in tasks' : x.key = k =>
                    /\ x.op = "replay" => sockUser'[x.sock] \in activeCalls'[k].participants
                    /\ x.op = "initiate" =>
                          x.users \cup {sockUser'[x.sock]} \subseteq activeCalls'[k].participants
  <2>1. k[1] \in Calls /\ caller[k[1]] # None /\ ~Unset(k[1])
    BY <1>3, KeyFacts, LiveHasCaller
  <2>2. activeCalls'[k].initiator = caller'[k[1]]
    BY <1>0, <1>3, <2>1, Stable DEF SessionShape
  <2>3. ASSUME NEW t \in tasks, t.key = k
        PROVE  /\ t.op = "replay" => sockUser[t.sock] \in activeCalls[k].participants
               /\ t.op = "initiate" => t.users \cup {sockUser[t.sock]} \subseteq activeCalls[k].participants
               /\ t.op # "invite"
    BY <1>0, <1>3, <2>1, <2>3, KeyFacts DEF SessionShape, TaskShape
  <2>4. known'[k] \subseteq activeCalls[k].participants
    <3>1. known[k] \subseteq activeCalls[k].participants
      BY <1>0, <1>3 DEF SessionShape
    <3>2. ASSUME NEW t \in tasks, ReplayIncoming(t)
          PROVE  known'[k] \subseteq activeCalls[k].participants
      BY <1>1, <2>3, <3>1, <3>2 DEF ReplayIncoming
    <3>3. ASSUME NEW t \in tasks, InitiateRing(t) \/ InitiatePush(t) \/ InitiateJoin(t)
          PROVE  known'[k] \subseteq activeCalls[k].participants
      BY <1>1, <2>3, <3>1, <3>3 DEF InitiateRing, InitiatePush, InitiateJoin
    <3>4. ASSUME NEW t \in tasks, InviteEmit(t)
          PROVE  known'[k] \subseteq activeCalls[k].participants
      BY <1>1, <2>3, <3>1, <3>4 DEF InviteEmit
    <3>5. QED
      BY <3>1, <3>2, <3>3, <3>4, KnownFrame
  <2>5. ASSUME NEW x \in tasks', x.key = k
        PROVE  /\ x.op = "replay" => sockUser'[x.sock] \in activeCalls[k].participants
               /\ x.op = "initiate" => x.users \cup {sockUser'[x.sock]} \subseteq activeCalls[k].participants
    <3>1. ASSUME NEW t \in tasks, t.op \in {"replay", "initiate"}
          PROVE  sockUser'[t.sock] = sockUser[t.sock]
      BY <1>0, <3>1, TaskTyped, Stable, NoneAssumption
    <3>2. CASE x \in tasks
      BY <2>3, <2>5, <3>1, <3>2
    <3>3. ASSUME NEW t \in tasks, MovedOn(t, x)
          PROVE  /\ x.op = "replay" => sockUser'[x.sock] \in activeCalls[k].participants
                 /\ x.op = "initiate" => x.users \cup {sockUser'[x.sock]} \subseteq activeCalls[k].participants
      BY <2>3, <2>5, <3>1, <3>3 DEF MovedOn, Follows
    <3>4. CASE Started(x)
      <4>1. x.op # "initiate"
        BY <2>1, <2>5, <3>4, StartedShape
      <4>2. ASSUME x.op = "replay"
            PROVE  sockUser'[x.sock] \in activeCalls[k].participants
        <5>1. PICK s \in Sockets, u \in Users : HandleConnection(s, u) /\ x.sock = s /\ x.key \in PendingFor(u)
          BY <3>4, <4>2 DEF Started
        <5>2. sockUser'[s] = u
          BY <1>1, <5>1 DEF HandleConnection
        <5>3. QED
          BY <2>5, <5>1, <5>2 DEF PendingFor
      <4>3. QED
        BY <4>1, <4>2
    <3>5. QED
      BY <1>0, <3>2, <3>3, <3>4, Origins
  <2>6. QED
    BY <1>3, <2>2, <2>4, <2>5
<1>4. ASSUME NEW k \in Keys, NEW t \in tasks, InitiateSet(t), t.key = k,
             activeCalls'[k].initiator = sockUser[t.sock],
             activeCalls'[k].participants = t.users \cup {sockUser[t.sock]}
      PROVE  /\ activeCalls'[k].initiator = caller'[k[1]]
             /\ known'[k] \subseteq activeCalls'[k].participants
             /\ \A x \in tasks' : x.key = k =>
                    /\ x.op = "replay" => sockUser'[x.sock] \in activeCalls'[k].participants
                    /\ x.op = "initiate" =>
                          x.users \cup {sockUser'[x.sock]} \subseteq activeCalls'[k].participants
  <2>1. /\ t.op = "initiate" /\ t.pc = "set" /\ known' = known /\ sockUser' = sockUser /\ caller' = caller
        /\ t.key = GwKey(k[1]) /\ k[1] \in Calls
    BY <1>4, InitiateAlone DEF InitiateSet, clientVars, historyVars
  <2>2. Unset(k[1])
    BY <1>4, <2>1 DEF Unset
  <2>3. known[k] = {} /\ \A x \in tasks : x.op = "replay" => x.key # k
    BY <1>0, <1>4, <2>1, <2>2 DEF UnsetIsUnknown
  <2>4. caller[k[1]] = sockUser[t.sock]
    BY <1>0, <1>4, <2>1 DEF InitiateOwned
  <2>5. PICK u : Replace(t, u) /\ Follows(t, u)
    BY <1>0, <1>4, TaskTyped, AdvanceMoves, Names DEF InitiateSet
  <2>6. \A x \in tasks' : x.key = k /\ x.op = "initiate" => x.users = t.users /\ x.sock = t.sock
    BY <1>0, <1>4, <2>1, <2>5 DEF InitiateOwned, Replace, Follows
  <2>7. \A x \in tasks' : x.op = "replay" => x.key # k
    BY <2>1, <2>3, <2>5 DEF Replace, Follows
  <2>8. QED
    BY <1>4, <2>1, <2>3, <2>4, <2>6, <2>7
<1>5. QED
  BY <1>2, <1>3, <1>4, RingingBefore DEF SessionShape

-----------------------------------------------------------------------------
(* Active calls                                                             *)

\* A handler that is closing a call goes on closing it until it has removed the
\* entry.
LEMMA ClosingGoesOn ==
    ASSUME Inv, [Next]_vars, NEW k \in Keys, NEW t \in Closing(k), ~Crash
    PROVE  Closing(k)' # {} \/ activeCalls'[k] = NoSession
<1>0. Typed /\ t \in tasks /\ t.op \in ClosingOp /\ t.key = k
      /\ activeCalls \in [Keys -> Session \cup {NoSession}]
  BY DEF Inv, Closing, ClosingOp, Typed, TypeOK
<1>1. CASE t \in tasks'
  BY <1>0, <1>1 DEF Closing, ClosingOp
<1>2. CASE Continue(t)
  <2>1. CASE FinishReject(t) \/ FinishEnd(t)
    BY <1>0, <2>1 DEF FinishReject, FinishEnd, RejectSession, EndSession
  <2>2. ASSUME ~(FinishReject(t) \/ FinishEnd(t))
        PROVE  \E u : Replace(t, u) /\ Follows(t, u)
    <3>1. UpdateFind(t) \/ UpdateMessage(t) \/ UpdateSave(t) \/ UpdateFails(t)
      BY <1>0, <1>2, <2>2 DEF Continue, ClosingOp, ReplayIncoming, ReplayFails, InitiateSave, InitiateSet,
         InitiateRing, InitiateFails, InitiatePush, InitiateJoin, InviteSave, InviteEmit, InviteFails
    <3>2. t \in Task
      BY <1>0, TaskTyped
    <3>3. ASSUME NEW pc \in Pcs, Advance(t, pc)
          PROVE  \E u : Replace(t, u) /\ Follows(t, u)
      BY <3>2, <3>3, AdvanceMoves
    <3>4. GiveUp(t) => \E u : Replace(t, u) /\ Follows(t, u)
      BY <1>0, <3>3, Names DEF GiveUp, ClosingOp
    <3>5. CASE UpdateFind(t)
      BY <3>2, <3>4, <3>5, SettledMoves, Names DEF UpdateFind
    <3>6. CASE UpdateMessage(t)
      BY <3>3, <3>6, Names DEF UpdateMessage
    <3>7. CASE UpdateSave(t) \/ UpdateFails(t)
      BY <3>4, <3>7 DEF UpdateSave, UpdateFails
    <3>8. QED
      BY <3>1, <3>5, <3>6, <3>7
  <2>3. ASSUME NEW u, Replace(t, u), Follows(t, u)
        PROVE  Closing(k)' # {}
    BY <1>0, <2>3 DEF Closing, ClosingOp, Replace, Follows
  <2>4. QED
    BY <2>1, <2>2, <2>3
<1>3. QED
  BY <1>0, <1>1, <1>2, Survives

\* A session that is active was active before, with no more participants, or has
\* just been answered.
LEMMA ActiveBefore ==
    ASSUME Inv, [Next]_vars, NEW k \in Keys, activeCalls'[k].status = "active"
    PROVE  \/ /\ activeCalls[k].status = "active"
              /\ activeCalls[k].participants \subseteq activeCalls'[k].participants
           \/ \E s \in Sockets : HandleCallAnswer(s, k)
<1>0. Typed
  BY DEF Inv
<1>1. activeCalls \in [Keys -> Session \cup {NoSession}]
  BY <1>0 DEF Typed, TypeOK
<1>2. activeCalls'[k] # NoSession
  BY SessionDocs
<1>3. CASE Crash
  BY <1>2, <1>3 DEF Crash
<1>4. ASSUME NEW s \in Sockets, HandleDisconnect(s)
      PROVE  activeCalls'[k] = activeCalls[k]
  BY <1>2, <1>4 DEF HandleDisconnect
<1>5. ASSUME NEW s \in Sockets, NEW j \in Keys, HandleCallAnswer(s, j)
      PROVE  activeCalls'[k] = activeCalls[k] \/ j = k
  BY <1>1, <1>5 DEF HandleCallAnswer
<1>6. ASSUME NEW s \in Sockets, NEW j \in Keys, HandleCallReject(s, j) \/ HandleCallEnd(s, j)
      PROVE  activeCalls'[k] = activeCalls[k]
  BY <1>1, <1>2, <1>6 DEF HandleCallReject, HandleCallEnd, RejectSession, EndSession
<1>7. ASSUME NEW t \in tasks, InitiateSet(t)
      PROVE  activeCalls'[k] = activeCalls[k]
  <2>1. t.key = k => activeCalls'[k].status = "ringing"
    BY <1>1, <1>7 DEF InitiateSet
  <2>2. QED
    BY <1>1, <1>7, <2>1 DEF InitiateSet
<1>8. ASSUME NEW t \in tasks, FinishReject(t) \/ FinishEnd(t)
      PROVE  activeCalls'[k] = activeCalls[k]
  BY <1>1, <1>2, <1>8 DEF FinishReject, FinishEnd, RejectSession, EndSession
<1>9. ASSUME NEW t \in tasks, InviteEmit(t)
      PROVE  /\ activeCalls[k].status = "active"
             /\ activeCalls[k].participants \subseteq activeCalls'[k].participants
  <2>1. CASE t.key = k /\ Live(k)
    <3>1. activeCalls'[k] = WithUsers(activeCalls[k], t.users)
      BY <1>1, <1>9, <2>1 DEF InviteEmit
    <3>2. activeCalls[k] \in Session /\ t.users \in SUBSET Users
      BY <1>0, <1>1, <2>1, TaskTyped DEF Live
    <3>3. QED
      BY <3>1, <3>2, SessionDocs
  <2>2. CASE ~(t.key = k /\ Live(k))
    BY <1>1, <1>9, <2>2 DEF InviteEmit
  <2>3. QED
    BY <2>1, <2>2
<1>10. QED
  BY <1>3, <1>4, <1>5, <1>6, <1>7, <1>8, <1>9, SessionsFrame

\* The connections that an active call keeps.
LEMMA AttendedBefore ==
    ASSUME Inv, [Next]_vars, NEW k \in Keys, Attended(k), ~Crash,
           activeCalls[k].status = "active", activeCalls'[k] # NoSession,
           activeCalls[k].participants \subseteq activeCalls'[k].participants
    PROVE  Attended(k)' \/ Closing(k)' # {}
<1>0. Typed /\ RoutesToOwnOpenSocket
  BY DEF Inv
<1>1. /\ activeCalls \in [Keys -> Session \cup {NoSession}] /\ open \subseteq Sockets
      /\ activeCalls[k].participants \in SUBSET Users
  BY <1>0, SessionDocs DEF Typed, TypeOK
<1>2. PICK s \in open : sockUser[s] \in activeCalls[k].participants
  BY DEF Attended
<1>3. ASSUME NEW r \in open, r \in open', sockUser[r] \in activeCalls[k].participants
      PROVE  Attended(k)'
  <2>1. sockUser'[r] = sockUser[r]
    BY <1>0, <1>1, <1>3, Stable DEF Typed, SocketOwned
  <2>2. QED
    BY <1>3, <2>1 DEF Attended
<1>4. ASSUME NEW d \in Sockets, HandleDisconnect(d)
      PROVE  Attended(k)' \/ Closing(k)' # {}
  <2>1. CASE d # s
    BY <1>2, <1>3, <1>4, <2>1 DEF HandleDisconnect
  <2>2. CASE d = s /\ k \in Abandoned(s)
    <3>1. activeCalls[k].saved
      BY <1>4, <2>2 DEF HandleDisconnect
    <3>2. NewTask("drop", "find", s, k, "completed", activeCalls[k].participants) \in tasks'
      BY <1>4, <2>2, <3>1 DEF HandleDisconnect
    <3>3. LET x == NewTask("drop", "find", s, k, "completed", activeCalls[k].participants)
          IN  x.op = "drop" /\ x.key = k
      BY DEF NewTask
    <3>4. QED
      BY <3>2, <3>3 DEF Closing
  <2>3. CASE d = s /\ k \notin Abandoned(s)
    <3>1. PICK p \in activeCalls[k].participants \ {sockUser[s]} : connectedUsers[p] # None
      BY <1>2, <2>3 DEF Abandoned
    <3>2. connectedUsers[p] \in open /\ sockUser[connectedUsers[p]] = p /\ connectedUsers[p] # s
      BY <1>0, <1>1, <3>1 DEF RoutesToOwnOpenSocket
    <3>3. QED
      BY <1>3, <1>4, <2>3, <3>1, <3>2 DEF HandleDisconnect
  <2>4. QED
    BY <2>1, <2>2, <2>3
<1>5. ASSUME open \subseteq open'
      PROVE  Attended(k)'
  BY <1>2, <1>3, <1>5
<1>6. ASSUME NEW t \in tasks, Continue(t)
      PROVE  open \subseteq open'
  BY <1>6 DEF Continue, ReplayFails, clientVars, gatewayVars, historyVars, ReplayIncoming,
     InitiateSave, InitiateSet, InitiateRing, InitiateFails, InitiatePush, InitiateJoin,
     UpdateFind, UpdateMessage, UpdateSave, UpdateFails, FinishReject, FinishEnd,
     InviteSave, InviteEmit, InviteFails
<1>7. Client \/ Rest \/ UNCHANGED vars => open \subseteq open'
  BY DEF Client, Rest, HandleCallInitiate, HandleCallAnswer, HandleCallReject, HandleCallEnd,
     RestCreate, PutCall, DeleteHistory, Invite, clientVars, gatewayVars, vars
<1>8. (\E r \in Sockets, u \in Users : HandleConnection(r, u)) => open \subseteq open'
  BY DEF HandleConnection
<1>9. QED
  BY <1>4, <1>5, <1>6, <1>7, <1>8 DEF Next, Connection, Restart

\* An active call keeps a connected participant or a handler that closes it.
LEMMA ActiveCallAttendedKept ==
    ASSUME Inv, [Next]_vars
    PROVE  ActiveCallAttended'
<1> SUFFICES ASSUME NEW k \in Keys, activeCalls'[k].status = "active"
             PROVE  Attended(k)' \/ Closing(k)' # {}
  BY DEF ActiveCallAttended
<1>0. Typed /\ ActiveCallAttended /\ SessionShape /\ RoutesToOwnOpenSocket
  BY DEF Inv
<1>1. /\ activeCalls \in [Keys -> Session \cup {NoSession}] /\ open \subseteq Sockets
      /\ sockUser \in [Sockets -> Users \cup {None}]
  BY <1>0 DEF Typed, TypeOK
<1>2. activeCalls'[k] # NoSession
  BY SessionDocs
<1>3. ~Crash
  BY <1>2 DEF Crash
<1>4. ASSUME activeCalls[k].status = "active",
             activeCalls[k].participants \subseteq activeCalls'[k].participants
      PROVE  Attended(k)' \/ Closing(k)' # {}
  <2>1. CASE Closing(k) # {}
    BY <1>2, <1>3, <2>1, ClosingGoesOn
  <2>2. CASE Attended(k)
    BY <1>2, <1>3, <1>4, <2>2, AttendedBefore
  <2>3. QED
    BY <1>0, <1>4, <2>1, <2>2 DEF ActiveCallAttended
<1>5. ASSUME NEW s \in Sockets, HandleCallAnswer(s, k), activeCalls[k].status # "active"
      PROVE  Attended(k)'
  <2>1. s \in open' /\ sockUser'[s] = sockUser[s] /\ sockUser[s] \in Users /\ sockUser[s] \in known[k]
    BY <1>0, <1>1, <1>5 DEF HandleCallAnswer, Offered, Typed, SocketOwned
  <2>2. sockUser[s] \in activeCalls'[k].participants
    <3>1. activeCalls'[k] = IF Live(k) THEN WithStatus(activeCalls[k], "active") ELSE MinimalSession(sockUser[s])
      BY <1>1, <1>5 DEF HandleCallAnswer
    <3>2. CASE Live(k)
      <4>1. activeCalls[k] \in Session /\ activeCalls[k].status = "ringing"
        BY <1>1, <1>5, <3>2, SessionDocs DEF Live
      <4>2. sockUser[s] \in activeCalls[k].participants
        BY <1>0, <2>1, <4>1 DEF SessionShape
      <4>3. QED
        BY <3>1, <3>2, <4>1, <4>2, SessionDocs
    <3>3. CASE ~Live(k)
      BY <2>1, <3>1, <3>3, SessionDocs
    <3>4. QED
      BY <3>2, <3>3
  <2>3. QED
    BY <2>1, <2>2 DEF Attended
<1>6. ASSUME NEW s \in Sockets, HandleCallAnswer(s, k), activeCalls[k].status = "active"
      PROVE  activeCalls[k].participants \subseteq activeCalls'[k].participants
  <2>1. activeCalls[k] \in Session /\ Live(k)
    BY <1>1, <1>6, SessionDocs DEF Live
  <2>2. activeCalls'[k] = WithStatus(activeCalls[k], "active")
    BY <1>1, <1>6, <2>1 DEF HandleCallAnswer
  <2>3. QED
    BY <2>1, <2>2, SessionDocs
<1>7. QED
  BY <1>4, <1>5, <1>6, ActiveBefore

-----------------------------------------------------------------------------
(* The call history                                                         *)

\* A record becomes one to be ended only when the gateway's call:initiate saves it.
LEMMA UnendedBefore ==
    ASSUME Inv, [Next]_vars, NEW c \in Calls, Unended(c)'
    PROVE  Unended(c) \/ \E t \in tasks : InitiateSave(t) /\ t.key[1] = c
<1>0. Typed
  BY DEF Inv
<1>1. record \in [Calls -> Record \cup {NoRecord}] /\ lost \subseteq Calls
  BY <1>0 DEF Typed, TypeOK
<1>2. c \notin lost /\ record'[c].status = "ongoing" /\ c \notin lost'
  BY <1>0, Stable DEF Unended
<1>3. record'[c] = record[c] => Unended(c)
  BY <1>2 DEF Unended
<1>4. ASSUME NEW u \in RestUsers, NEW d \in Calls, NEW us \in SUBSET Users, RestCreate(u, d, us)
      PROVE  record'[c] = record[c]
  BY <1>1, <1>2, <1>4 DEF RestCreate
<1>5. ASSUME NEW u \in RestUsers, DeleteHistory(u)
      PROVE  record'[c] = record[c]
  BY <1>1, <1>2, <1>5, RecordDocs DEF DeleteHistory
<1>6. ASSUME NEW t \in tasks, InitiateSave(t)
      PROVE  record'[c] = record[c] \/ t.key[1] = c
  BY <1>1, <1>6 DEF InitiateSave
<1>7. ASSUME NEW t \in tasks, UpdateSave(t)
      PROVE  record'[c] = record[c]
  <2>1. ASSUME t.key[1] = c, t.saves, record[c] # NoRecord
        PROVE  FALSE
    <3>1. record'[c] = WithStatus(record[c], t.status) /\ (t.status = "ongoing" => c \in lost')
      BY <1>1, <1>7, <2>1 DEF UpdateSave
    <3>2. record[c] \in Record /\ t.status \in DbStatus
      BY <1>0, <1>1, <2>1, TaskTyped
    <3>3. record'[c].status = t.status
      BY <3>1, <3>2, RecordDocs
    <3>4. QED
      BY <1>2, <3>1, <3>3
  <2>2. QED
    BY <1>1, <1>7, <2>1 DEF UpdateSave
<1>8. ASSUME NEW t \in tasks, InviteSave(t)
      PROVE  record'[c].status = record[c].status
  <2>1. CASE t.key[1] = c /\ record[c] # NoRecord
    BY <1>0, <1>1, <1>8, <2>1, TaskTyped, RecordDocs DEF InviteSave
  <2>2. CASE ~(t.key[1] = c /\ record[c] # NoRecord)
    BY <1>1, <1>8, <2>2 DEF InviteSave
  <2>3. QED
    BY <2>1, <2>2
<1>9. (\E t \in tasks : InviteSave(t)) => Unended(c)
  BY <1>2, <1>8 DEF Unended
<1>10. QED
  BY <1>3, <1>4, <1>5, <1>6, <1>7, <1>9, RecordsFrame

\* While call:initiate has yet to save the record, nothing updates it.
LEMMA SaveIsFirst ==
    ASSUME Inv, NEW t \in tasks, InitiateSave(t)
    PROVE  /\ record[t.key[1]] = NoRecord /\ messages[t.key[1]] = {}
           /\ \A x \in tasks : x.op \in UpdatingOp => x.key[1] # t.key[1]
<1>1. t.op = "initiate" /\ t.pc = "save" /\ t.key = GwKey(t.key[1]) /\ t.key[1] \in Calls
  BY InitiateAlone DEF InitiateSave
<1>2. Unsaved(t.key[1])
  BY <1>1 DEF Unsaved
<1>3. QED
  BY <1>1, <1>2 DEF Inv, UnsavedHasNoRecord

\* Before a handler removes the entry, the outcome is in the record or given up.
LEMMA OutcomeRecordedKept ==
    ASSUME Inv, [Next]_vars
    PROVE  OutcomeRecorded'
<1>0. Typed /\ TaskShape /\ OutcomeRecorded /\ UnsavedHasNoRecord
  BY DEF Inv
<1>1. record \in [Calls -> Record \cup {NoRecord}] /\ lost \subseteq Calls
  BY <1>0 DEF Typed, TypeOK
<1> DEFINE Over(x) == \/ x.op \in ClosingOp /\ x.pc = "finish"
                      \/ x.op \in UpdatingOp /\ x.pc \in {"message", "update"}
                           /\ x.status \in TerminalStatus /\ ~x.saves
<1>2. \A t \in tasks : Over(t) => ~Unended(t.key[1]) /\ t.op \in UpdatingOp
  BY <1>0 DEF OutcomeRecorded, UpdatingOp
<1>3. ASSUME NEW x \in tasks', Over(x), Unended(x.key[1])'
      PROVE  FALSE
  <2>1. CASE x \in tasks
    <3>1. x.key[1] \in Calls /\ ~Unended(x.key[1]) /\ x.op \in UpdatingOp
      BY <1>0, <1>2, <1>3, <2>1, TaskTyped
    <3>2. PICK t \in tasks : InitiateSave(t) /\ t.key[1] = x.key[1]
      BY <1>3, <3>1, UnendedBefore
    <3>3. QED
      BY <2>1, <3>1, <3>2, SaveIsFirst
  <2>2. ASSUME NEW t \in tasks, MovedOn(t, x), x \notin tasks
        PROVE  FALSE
    <3>1. /\ t \in Task /\ t.key[1] \in Calls /\ t.status \in DbStatus /\ t.saves \in BOOLEAN
          /\ x.op = t.op /\ x.key = t.key /\ x.status = t.status
      BY <1>0, <2>2, TaskTyped DEF MovedOn, Follows
    <3>2. t.op \in UpdatingOp /\ x.pc \in {"finish", "message", "update"}
      BY <1>3, <3>1 DEF UpdatingOp
    <3>3. t.op \notin {"initiate", "invite", "replay"}
      BY <3>2 DEF UpdatingOp, ClosingOp
    <3>4. t.op \in ClosingOp => t.status \in TerminalStatus
      BY <1>0 DEF TaskShape
    <3>5. x.pc # "finish" => x.status \in TerminalStatus /\ ~x.saves
      BY <1>3 DEF ClosingOp
    <3>6. x.pc = "finish" => x.op \in ClosingOp
      BY <1>3 DEF ClosingOp
    <3> DEFINE c == t.key[1]
    <3>8. Unended(c)' /\ c \in Calls
      BY <1>3, <3>1
    <3>9. c \notin lost' /\ c \notin lost /\ record'[c].status = "ongoing"
      BY <1>0, <3>8, Stable DEF Unended
    <3>10. record'[c] = record[c] => Unended(c)
      BY <3>9 DEF Unended
    <3>11. CASE UpdateFind(t)
      <4>1. record'[c] = record[c]
        BY <3>11 DEF UpdateFind, historyVars
      <4>2. record[c] # NoRecord
        BY <3>9, <4>1, RecordDocs
      <4>3. t.pc = "find" /\ ~UpdateFails(t)
        BY <3>9, <3>11 DEF UpdateFind, UpdateFails, Updating
      <4>4. /\ ~InitiateSave(t) /\ ~InitiateSet(t) /\ ~InitiateRing(t) /\ ~InitiatePush(t)
            /\ ~UpdateMessage(t) /\ ~UpdateSave(t) /\ ~InviteSave(t)
        BY <3>3, <4>3 DEF InitiateSave, InitiateSet, InitiateRing, InitiatePush, UpdateMessage, UpdateSave,
           InviteSave, Updating
      <4>5. x.saves = (record[c].status # t.status) /\ x.pc \in {"message", "update"}
        BY <1>0, <2>2, <4>2, <4>3, <4>4, Transitions
      <4>6. record[c].status = t.status /\ t.status \in TerminalStatus
        BY <3>1, <3>5, <4>5
      <4>7. QED
        BY <3>9, <4>1, <4>6 DEF TerminalStatus
    <3>12. CASE UpdateMessage(t)
      <4>1. t.pc = "message" /\ record'[c] = record[c]
        BY <3>12 DEF UpdateMessage, Updating
      <4>2. x.pc = "update" /\ x.saves = t.saves
        BY <1>0, <2>2, <3>3, <3>12, <4>1, Transitions DEF InitiateSave, InitiateSet, InitiateRing, InitiatePush,
           UpdateFind, UpdateSave, UpdateFails, InviteSave, Updating
      <4>3. QED
        BY <1>2, <3>1, <3>2, <3>5, <3>10, <4>1, <4>2
    <3>13. CASE UpdateSave(t)
      <4>1. t.pc = "update"
        BY <3>13 DEF UpdateSave, Updating
      <4>2. x.pc = "finish"
        BY <1>0, <2>2, <3>3, <3>13, <4>1, Transitions DEF InitiateSave, InitiateSet, InitiateRing, InitiatePush,
           UpdateFind, UpdateMessage, UpdateFails, InviteSave, Updating
      <4>3. t.status \in TerminalStatus
        BY <3>1, <3>4, <3>6, <4>2
      <4>4. CASE record[c] # NoRecord /\ t.saves
        <5>1. record'[c] = WithStatus(record[c], t.status) /\ record[c] \in Record
          BY <1>1, <3>8, <3>13, <4>4 DEF UpdateSave
        <5>2. record'[c].status = t.status
          BY <3>1, <5>1, RecordDocs
        <5>3. QED
          BY <3>9, <4>3, <5>2 DEF TerminalStatus
      <4>5. CASE record[c] = NoRecord
        <5>1. record'[c] = NoRecord
          BY <3>13, <4>5 DEF UpdateSave
        <5>2. QED
          BY <3>9, <5>1, RecordDocs
      <4>6. CASE record[c] # NoRecord /\ ~t.saves
        <5>1. record'[c] = record[c]
          BY <3>13, <4>6 DEF UpdateSave
        <5>2. QED
          BY <1>2, <3>2, <3>10, <4>1, <4>3, <4>6, <5>1
      <4>7. QED
        BY <4>4, <4>5, <4>6
    <3>14. CASE UpdateFails(t)
      BY <3>9, <3>14 DEF UpdateFails
    <3>15. UpdateFind(t) \/ UpdateMessage(t) \/ UpdateSave(t) \/ UpdateFails(t)
      BY <1>0, <2>2, <3>3, Transitions DEF InitiateSave, InitiateSet, InitiateRing, InitiatePush, InviteSave
    <3>16. QED
      BY <3>11, <3>12, <3>13, <3>14, <3>15
  <2>3. CASE Started(x)
    <3>1. x.pc = "find"
      BY <1>3, <2>3, StartedShape DEF UpdatingOp
    <3>2. QED
      BY <1>3, <3>1
  <2>4. QED
    BY <1>0, <2>1, <2>2, <2>3, Origins
<1>4. QED
  BY <1>3 DEF OutcomeRecorded

\* A call with a record that is to be ended becomes lost when the process ends.
LEMMA CrashLoses ==
    ASSUME Inv, NEW c \in Calls, record[c] # NoRecord, Crash
    PROVE  c \in lost'
BY LiveHasCaller DEF Crash

\* A record that is to be ended keeps the session that will end it.
LEMMA OngoingAttendedKept ==
    ASSUME Inv, [Next]_vars
    PROVE  OngoingAttended'
<1>0. Typed /\ TaskShape /\ OutcomeRecorded /\ OngoingAttended /\ UnsetIsUnknown
  BY DEF Inv
<1>1. /\ record \in [Calls -> Record \cup {NoRecord}]
      /\ activeCalls \in [Keys -> Session \cup {NoSession}]
  BY <1>0 DEF Typed, TypeOK
<1> SUFFICES ASSUME NEW c \in Calls, Unended(c)'
             PROVE  \/ activeCalls'[GwKey(c)].saved
                    \/ \E t \in tasks' : t.op = "initiate" /\ t.key = GwKey(c) /\ t.pc = "set" /\ t.saves
  BY DEF OngoingAttended
<1>2. GwKey(c) \in Keys /\ GwKey(c)[1] = c
  BY KeyFacts
<1>3. record'[c].status = "ongoing" /\ c \notin lost'
  BY DEF Unended
<1>4. ASSUME NEW t \in tasks, InitiateSave(t), t.key[1] = c
      PROVE  \E x \in tasks' : x.op = "initiate" /\ x.key = GwKey(c) /\ x.pc = "set" /\ x.saves
  <2>1. /\ t.op = "initiate" /\ t.key = GwKey(c) /\ t \in Task /\ record[c] = NoRecord
    BY <1>0, <1>4, InitiateAlone, SaveIsFirst, TaskTyped DEF InitiateSave
  <2>2. PICK b \in BOOLEAN : /\ Replace(t, Settled(t, "set", b)) /\ (~b => record' = record)
    BY <1>4 DEF InitiateSave
  <2>3. b = TRUE
    BY <1>3, <2>1, <2>2, RecordDocs
  <2>4. PICK u : Replace(t, u) /\ Follows(t, u) /\ u.pc = "set" /\ u.saves = b
    BY <2>1, <2>2, SettledMoves, Names
  <2>5. QED
    BY <2>1, <2>3, <2>4 DEF Replace, Follows
<1>5. ASSUME Unended(c)
      PROVE  record[c] # NoRecord
  BY <1>5, RecordDocs DEF Unended
<1>6. ASSUME Unended(c), activeCalls[GwKey(c)].saved
      PROVE  activeCalls'[GwKey(c)].saved
  <2>1. Live(GwKey(c)) /\ activeCalls[GwKey(c)] \in Session
    BY <1>1, <1>2, <1>6, SessionDocs DEF Live
  <2>2. CASE UNCHANGED activeCalls
    BY <1>6, <2>2
  <2>3. ~Crash
    BY <1>3, <1>5, <1>6, CrashLoses
  <2>4. ASSUME NEW s \in Sockets, HandleDisconnect(s)
        PROVE  activeCalls'[GwKey(c)].saved
    BY <1>1, <1>2, <1>6, <2>4 DEF HandleDisconnect
  <2>5. ASSUME NEW s \in Sockets, NEW k \in Keys, HandleCallAnswer(s, k)
        PROVE  activeCalls'[GwKey(c)].saved
    <3>1. CASE k = GwKey(c)
      <4>1. activeCalls'[GwKey(c)] = WithStatus(activeCalls[GwKey(c)], "active")
        BY <1>1, <1>2, <2>1, <2>5, <3>1 DEF HandleCallAnswer
      <4>2. QED
        BY <1>6, <2>1, <4>1, SessionDocs
    <3>2. QED
      BY <1>1, <1>2, <1>6, <2>5, <3>1 DEF HandleCallAnswer
  <2>6. ASSUME NEW s \in Sockets, NEW k \in Keys, HandleCallReject(s, k) \/ HandleCallEnd(s, k)
        PROVE  activeCalls'[GwKey(c)].saved
    BY <1>1, <1>2, <1>6, <2>6 DEF HandleCallReject, HandleCallEnd, RejectSession, EndSession
  <2>7. ASSUME NEW t \in tasks, InitiateSet(t)
        PROVE  activeCalls'[GwKey(c)].saved
    <3>1. t.key # GwKey(c)
      <4>1. t.key = GwKey(c) => Unset(c)
        BY <2>7 DEF InitiateSet, Unset
      <4>2. QED
        BY <1>6, <4>1, LiveHasCaller
    <3>2. QED
      BY <1>1, <1>2, <1>6, <2>7, <3>1 DEF InitiateSet
  <2>8. ASSUME NEW t \in tasks, FinishReject(t) \/ FinishEnd(t)
        PROVE  activeCalls'[GwKey(c)].saved
    <3>1. t.key # GwKey(c)
      BY <1>0, <1>2, <1>6, <2>8 DEF FinishReject, FinishEnd, OutcomeRecorded, ClosingOp
    <3>2. QED
      BY <1>1, <1>2, <1>6, <2>8, <3>1 DEF FinishReject, FinishEnd, RejectSession, EndSession
  <2>9. ASSUME NEW t \in tasks, InviteEmit(t)
        PROVE  activeCalls'[GwKey(c)].saved
    <3>1. t.key # GwKey(c)
      BY <1>0, <2>9, TaskTyped, KeyFacts DEF InviteEmit, TaskShape
    <3>2. QED
      BY <1>1, <1>2, <1>6, <2>9, <3>1 DEF InviteEmit
  <2>10. QED
    BY <2>2, <2>3, <2>4, <2>5, <2>6, <2>7, <2>8, <2>9, SessionsFrame
<1>7. ASSUME Unended(c), NEW t \in tasks, t.op = "initiate", t.key = GwKey(c), t.pc = "set", t.saves
      PROVE  t \in tasks' \/ activeCalls'[GwKey(c)].saved
  <2>1. ~Crash
    BY <1>3, <1>5, <1>7, CrashLoses
  <2>2. ASSUME Continue(t)
        PROVE  activeCalls'[GwKey(c)].saved
    <3>1. InitiateSet(t)
      BY <1>7, <2>2 DEF Continue, ReplayIncoming, ReplayFails, InitiateSave,
         InitiateRing, InitiateFails, InitiatePush, InitiateJoin, UpdateFind, UpdateMessage, UpdateSave,
         UpdateFails, FinishReject, FinishEnd, InviteSave, InviteEmit, InviteFails, Updating
    <3>2. QED
      BY <1>1, <1>2, <1>7, <3>1 DEF InitiateSet
  <2>3. QED
    BY <1>0, <2>1, <2>2, Survives
<1>8. QED
  BY <1>0, <1>4, <1>6, <1>7, UnendedBefore DEF OngoingAttended

\* An announced outcome is recorded or about to be.
LEMMA AnnouncedKept ==
    ASSUME Inv, [Next]_vars
    PROVE  AnnouncedIsRecorded'
<1>0. Typed /\ TaskShape /\ OutcomeRecorded /\ AnnouncedIsRecorded
  BY DEF Inv
<1>1. record \in [Calls -> Record \cup {NoRecord}] /\ messages \in [Calls -> SUBSET DbStatus]
  BY <1>0 DEF Typed, TypeOK
<1> SUFFICES ASSUME NEW c \in Calls, messages'[c] # {}, Unended(c)'
             PROVE  \E t \in tasks' : Updating(t, "update") /\ t.key[1] = c
  BY DEF AnnouncedIsRecorded, Unended
<1>2. record'[c].status = "ongoing" /\ c \notin lost'
  BY DEF Unended
<1>3. ASSUME NEW t \in tasks, UpdateMessage(t), t.key[1] = c
      PROVE  \E x \in tasks' : Updating(x, "update") /\ x.key[1] = c
  <2>1. t \in Task /\ t.op \in UpdatingOp
    BY <1>0, <1>3, TaskTyped DEF UpdateMessage, Updating, UpdatingOp, ClosingOp
  <2>2. PICK u : Replace(t, u) /\ Follows(t, u) /\ u.pc = "update"
    BY <1>3, <2>1, AdvanceMoves, Names DEF UpdateMessage
  <2>3. QED
    BY <1>3, <2>1, <2>2 DEF Replace, Follows, Updating, UpdatingOp, ClosingOp
<1>4. ASSUME messages[c] # {}
      PROVE  \E x \in tasks' : Updating(x, "update") /\ x.key[1] = c
  <2>1. Unended(c)
    <3>1. \A t \in tasks : InitiateSave(t) => t.key[1] # c
      BY <1>4, SaveIsFirst
    <3>2. QED
      BY <3>1, UnendedBefore
  <2>2. record[c] # NoRecord
    BY <2>1, RecordDocs DEF Unended
  <2>3. PICK t \in tasks : Updating(t, "update") /\ t.key[1] = c
    BY <1>0, <1>4, <2>1 DEF AnnouncedIsRecorded, Unended
  <2>4. ~Crash
    BY <1>2, <2>2, CrashLoses
  <2>5. ASSUME Continue(t)
        PROVE  FALSE
    <3>1. UpdateSave(t) \/ UpdateFails(t)
      BY <2>3, <2>5 DEF Continue, ReplayIncoming, ReplayFails, InitiateSave, InitiateSet,
         InitiateRing, InitiateFails, InitiatePush, InitiateJoin, UpdateFind, UpdateMessage,
         FinishReject, FinishEnd, InviteSave, InviteEmit, InviteFails, Updating
    <3>2. ~UpdateFails(t)
      BY <1>2, <2>3 DEF UpdateFails
    <3>3. t.status \in TerminalStatus
      <4>1. t.status \in DbStatus /\ t.status # "ongoing"
        BY <1>0, <1>2, <2>2, <2>3, <3>1, <3>2, TaskTyped DEF UpdateSave
      <4>2. QED
        BY <4>1 DEF DbStatus
    <3>4. CASE t.saves
      <4>1. record'[c] = WithStatus(record[c], t.status) /\ record[c] \in Record /\ t.status \in DbStatus
        BY <1>0, <1>1, <2>2, <2>3, <3>1, <3>2, <3>4, TaskTyped DEF UpdateSave
      <4>2. QED
        BY <1>2, <3>3, <4>1, RecordDocs DEF TerminalStatus
    <3>5. CASE ~t.saves
      BY <1>0, <2>1, <2>3, <3>3, <3>5 DEF OutcomeRecorded, Updating, UpdatingOp, ClosingOp
    <3>6. QED
      BY <3>4, <3>5
  <2>6. QED
    BY <1>0, <2>3, <2>4, <2>5, Survives
<1>5. QED
  <2>1. CASE UNCHANGED messages
    BY <1>4, <2>1
  <2>2. ASSUME NEW t \in tasks, UpdateMessage(t), t.key[1] # c
        PROVE  messages[c] # {}
    BY <1>1, <2>2 DEF UpdateMessage
  <2>3. QED
    BY <1>3, <1>4, <2>1, <2>2, MessagesFrame

-----------------------------------------------------------------------------
(* Who is rung                                                              *)

\* The caller is among the participants of the record.
LEMMA RecordHoldsCaller ==
    ASSUME Inv, [Next]_vars, NEW c \in Calls, record'[c] # NoRecord
    PROVE  caller'[c] # None /\ caller'[c] \in record'[c].participants
<1>0. Typed /\ InitiateOwned /\ CallerKept
  BY DEF Inv
<1>1. record \in [Calls -> Record \cup {NoRecord}] /\ caller \in [Calls -> Users \cup {None}]
  BY <1>0 DEF Typed, TypeOK
<1>2. ASSUME record[c] # NoRecord, record[c].participants \subseteq record'[c].participants
      PROVE  caller'[c] # None /\ caller'[c] \in record'[c].participants
  BY <1>0, <1>2, Stable DEF CallerKept
<1>3. ASSUME NEW u \in RestUsers, NEW d \in Calls, NEW us \in SUBSET Users, RestCreate(u, d, us)
      PROVE  caller'[c] # None /\ caller'[c] \in record'[c].participants
  <2>1. CASE d = c
    <3>1. caller'[c] = u /\ record'[c].participants = us \cup {u}
      BY <1>1, <1>3, <2>1 DEF RestCreate
    <3>2. QED
      BY <3>1, RestAssumption, NoneAssumption
  <2>2. CASE d # c
    <3>1. record'[c] = record[c]
      BY <1>1, <1>3, <2>2 DEF RestCreate
    <3>2. QED
      BY <1>2, <3>1
  <2>3. QED
    BY <2>1, <2>2
<1>4. ASSUME NEW u \in RestUsers, DeleteHistory(u)
      PROVE  record'[c] = record[c]
  BY <1>4 DEF DeleteHistory
<1>5. ASSUME NEW t \in tasks, InitiateSave(t)
      PROVE  caller'[c] # None /\ caller'[c] \in record'[c].participants
  <2>1. CASE record'[c] = record[c]
    BY <1>2, <2>1
  <2>2. CASE record'[c] # record[c]
    <3>1. t.key[1] = c /\ record'[c].participants = t.users \cup {sockUser[t.sock]}
      BY <1>1, <1>5, <2>2 DEF InitiateSave
    <3>2. caller[c] = sockUser[t.sock] /\ caller[c] # None
      BY <1>0, <1>5, <3>1, InitiateAlone DEF InitiateSave, InitiateOwned
    <3>3. QED
      BY <1>0, <3>1, <3>2, Stable
  <2>3. QED
    BY <2>1, <2>2
<1>6. ASSUME NEW t \in tasks, UpdateSave(t)
      PROVE  record[c] # NoRecord /\ record[c].participants \subseteq record'[c].participants
  <2>1. CASE record'[c] = record[c]
    BY <2>1
  <2>2. CASE record'[c] # record[c]
    <3>1. t.key[1] = c /\ record[c] \in Record /\ record'[c] = WithStatus(record[c], t.status)
      BY <1>1, <1>6, <2>2 DEF UpdateSave
    <3>2. QED
      BY <1>0, <3>1, TaskTyped, RecordDocs
  <2>3. QED
    BY <2>1, <2>2
<1>7. ASSUME NEW t \in tasks, InviteSave(t)
      PROVE  record[c] # NoRecord /\ record[c].participants \subseteq record'[c].participants
  <2>1. CASE record'[c] = record[c]
    BY <2>1
  <2>2. CASE record'[c] # record[c]
    <3>1. t.key[1] = c /\ record[c] \in Record /\ record'[c] = WithUsers(record[c], t.users)
      BY <1>1, <1>7, <2>2 DEF InviteSave
    <3>2. QED
      BY <1>0, <3>1, TaskTyped, RecordDocs
  <2>3. QED
    BY <2>1, <2>2
<1>8. QED
  BY <1>2, <1>3, <1>4, <1>5, <1>6, <1>7, RecordsFrame

\* No waiting handler is going to ring the caller.
LEMMA HandlerSparesCaller ==
    ASSUME Inv, [Next]_vars, NEW x \in tasks'
    PROVE  /\ caller'[x.key[1]] # None
           /\ x.op = "replay" => sockUser'[x.sock] # caller'[x.key[1]]
           /\ x.op = "invite" => caller'[x.key[1]] \notin x.users
<1>0. Typed /\ CallerKept /\ SessionShape
  BY DEF Inv
<1>1. /\ caller \in [Calls -> Users \cup {None}] /\ sockUser \in [Sockets -> Users \cup {None}]
  BY <1>0 DEF Typed, TypeOK
<1>2. ASSUME NEW t \in tasks
      PROVE  /\ caller'[t.key[1]] # None
             /\ t.op = "replay" => sockUser'[t.sock] # caller'[t.key[1]]
             /\ t.op = "invite" => caller'[t.key[1]] \notin t.users
  <2>1. /\ caller[t.key[1]] # None /\ t.key \in Keys /\ t.key[1] \in Calls
        /\ t.op = "replay" => sockUser[t.sock] # caller[t.key[1]]
        /\ t.op = "invite" => caller[t.key[1]] \notin t.users
    BY <1>0, TaskTyped DEF CallerKept
  <2>2. caller'[t.key[1]] = caller[t.key[1]]
    BY <1>0, <2>1, Stable
  <2>3. t.op = "replay" => sockUser'[t.sock] = sockUser[t.sock]
    BY <1>0, TaskTyped, Stable, NoneAssumption
  <2>4. QED
    BY <2>1, <2>2, <2>3
<1>3. ASSUME NEW t \in tasks, MovedOn(t, x)
      PROVE  /\ caller'[x.key[1]] # None
             /\ x.op = "replay" => sockUser'[x.sock] # caller'[x.key[1]]
             /\ x.op = "invite" => caller'[x.key[1]] \notin x.users
  BY <1>2, <1>3 DEF MovedOn, Follows
<1>4. CASE Started(x)
  <2>1. CASE x.op = "replay"
    <3>1. PICK s \in Sockets, u \in Users : HandleConnection(s, u) /\ x.sock = s /\ x.key \in PendingFor(u)
      BY <1>4, <2>1 DEF Started
    <3>2. /\ x.key \in Keys /\ activeCalls[x.key].status = "ringing" /\ activeCalls[x.key].initiator # u
      BY <3>1 DEF PendingFor
    <3>3. activeCalls[x.key].initiator = caller[x.key[1]] /\ x.key = GwKey(x.key[1]) /\ x.key[1] \in Calls
      BY <1>0, <3>2, KeyFacts DEF SessionShape
    <3>4. caller[x.key[1]] # None
      BY <3>2, <3>3, LiveHasCaller
    <3>5. sockUser'[s] = u /\ caller' = caller
      BY <1>1, <3>1 DEF HandleConnection, historyVars
    <3>6. QED
      BY <2>1, <3>1, <3>2, <3>3, <3>4, <3>5
  <2>2. CASE x.op \in ClosingOp
    <3>1. activeCalls[x.key].saved /\ x.key = GwKey(x.key[1]) /\ x.key[1] \in Calls
      BY <1>4, <2>2, StartedShape, KeyFacts
    <3>2. caller[x.key[1]] # None
      BY <3>1, LiveHasCaller
    <3>3. caller'[x.key[1]] # None
      BY <1>0, <3>1, <3>2, Stable
    <3>4. QED
      BY <2>2, <3>3 DEF ClosingOp
  <2>3. CASE x.op = "initiate"
    <3>1. PICK s \in Sockets, c \in Calls, us \in SUBSET Users : HandleCallInitiate(s, c, us) /\ x.key = GwKey(c)
      BY <1>4, <2>3 DEF Started
    <3>2. x.key[1] = c /\ caller'[c] = sockUser[s] /\ sockUser[s] # None
      BY <1>0, <1>1, <3>1, KeyFacts DEF HandleCallInitiate, Typed, SocketOwned
    <3>3. QED
      BY <2>3, <3>2
  <2>4. CASE x.op \in {"put", "invite"}
    <3>1. record[x.key[1]] # NoRecord /\ x.key[1] \in Calls
      BY <1>4, <2>4, StartedShape, KeyFacts
    <3>2. caller[x.key[1]] # None /\ caller[x.key[1]] \in record[x.key[1]].participants
      BY <1>0, <3>1 DEF CallerKept
    <3>3. caller'[x.key[1]] = caller[x.key[1]]
      BY <1>0, <3>1, <3>2, Stable
    <3>4. ASSUME x.op = "invite"
          PROVE  x.users \cap record[x.key[1]].participants = {}
      <4>1. PICK c \in Calls, us \in SUBSET Users : x.key = DbKey(c) /\ x.users = us \ record[c].participants
        BY <1>4, <3>4 DEF Started
      <4>2. QED
        BY <4>1, KeyFacts
    <3>5. QED
      BY <2>4, <3>2, <3>3, <3>4
  <2>5. QED
    BY <1>4, <2>1, <2>2, <2>3, <2>4, StartedShape
<1>5. QED
  BY <1>0, <1>2, <1>3, <1>4, Origins

\* A device that rings, rang before or is rung by one of three handlers.
LEMMA RingingFrame ==
    ASSUME [Next]_vars
    PROVE  \/ ringing' \subseteq ringing
           \/ \E t \in tasks : ReplayIncoming(t) \/ InitiateRing(t) \/ InviteEmit(t)
<1>1. ASSUME NEW t \in tasks, Continue(t)
      PROVE  ringing' \subseteq ringing \/ ReplayIncoming(t) \/ InitiateRing(t) \/ InviteEmit(t)
  BY <1>1 DEF Continue, ReplayFails, Crash, clientVars, InitiateSave, InitiateSet, InitiateFails,
     InitiatePush, InitiateJoin, UpdateFind, UpdateMessage, UpdateSave, UpdateFails,
     FinishReject, FinishEnd, RejectSession, EndSession, InviteSave, InviteFails
<1>2. CASE Connection
  BY <1>2 DEF Connection, HandleConnection, HandleDisconnect
<1>3. CASE Client
  BY <1>3 DEF Client, HandleCallInitiate, HandleCallAnswer, HandleCallReject, HandleCallEnd,
     RejectSession, EndSession, clientVars
<1>4. CASE Rest
  BY <1>4 DEF Rest, RestCreate, PutCall, DeleteHistory, Invite, clientVars
<1>5. CASE UNCHANGED vars \/ Restart
  BY <1>5 DEF vars, Restart, Crash
<1>6. QED
  BY <1>1, <1>2, <1>3, <1>4, <1>5 DEF Next

\* So it stays.
LEMMA CallerKeptKept ==
    ASSUME Inv, [Next]_vars
    PROVE  CallerKept'
BY RecordHoldsCaller, HandlerSparesCaller DEF CallerKept

\* Only a call:initiate that names the caller rings the caller.
LEMMA CallerRung ==
    ASSUME Inv, [Next]_vars, NEW r \in ringing' \ ringing, sockUser[r[1]] = caller[r[2][1]]
    PROVE  \E t \in tasks : t.op = "initiate" /\ t.key = r[2] /\ sockUser[r[1]] \in t.users
<1>0. Typed /\ CallerKept /\ RoutesToOwnOpenSocket
  BY DEF Inv
<1>1. ASSUME NEW t \in tasks, ReplayIncoming(t)
      PROVE  FALSE
  <2>1. r = <<t.sock, t.key>> /\ t.op = "replay" /\ t.key \in Keys
    BY <1>0, <1>1, TaskTyped DEF ReplayIncoming
  <2>2. sockUser[t.sock] # caller[t.key[1]]
    BY <1>0, <2>1 DEF CallerKept
  <2>3. QED
    BY <2>1, <2>2
<1>2. ASSUME NEW t \in tasks, InitiateRing(t) \/ InviteEmit(t)
      PROVE  \E u \in tasks : u.op = "initiate" /\ u.key = r[2] /\ sockUser[r[1]] \in u.users
  <2>1. PICK p \in t.users : connectedUsers[p] # None /\ r = <<connectedUsers[p], t.key>>
    BY <1>2 DEF InitiateRing, InviteEmit
  <2>2. t.key \in Keys /\ p \in Users
    BY <1>0, <2>1, TaskTyped
  <2>3. sockUser[r[1]] = p /\ r[2] = t.key
    BY <1>0, <2>1, <2>2 DEF RoutesToOwnOpenSocket
  <2>4. CASE InitiateRing(t)
    BY <2>3, <2>4 DEF InitiateRing
  <2>5. CASE InviteEmit(t)
    <3>1. caller[t.key[1]] \notin t.users
      BY <1>0, <2>2, <2>5 DEF InviteEmit, CallerKept
    <3>2. QED
      BY <2>3, <3>1
  <2>6. QED
    BY <1>2, <2>4, <2>5
<1>3. QED
  BY <1>1, <1>2, RingingFrame

-----------------------------------------------------------------------------
(* The invariant and what follows from it                                   *)

\* The invariant holds initially.
LEMMA InitInv == Init => Inv
<1> SUFFICES ASSUME Init
             PROVE  Inv
  OBVIOUS
<1>1. Typed /\ RoutesToOwnOpenSocket
  BY DEF Init, Typed, TypeOK, SocketOwned, Keys, RoutesToOwnOpenSocket
<1>2. /\ \A c \in Calls : record[c] = NoRecord /\ messages[c] = {}
      /\ \A k \in Keys : activeCalls[k] = NoSession /\ known[k] = {}
      /\ tasks = {} /\ ringing = {}
  BY DEF Init
<1>3. TaskShape /\ InitiateOwned /\ OutcomeRecorded
  BY <1>2 DEF TaskShape, InitiateOwned, OutcomeRecorded
<1>4. UnsetIsUnknown /\ UnsavedHasNoRecord
  BY <1>2, KeyFacts DEF UnsetIsUnknown, UnsavedHasNoRecord
<1>5. SessionShape /\ ActiveCallAttended
  BY <1>2, SessionDocs DEF SessionShape, ActiveCallAttended
<1>6. OngoingAttended /\ AnnouncedIsRecorded
  BY <1>2, RecordDocs DEF OngoingAttended, AnnouncedIsRecorded, Unended
<1>7. CallerKept
  BY <1>2 DEF CallerKept
<1>8. QED
  BY <1>1, <1>3, <1>4, <1>5, <1>6, <1>7 DEF Inv

\* Every step keeps the invariant.
LEMMA NextInv ==
    ASSUME Inv, [Next]_vars
    PROVE  Inv'
<1>1. Typed'
  BY TasksTyped, OthersTyped, SessionsTyped, RecordsTyped DEF Inv, Typed, TypeOK, OthersOK
<1>2. RoutesToOwnOpenSocket'
  BY RoutesKept DEF Inv
<1>3. TaskShape' /\ InitiateOwned'
  BY TaskShapeKept, InitiateOwnedKept
<1>4. UnsetIsUnknown' /\ UnsavedHasNoRecord'
  BY UnsetIsUnknownKept, UnsavedHasNoRecordKept
<1>5. SessionShape' /\ ActiveCallAttended'
  BY SessionShapeKept, ActiveCallAttendedKept
<1>6. OutcomeRecorded' /\ OngoingAttended' /\ AnnouncedIsRecorded'
  BY OutcomeRecordedKept, OngoingAttendedKept, AnnouncedKept
<1>7. CallerKept'
  BY CallerKeptKept
<1>8. QED
  BY <1>1, <1>2, <1>3, <1>4, <1>5, <1>6, <1>7 DEF Inv

\* The invariant is inductive.
THEOREM Invariance == Spec => []Inv
<1>1. Inv /\ [Next]_vars => Inv'
  BY NextInv
<1>2. QED
  BY InitInv, <1>1, PTL DEF Spec

\* handleDisconnect leaves no answered call behind: an active call has a
\* participant connected, or a handler that is about to remove it.
THEOREM ActiveCallsAttended == Spec => []ActiveCallAttended
<1>1. Inv => ActiveCallAttended
  BY DEF Inv
<1>2. QED
  BY Invariance, <1>1, PTL

\* No record is left at "ongoing" by the gateway: as long as it may be held to
\* the record, the gateway still has the session that will end it.
THEOREM NoneStuckOngoing == Spec => []NoStuckOngoing
<1>1. Inv => NoStuckOngoing
  <2> SUFFICES ASSUME Inv, NEW c \in Calls, Unended(c)
               PROVE  \/ Live(GwKey(c)) /\ activeCalls[GwKey(c)].saved
                      \/ \E t \in tasks : t.op = "initiate" /\ t.key = GwKey(c) /\ t.pc = "set"
    BY DEF NoStuckOngoing, Unended
  <2>1. activeCalls[GwKey(c)].saved => Live(GwKey(c))
    BY SessionDocs DEF Live
  <2>2. QED
    BY <2>1 DEF Inv, OngoingAttended
<1>2. QED
  BY Invariance, <1>1, PTL

\* An outcome that the conversation was told is in the record, or is still to be
\* saved by the handler that announced it.
THEOREM OutcomesRecorded == Spec => []AnnouncedIsRecorded
<1>1. Inv => AnnouncedIsRecorded
  BY DEF Inv
<1>2. QED
  BY Invariance, <1>1, PTL

\* A device of the caller rings for the caller's own call only because the request
\* that started the call named the caller.
THEOREM CallersRingIfNamed == Spec => CallerRingsOnlyIfNamed
<1>1. Inv /\ [Next]_vars =>
        [\A r \in ringing' \ ringing : sockUser[r[1]] = caller[r[2][1]] =>
            \E t \in tasks : t.op = "initiate" /\ t.key = r[2] /\ sockUser[r[1]] \in t.users]_vars
  BY CallerRung
<1>2. QED
  BY Invariance, <1>1, PTL DEF Spec, CallerRingsOnlyIfNamed

-----------------------------------------------------------------------------
(* The collection implements CallHistory                                    *)

\* A PUT under way writes a status that clients write.
PutsAllowed == \A t \in tasks : t.op = "put" => t.status \in RestStatuses

HistoryInv == Inv /\ PutsAllowed

\* At first no handler waits.
LEMMA HistoryInvInit == Init => HistoryInv
  BY InitInv DEF Init, HistoryInv, PutsAllowed

\* A handler keeps the users and the status it was started with.
LEMMA HistoryInvStep == HistoryInv /\ [Next]_vars => HistoryInv'
<1> SUFFICES ASSUME HistoryInv, [Next]_vars
             PROVE  HistoryInv'
  OBVIOUS
<1>0. Typed /\ Inv'
  BY NextInv DEF HistoryInv, Inv
<1>1. ASSUME NEW x \in tasks'
      PROVE  x.op = "put" => x.status \in RestStatuses
  <2>1. CASE x \in tasks
    BY <2>1 DEF HistoryInv, PutsAllowed
  <2>2. ASSUME NEW t \in tasks, MovedOn(t, x)
        PROVE  x.op = "put" => x.status \in RestStatuses
    BY <2>2 DEF HistoryInv, PutsAllowed, MovedOn, Follows
  <2>3. CASE Started(x)
    BY <2>3 DEF Started
  <2>4. QED
    BY <1>0, <2>1, <2>2, <2>3, Origins
<1>2. QED
  BY <1>0, <1>1 DEF HistoryInv, PutsAllowed

\* The state of a call, case by case.
LEMMA HistoryCases ==
    ASSUME Typed, NEW c \in Calls
    PROVE  /\ record[c].status = "ongoing" => HistoryState(c) = "ongoing"
           /\ record[c].status \in TerminalStatus => HistoryState(c) = "over"
           /\ record[c] = NoRecord /\ caller[c] = None => HistoryState(c) = "new"
           /\ record[c] = NoRecord /\ caller[c] # None /\ Starting(c) => HistoryState(c) = "starting"
           /\ record[c] = NoRecord /\ caller[c] # None /\ ~Starting(c) => HistoryState(c) = "gone"
           /\ record[c] # NoRecord => record[c].status \in DbStatus
<1>1. record[c] \in Record \cup {NoRecord}
  BY DEF Typed, TypeOK
<1>2. record[c] # NoRecord => record[c].status \in DbStatus
  BY <1>1, RecordDocs
<1>3. "ongoing" \notin TerminalStatus /\ "absent" \notin DbStatus /\ "ongoing" \in DbStatus
      /\ TerminalStatus \subseteq DbStatus
  BY DEF TerminalStatus, DbStatus
<1>4. QED
  BY <1>2, <1>3, RecordDocs DEF HistoryState

\* The same after a step.
LEMMA HistoryCasesAfter ==
    ASSUME Typed', NEW c \in Calls
    PROVE  /\ record'[c].status = "ongoing" => HistoryState(c)' = "ongoing"
           /\ record'[c].status \in TerminalStatus => HistoryState(c)' = "over"
           /\ record'[c] = NoRecord /\ caller'[c] = None => HistoryState(c)' = "new"
           /\ record'[c] = NoRecord /\ caller'[c] # None /\ Starting(c)' => HistoryState(c)' = "starting"
           /\ record'[c] = NoRecord /\ caller'[c] # None /\ ~Starting(c)' => HistoryState(c)' = "gone"
           /\ record'[c] # NoRecord => record'[c].status \in DbStatus
<1>1. record'[c] \in Record \cup {NoRecord}
  BY DEF Typed, TypeOK
<1>2. record'[c] # NoRecord => record'[c].status \in DbStatus
  BY <1>1, RecordDocs
<1>3. "ongoing" \notin TerminalStatus /\ "absent" \notin DbStatus /\ "ongoing" \in DbStatus
      /\ TerminalStatus \subseteq DbStatus
  BY DEF TerminalStatus, DbStatus
<1>4. QED
  BY <1>2, <1>3, RecordDocs DEF HistoryState

\* The steps that give a call its caller.
LEMMA CallersFrame ==
    ASSUME [Next]_vars
    PROVE  \/ UNCHANGED caller
           \/ \E s \in Sockets, c \in Calls, us \in SUBSET Users : HandleCallInitiate(s, c, us)
           \/ \E u \in RestUsers, c \in Calls, us \in SUBSET Users : RestCreate(u, c, us)
<1>1. ASSUME NEW t \in tasks, Continue(t)
      PROVE  UNCHANGED caller
  BY <1>1 DEF Continue, ReplayFails, Crash, historyVars, ReplayIncoming, InitiateSave, InitiateSet,
     InitiateRing, InitiateFails, InitiatePush, InitiateJoin, UpdateFind, UpdateMessage, UpdateSave,
     UpdateFails, FinishReject, FinishEnd, InviteSave, InviteEmit, InviteFails
<1>2. CASE Connection
  BY <1>2 DEF Connection, HandleConnection, HandleDisconnect, historyVars
<1>3. ASSUME NEW s \in Sockets, NEW k \in Keys,
             HandleCallAnswer(s, k) \/ HandleCallReject(s, k) \/ HandleCallEnd(s, k)
      PROVE  UNCHANGED caller
  BY <1>3 DEF HandleCallAnswer, HandleCallReject, HandleCallEnd, historyVars
<1>4. ASSUME NEW u \in RestUsers, NEW c \in Calls, NEW st \in RestStatuses, PutCall(u, c, st)
      PROVE  UNCHANGED caller
  BY <1>4 DEF PutCall, historyVars
<1>5. ASSUME NEW u \in RestUsers, DeleteHistory(u)
      PROVE  UNCHANGED caller
  BY <1>5 DEF DeleteHistory
<1>6. ASSUME NEW u \in RestUsers, NEW c \in Calls, NEW us \in SUBSET Users, Invite(u, c, us)
      PROVE  UNCHANGED caller
  BY <1>6 DEF Invite, historyVars
<1>7. CASE UNCHANGED vars \/ Restart
  BY <1>7 DEF vars, Restart, Crash
<1>8. QED
  BY <1>1, <1>2, <1>3, <1>4, <1>5, <1>6, <1>7 DEF Next, Client, Rest

\* A call that is starting was so before, or has just got its caller.
LEMMA StartingBefore ==
    ASSUME Inv, [Next]_vars, NEW c \in Calls, Starting(c)', ~Starting(c)
    PROVE  caller[c] = None /\ caller'[c] # None
<1>0. Typed /\ sockUser \in [Sockets -> Users \cup {None}] /\ caller \in [Calls -> Users \cup {None}]
  BY DEF Inv, Typed, TypeOK
<1>1. PICK x \in tasks' : x.op = "initiate" /\ x.pc = "save" /\ x.key = GwKey(c)
  BY DEF Starting
<1>2. x \notin tasks
  BY <1>1 DEF Starting
<1>3. ASSUME NEW t \in tasks, MovedOn(t, x)
      PROVE  FALSE
  BY <1>0, <1>1, <1>2, <1>3, Transitions
<1>4. Started(x)
  BY <1>0, <1>2, <1>3, Origins
<1>5. PICK s \in Sockets, d \in Calls, us \in SUBSET Users :
          HandleCallInitiate(s, d, us) /\ x.key = GwKey(d)
  BY <1>1, <1>4 DEF Started
<1>6. d = c
  BY <1>1, <1>5, KeyFacts
<1>7. s \in open /\ sockUser[s] # None
  BY <1>0, <1>5 DEF HandleCallInitiate, Typed, SocketOwned
<1>8. QED
  BY <1>0, <1>5, <1>6, <1>7 DEF HandleCallInitiate

\* A call goes on starting until its record is saved or the process ends.
LEMMA StillStarting ==
    ASSUME Inv, [Next]_vars, NEW c \in Calls, Starting(c), ~Crash, \A t \in tasks : ~InitiateSave(t)
    PROVE  Starting(c)'
<1>1. PICK t \in tasks : t.op = "initiate" /\ t.pc = "save" /\ t.key = GwKey(c)
  BY DEF Starting
<1>2. ~Continue(t)
  BY <1>1 DEF Continue, ReplayFails, ReplayIncoming, InitiateSet, InitiateRing, InitiateFails,
     InitiatePush, InitiateJoin, UpdateFind, UpdateMessage, UpdateSave, UpdateFails, Updating,
     FinishReject, FinishEnd, InviteSave, InviteEmit, InviteFails
<1>3. t \in tasks'
  BY <1>2, Survives DEF Inv
<1>4. QED
  BY <1>1, <1>3 DEF Starting

\* A call that is starting has a caller and no record.
LEMMA StartingFacts ==
    ASSUME Inv, NEW c \in Calls, Starting(c)
    PROVE  caller[c] # None /\ record[c] = NoRecord
<1>1. PICK t \in tasks : t.op = "initiate" /\ t.pc = "save" /\ t.key = GwKey(c)
  BY DEF Starting
<1>2. Unsaved(c)
  BY <1>1 DEF Unsaved
<1>3. QED
  BY <1>1, <1>2, InitiateAlone, KeyFacts DEF Inv, UnsavedHasNoRecord

\* What is seen of a call remains as it was.
SameCall(c) == HistoryState(c)' = HistoryState(c) /\ record'[c].participants = record[c].participants
OthersSame(c) == \A d \in Calls \ {c} : SameCall(d)

\* It remains so if its record, its caller and its start do.
LEMMA QuietCall ==
    ASSUME Inv, Inv', [Next]_vars, NEW c \in Calls, record'[c] = record[c], caller'[c] = caller[c],
           Starting(c) => Starting(c)'
    PROVE  SameCall(c)
<1>1. Starting(c)' <=> Starting(c)
  BY StartingBefore
<1>2. Typed /\ Typed'
  BY DEF Inv
<1>3. QED
  BY <1>1 DEF SameCall, HistoryState

\* The steps of CallHistory, call by call, in terms of the gateway.
HistoryStep(c) ==
    /\ OthersSame(c)
    /\ \/ HistoryState(c) = "new" /\ HistoryState(c)' = "starting" /\ record'[c].participants = {}
       \/ /\ HistoryState(c) \in {"new", "starting"} /\ HistoryState(c)' = "ongoing"
          /\ record'[c].participants # {}
       \/ /\ HistoryState(c) \in {"ongoing", "over"} /\ HistoryState(c)' = HistoryState(c)
          /\ record[c].participants \subseteq record'[c].participants
       \/ /\ HistoryState(c) = "ongoing" /\ HistoryState(c)' = "over"
          /\ record'[c].participants = record[c].participants
       \/ /\ HistoryState(c) = "over" /\ HistoryState(c)' = "ongoing"
          /\ record'[c].participants = record[c].participants /\ "ongoing" \in RestStatuses

\* Such a step is one of CallHistory.
LEMMA HistoryStepIsStep ==
    ASSUME NEW c \in Calls, HistoryStep(c)
    PROVE  History!Next
<1>1. \A d \in Calls \ {c} : HistoryState(d)' = HistoryState(d) /\ record'[d].participants = record[d].participants
  BY DEF HistoryStep, OthersSame, SameCall
<1>2. ASSUME NEW from, NEW to, HistoryState(c) \in from, HistoryState(c)' = to
      PROVE  History!Moves(c, from, to)
  BY <1>1, <1>2 DEF History!Moves
<1>3. History!Extend(c) \/ History!Begin(c) \/ History!Log(c) \/ History!Settle(c) \/ History!Reopen(c)
  BY <1>2 DEF HistoryStep, History!Extend, History!Begin, History!Log, History!Settle, History!Reopen
<1>4. QED
  BY <1>3 DEF History!Next

\* So is one that takes calls that are starting away, and changes no record.
LEMMA AbortIsStep ==
    ASSUME NEW cs \in SUBSET Calls, cs # {}, UNCHANGED record,
           \A c \in cs : HistoryState(c) = "starting",
           \A c \in Calls : HistoryState(c)' = IF c \in cs THEN "gone" ELSE HistoryState(c)
    PROVE  History!Next
<1>1. History!Abort(cs)
  BY DEF History!Abort
<1>2. \E ds \in SUBSET Calls : ds # {} /\ History!Abort(ds)
  BY <1>1
<1>3. QED
  BY <1>2 DEF History!Next

\* call:initiate makes a call start.
LEMMA InitiateIsStep ==
    ASSUME Inv, Inv', [Next]_vars, \A d \in Calls : Starting(d) => Starting(d)',
           NEW s \in Sockets, NEW c \in Calls, NEW us \in SUBSET Users, HandleCallInitiate(s, c, us)
    PROVE  HistoryStep(c)
<1>0. Typed /\ Typed' /\ caller \in [Calls -> Users \cup {None}]
  BY DEF Inv, Typed, TypeOK
<1>1. /\ caller[c] = None /\ caller' = [caller EXCEPT ![c] = sockUser[s]] /\ record' = record
      /\ sockUser[s] # None
      /\ tasks' = tasks \cup {NewTask("initiate", "save", s, GwKey(c), "ongoing", us)}
  BY <1>0 DEF HandleCallInitiate, Typed, SocketOwned
<1>2. record[c] = NoRecord
  BY <1>1 DEF Inv, UnsavedHasNoRecord, Unsaved
<1>3. caller'[c] # None /\ \A d \in Calls \ {c} : caller'[d] = caller[d]
  BY <1>0, <1>1
<1>4. Starting(c)'
  <2> DEFINE x == NewTask("initiate", "save", s, GwKey(c), "ongoing", us)
  <2>1. x.op = "initiate" /\ x.pc = "save" /\ x.key = GwKey(c)
    BY DEF NewTask
  <2>2. x \in tasks'
    BY <1>1
  <2>3. QED
    BY <2>1, <2>2 DEF Starting
<1>5. HistoryState(c) = "new" /\ HistoryState(c)' = "starting" /\ record'[c].participants = {}
  BY <1>0, <1>1, <1>2, <1>3, <1>4, HistoryCases, HistoryCasesAfter, RecordDocs
<1>6. OthersSame(c)
  BY <1>1, <1>3, QuietCall DEF OthersSame
<1>7. QED
  BY <1>5, <1>6 DEF HistoryStep

\* POST /calls logs a call that was not started.
LEMMA CreateIsStep ==
    ASSUME Inv, Inv', [Next]_vars, \A d \in Calls : Starting(d) => Starting(d)',
           NEW u \in RestUsers, NEW c \in Calls, NEW us \in SUBSET Users, RestCreate(u, c, us)
    PROVE  HistoryStep(c)
<1>0. /\ Typed /\ Typed' /\ caller \in [Calls -> Users \cup {None}]
      /\ record \in [Calls -> Record \cup {NoRecord}]
  BY DEF Inv, Typed, TypeOK
<1>1. /\ caller[c] = None
      /\ \A d \in Calls \ {c} : caller'[d] = caller[d] /\ record'[d] = record[d]
      /\ record'[c] = [status |-> "ongoing", participants |-> us \cup {u}]
  BY <1>0 DEF RestCreate
<1>2. record[c] = NoRecord
  BY <1>1 DEF Inv, UnsavedHasNoRecord, Unsaved
<1>3. HistoryState(c) = "new" /\ HistoryState(c)' = "ongoing"
  BY <1>0, <1>1, <1>2, HistoryCases, HistoryCasesAfter
<1>4. record'[c].participants # {}
  BY <1>1
<1>5. OthersSame(c)
  BY <1>1, QuietCall DEF OthersSame
<1>6. QED
  BY <1>3, <1>4, <1>5 DEF HistoryStep

\* The record of a call that starts is saved.
LEMMA SaveIsStep ==
    ASSUME HistoryInv, Inv', [Next]_vars, NEW t \in tasks, InitiateSave(t)
    PROVE  History!Next
<1> DEFINE c == t.key[1]
<1>0. /\ Inv /\ Typed /\ Typed' /\ record \in [Calls -> Record \cup {NoRecord}] /\ t \in Task
      /\ t.op = "initiate" /\ t.pc = "save" /\ c \in Calls /\ t.key = GwKey(c)
  BY TaskTyped, InitiateAlone DEF HistoryInv, Inv, Typed, TypeOK, InitiateSave
<1>1. Starting(c)
  BY <1>0 DEF Starting
<1>2. caller[c] # None /\ record[c] = NoRecord /\ HistoryState(c) = "starting" /\ caller' = caller
  BY <1>0, <1>1, StartingFacts, HistoryCases DEF InitiateSave
<1>3. ~Starting(c)'
  BY <1>0, SetOnce DEF Starting, Unsaved
<1>4. ASSUME NEW d \in Calls \ {c}
      PROVE  SameCall(d)
  <2>1. record'[d] = record[d]
    BY <1>0 DEF InitiateSave
  <2>2. \A x \in tasks : x.key = GwKey(d) => x \in tasks'
    BY <1>0, KeyFacts DEF InitiateSave, Replace
  <2>3. Starting(d) => Starting(d)'
    BY <2>2 DEF Starting
  <2>4. QED
    BY <1>0, <1>2, <2>1, <2>3, QuietCall
<1>5. CASE record' = record
  <2>1. HistoryState(c)' = "gone"
    BY <1>0, <1>2, <1>3, <1>5, HistoryCasesAfter
  <2>2. \A d \in Calls : HistoryState(d)' = IF d \in {c} THEN "gone" ELSE HistoryState(d)
    BY <1>4, <2>1 DEF SameCall
  <2> HIDE DEF c
  <2>3. {c} \in SUBSET Calls /\ {c} # {}
    BY <1>0
  <2>4. QED
    BY <1>2, <1>5, <2>2, <2>3, AbortIsStep
<1>6. CASE record' # record
  <2>1. record'[c] = [status |-> "ongoing", participants |-> t.users \cup {sockUser[t.sock]}]
    BY <1>0, <1>6 DEF InitiateSave
  <2>2. HistoryState(c)' = "ongoing"
    BY <1>0, <2>1, HistoryCasesAfter
  <2>3. record'[c].participants # {}
    BY <2>1
  <2>4. HistoryStep(c)
    BY <1>2, <1>4, <2>2, <2>3 DEF HistoryStep, OthersSame
  <2>5. QED
    BY <1>0, <2>4, HistoryStepIsStep
<1>7. QED
  BY <1>5, <1>6

\* CallsService.update settles a call, reopens one by a PUT, or changes nothing seen.
LEMMA UpdateIsStep ==
    ASSUME HistoryInv, Inv', [Next]_vars, \A d \in Calls : Starting(d) => Starting(d)',
           NEW t \in tasks, UpdateSave(t), record' # record
    PROVE  \E c \in Calls : HistoryStep(c)
<1> DEFINE c == t.key[1]
<1>0. /\ Inv /\ Typed /\ Typed' /\ record \in [Calls -> Record \cup {NoRecord}] /\ t \in Task
      /\ c \in Calls /\ t.status \in DbStatus
  BY TaskTyped DEF HistoryInv, Inv, Typed, TypeOK
<1>1. /\ record[c] # NoRecord /\ record[c] \in Record
      /\ record' = [record EXCEPT ![c] = WithStatus(@, t.status)] /\ caller' = caller
  BY <1>0 DEF UpdateSave
<1>2. record'[c].status = t.status /\ record'[c].participants = record[c].participants
      /\ record[c].status \in DbStatus
  BY <1>0, <1>1, RecordDocs
<1>3. OthersSame(c)
  <2>1. \A d \in Calls \ {c} : record'[d] = record[d]
    BY <1>0, <1>1
  <2>2. QED
    BY <1>0, <1>1, <2>1, QuietCall DEF OthersSame
<1>4. t.status = "ongoing" => "ongoing" \in RestStatuses
  <2>1. t.op \in ClosingOp \/ t.op = "put"
    BY DEF UpdateSave, Updating, ClosingOp
  <2>2. "ongoing" \notin TerminalStatus
    BY DEF TerminalStatus
  <2>3. QED
    BY <1>0, <2>1, <2>2 DEF HistoryInv, Inv, TaskShape, PutsAllowed
<1>5. \A st \in DbStatus : st = "ongoing" \/ st \in TerminalStatus
  BY DEF DbStatus
<1>6. HistoryState(c) \in {"ongoing", "over"} /\ HistoryState(c)' \in {"ongoing", "over"}
      /\ (HistoryState(c)' = "ongoing" => t.status = "ongoing")
  BY <1>0, <1>2, <1>5, HistoryCases, HistoryCasesAfter
<1>7. QED
  BY <1>0, <1>2, <1>3, <1>4, <1>6 DEF HistoryStep

\* An invitation adds participants.
LEMMA InviteIsStep ==
    ASSUME HistoryInv, Inv', [Next]_vars, \A d \in Calls : Starting(d) => Starting(d)',
           NEW t \in tasks, InviteSave(t), record' # record
    PROVE  \E c \in Calls : HistoryStep(c)
<1> DEFINE c == t.key[1]
<1>0. /\ Inv /\ Typed /\ Typed' /\ record \in [Calls -> Record \cup {NoRecord}] /\ t \in Task
      /\ c \in Calls /\ t.users \in SUBSET Users
  BY TaskTyped DEF HistoryInv, Inv, Typed, TypeOK
<1>1. /\ record[c] # NoRecord /\ record[c] \in Record
      /\ record' = [record EXCEPT ![c] = WithUsers(@, t.users)] /\ caller' = caller
  BY <1>0 DEF InviteSave
<1>2. /\ record'[c].status = record[c].status /\ record[c].status \in DbStatus
      /\ record'[c].participants = record[c].participants \cup t.users
  BY <1>0, <1>1, RecordDocs
<1>3. OthersSame(c)
  <2>1. \A d \in Calls \ {c} : record'[d] = record[d]
    BY <1>0, <1>1
  <2>2. QED
    BY <1>0, <1>1, <2>1, QuietCall DEF OthersSame
<1>4. \A st \in DbStatus : st = "ongoing" \/ st \in TerminalStatus
  BY DEF DbStatus
<1>5. HistoryState(c) \in {"ongoing", "over"} /\ HistoryState(c)' = HistoryState(c)
  BY <1>0, <1>2, <1>4, HistoryCases, HistoryCasesAfter
<1>6. QED
  BY <1>0, <1>2, <1>3, <1>5 DEF HistoryStep

\* DELETE /calls/history takes the calls of a user away from all of them.
LEMMA DeleteIsStep ==
    ASSUME Inv, Inv', [Next]_vars, \A d \in Calls : Starting(d) => Starting(d)',
           NEW u \in RestUsers, DeleteHistory(u)
    PROVE  History!Erase(u)
<1>0. Typed /\ Typed'
  BY DEF Inv
<1>1. /\ \E c \in Calls : u \in record[c].participants
      /\ \A c \in Calls : record'[c] = IF u \in record[c].participants THEN NoRecord ELSE record[c]
      /\ caller' = caller /\ tasks' = tasks
  BY DEF DeleteHistory
<1>2. \A c \in Calls : Starting(c)' <=> Starting(c)
  BY <1>1 DEF Starting
<1>3. ASSUME NEW c \in Calls
      PROVE  /\ HistoryState(c)' = IF u \in record[c].participants THEN "gone" ELSE HistoryState(c)
             /\ record'[c].participants =
                   IF u \in record[c].participants THEN {} ELSE record[c].participants
  <2>1. CASE u \in record[c].participants
    <3>1. record[c] # NoRecord
      BY <2>1, RecordDocs
    <3>2. caller[c] # None /\ ~Starting(c)
      BY <3>1, StartingFacts DEF Inv, CallerKept
    <3>3. record'[c] = NoRecord /\ caller'[c] # None /\ ~Starting(c)'
      BY <1>1, <1>2, <2>1, <3>2
    <3>4. QED
      BY <1>0, <2>1, <3>3, HistoryCasesAfter, RecordDocs
  <2>2. CASE u \notin record[c].participants
    BY <1>1, <2>2, QuietCall DEF SameCall
  <2>3. QED
    BY <2>1, <2>2
<1>4. QED
  BY <1>1, <1>3 DEF History!Erase

\* With the process end the handlers that were to save a record.
LEMMA CrashIsStep ==
    ASSUME Inv, Inv', Crash
    PROVE  History!Next \/ UNCHANGED History!vars
<1>0. Typed /\ Typed' /\ UNCHANGED <<record, caller>> /\ \A c \in Calls : ~Starting(c)'
  BY DEF Inv, Crash, Starting
<1> DEFINE cs == {c \in Calls : Starting(c)}
<1>1. ASSUME NEW c \in Calls
      PROVE  /\ c \in cs => HistoryState(c) = "starting"
             /\ HistoryState(c)' = IF c \in cs THEN "gone" ELSE HistoryState(c)
  <2>1. CASE Starting(c)
    BY <1>0, <2>1, StartingFacts, HistoryCases, HistoryCasesAfter
  <2>2. CASE ~Starting(c)
    BY <1>0, <2>2 DEF HistoryState
  <2>3. QED
    BY <2>1, <2>2
<1>2. CASE cs = {}
  BY <1>0, <1>1, <1>2 DEF History!vars
<1>3. CASE cs # {}
  <2> HIDE DEF cs
  <2>1. cs \in SUBSET Calls
    BY DEF cs
  <2>2. QED
    BY <1>0, <1>1, <1>3, <2>1, AbortIsStep
<1>4. QED
  BY <1>2, <1>3

\* At first no call exists.
LEMMA HistoryInit == Init => History!Init
<1> SUFFICES ASSUME Init
             PROVE  History!Init
  OBVIOUS
<1>1. Typed
  BY InitInv DEF Inv
<1>2. \A c \in Calls : record[c] = NoRecord /\ caller[c] = None
  BY DEF Init
<1>3. \A c \in Calls : HistoryState(c) = "new" /\ record[c].participants = {}
  BY <1>1, <1>2, HistoryCases, RecordDocs
<1>4. QED
  BY <1>3 DEF History!Init

\* Every step of a handler or a request is a step of CallHistory or a stutter.
LEMMA HistoryRefines == HistoryInv /\ HistoryInv' /\ [Next]_vars => [History!Next]_History!vars
<1> SUFFICES ASSUME HistoryInv, HistoryInv', [Next]_vars
             PROVE  History!Next \/ UNCHANGED History!vars
  OBVIOUS
<1>0. Inv /\ Inv'
  BY DEF HistoryInv
<1>1. CASE Crash
  BY <1>0, <1>1, CrashIsStep
<1>2. ASSUME NEW t \in tasks, InitiateSave(t)
      PROVE  History!Next
  BY <1>0, <1>2, SaveIsStep
<1>3. CASE ~Crash /\ \A t \in tasks : ~InitiateSave(t)
  <2>1. \A d \in Calls : Starting(d) => Starting(d)'
    BY <1>0, <1>3, StillStarting
  <2>2. CASE UNCHANGED record /\ UNCHANGED caller
    <3>1. \A c \in Calls : SameCall(c)
      BY <1>0, <2>1, <2>2, QuietCall
    <3>2. QED
      BY <3>1 DEF SameCall, History!vars
  <2>3. ASSUME NEW s \in Sockets, NEW c \in Calls, NEW us \in SUBSET Users, HandleCallInitiate(s, c, us)
        PROVE  History!Next
    BY <1>0, <2>1, <2>3, InitiateIsStep, HistoryStepIsStep
  <2>4. ASSUME NEW u \in RestUsers, NEW c \in Calls, NEW us \in SUBSET Users, RestCreate(u, c, us)
        PROVE  History!Next
    BY <1>0, <2>1, <2>4, CreateIsStep, HistoryStepIsStep
  <2>5. ASSUME NEW u \in RestUsers, DeleteHistory(u)
        PROVE  History!Next
    BY <1>0, <2>1, <2>5, DeleteIsStep, RestAssumption DEF History!Next
  <2>6. ASSUME NEW t \in tasks, UpdateSave(t) \/ InviteSave(t), record' # record
        PROVE  History!Next
    BY <1>0, <2>1, <2>6, UpdateIsStep, InviteIsStep, HistoryStepIsStep
  <2>7. QED
    BY <1>3, <2>2, <2>3, <2>4, <2>5, <2>6, RecordsFrame, CallersFrame
<1>4. QED
  BY <1>1, <1>2, <1>3

\* Every behaviour of the gateway and of the REST endpoints together is one of
\* CallHistory: no save that was under way when a record was deleted brings it back,
\* participants are never lost, and only a PUT of "ongoing" reopens a settled call.
THEOREM GatewayImplementsHistory == Spec => ImplementsHistory
<1>1. HistoryInv => Inv
  BY DEF HistoryInv
<1>2. QED
  BY HistoryInvInit, HistoryInvStep, HistoryInit, HistoryRefines, PTL
    DEF Spec, ImplementsHistory, History!Spec


-----------------------------------------------------------------------------
(* Ends that do not overlap                                                 *)

\* The handlers that are recording how c ends.
Enders(c) == {t \in tasks : t.op \in UpdatingOp /\ t.key[1] = c}

\* What the gateway takes for granted: one participant ends a call, no REST client
\* writes its status, and nobody answers a call that is being ended.
OneEnds ==
    /\ \A t \in tasks : t.op # "put"
    /\ \A c \in Calls : \A t, u \in Enders(c) : t = u
AnswersWait == \A s \in Sockets, k \in Keys : HandleCallAnswer(s, k) => Closing(k) = {}

\* Then what is recorded and what was announced agree: a call has one outcome at most,
\* and the announced one is the recorded one.
OutcomesAgree ==
    \A c \in Calls :
        /\ \E x \in DbStatus : messages[c] \subseteq {x}
        /\ record[c].status \in TerminalStatus => messages[c] \subseteq {record[c].status}

\* Nothing of how c ends is recorded or announced.
Fresh(c) == messages[c] = {} /\ record[c].status \in {"ongoing", "absent"}

\* How far the handler t that ends c has got, and what it has done to c.
EndsWell(t, c) ==
    /\ activeCalls[GwKey(c)].saved
    /\ t.status = "missed" => activeCalls[GwKey(c)].status = "ringing"
    /\ t.pc \in {"find", "message"} => Fresh(c)
    /\ t.pc = "update" => messages[c] \subseteq {t.status} /\ record[c].status \in {"ongoing", "absent"}
    /\ t.pc = "finish" => /\ messages[c] \subseteq {t.status}
                          /\ record[c].status \in {"ongoing", "absent", t.status}

EndersKnow == \A c \in Calls : \A t \in Enders(c) : EndsWell(t, c)
UnendedIsFresh ==
    \A c \in Calls : Enders(c) = {} /\ (activeCalls[GwKey(c)].saved \/ Unset(c)) => Fresh(c)
OneOutcome ==
    \A c \in Calls : \E x \in DbStatus :
        messages[c] \subseteq {x} /\ record[c].status \in {"ongoing", "absent", x}
EndsOK == EndersKnow /\ UnendedIsFresh /\ OneOutcome

\* At first no call exists.
LEMMA EndsInit == Init => EndsOK
<1> SUFFICES ASSUME Init
             PROVE  EndsOK
  OBVIOUS
<1>1. \A c \in Calls : Fresh(c) /\ Enders(c) = {}
  BY RecordDocs DEF Init, Fresh, Enders
<1>2. QED
  BY <1>1, Names DEF EndsOK, EndersKnow, UnendedIsFresh, OneOutcome, Fresh

\* A handler that ends a call waits under the gateway's identifier of it, whose
\* session has been set.
LEMMA EnderFacts ==
    ASSUME Inv, OneEnds, NEW c \in Calls, NEW t \in Enders(c)
    PROVE  /\ t \in tasks /\ t \in Task /\ t.op \in ClosingOp /\ t.key = GwKey(c) /\ t \in Closing(GwKey(c))
           /\ t.status \in TerminalStatus /\ t.pc \in {"find", "message", "update", "finish"}
           /\ ~Unset(c)
<1>1. t \in tasks /\ t.op \in ClosingOp /\ t.key[1] = c
  BY DEF Enders, OneEnds, UpdatingOp
<1>2. t \in Task
  BY <1>1, TaskTyped DEF Inv
<1>3. t.key = GwKey(c) /\ t.status \in TerminalStatus /\ t.pc \in {"find", "message", "update", "finish"}
  BY <1>1 DEF Inv, TaskShape
<1>4. ~Unset(c)
  BY <1>1, <1>3 DEF Inv, UnsetIsUnknown
<1>5. QED
  BY <1>1, <1>2, <1>3, <1>4 DEF Closing, ClosingOp

\* A handler that announces, records or finishes does not wait at that point again.
LEMMA GoneOn ==
    ASSUME Typed, TaskShape, NEW t \in tasks,
           UpdateMessage(t) \/ UpdateSave(t) \/ FinishReject(t) \/ FinishEnd(t)
    PROVE  t \notin tasks'
<1>1. t \in Task
  BY TaskTyped
<1>2. ASSUME NEW pc \in Pcs, pc # t.pc, Advance(t, pc)
      PROVE  t \notin tasks'
  <2>1. PICK u : Replace(t, u) /\ u.pc = pc
    BY <1>1, <1>2, AdvanceMoves
  <2>2. QED
    BY <1>2, <2>1 DEF Replace
<1>3. CASE UpdateMessage(t)
  BY <1>2, <1>3, Names DEF UpdateMessage, Updating
<1>4. CASE UpdateSave(t)
  <2>1. t.pc = "update" /\ GiveUp(t)
    BY <1>4 DEF UpdateSave, Updating
  <2>2. QED
    BY <1>2, <2>1, Names DEF GiveUp, Finished
<1>5. CASE FinishReject(t) \/ FinishEnd(t)
  BY <1>5 DEF FinishReject, FinishEnd, Finished
<1>6. QED
  BY <1>3, <1>4, <1>5

\* The status in a record stays, unless the record is deleted or a handler that ends
\* the call writes its outcome; a new record says "ongoing".
LEMMA StatusBefore ==
    ASSUME Inv, OneEnds, [Next]_vars, NEW c \in Calls
    PROVE  \/ record'[c].status = record[c].status
           \/ record'[c].status = "absent"
           \/ Unset(c) /\ record'[c].status = "ongoing"
           \/ \E t \in Enders(c) : UpdateSave(t) /\ record'[c].status = t.status
<1>0. Typed /\ record \in [Calls -> Record \cup {NoRecord}]
  BY DEF Inv, Typed, TypeOK
<1>1. CASE UNCHANGED record
  BY <1>1
<1>2. ASSUME NEW u \in RestUsers, NEW d \in Calls, NEW us \in SUBSET Users, RestCreate(u, d, us)
      PROVE  record'[c].status = record[c].status \/ (Unset(c) /\ record'[c].status = "ongoing")
  BY <1>0, <1>2 DEF RestCreate, Unset
<1>3. ASSUME NEW u \in RestUsers, DeleteHistory(u)
      PROVE  record'[c].status \in {record[c].status, "absent"}
  BY <1>0, <1>3, RecordDocs DEF DeleteHistory
<1>4. ASSUME NEW t \in tasks, InitiateSave(t)
      PROVE  record'[c].status = record[c].status \/ (Unset(c) /\ record'[c].status = "ongoing")
  <2>1. t.op = "initiate" /\ t.pc = "save" /\ t.key = GwKey(t.key[1])
    BY <1>4, InitiateAlone DEF InitiateSave
  <2>2. t.key[1] = c => Unset(c)
    BY <2>1 DEF Unset
  <2>3. QED
    BY <1>0, <1>4, <2>2 DEF InitiateSave
<1>5. ASSUME NEW t \in tasks, UpdateSave(t)
      PROVE  record'[c].status = record[c].status \/ (t \in Enders(c) /\ record'[c].status = t.status)
  <2>1. t.key[1] = c => t \in Enders(c)
    BY <1>5 DEF UpdateSave, Updating, Enders, UpdatingOp, ClosingOp
  <2>2. CASE t.key[1] = c /\ record[c] # NoRecord /\ t.saves
    <3>1. record'[c] = WithStatus(record[c], t.status) /\ record[c] \in Record
      BY <1>0, <1>5, <2>2 DEF UpdateSave
    <3>2. QED
      BY <1>0, <2>1, <2>2, <3>1, TaskTyped, RecordDocs
  <2>3. CASE ~(t.key[1] = c /\ record[c] # NoRecord /\ t.saves)
    BY <1>0, <1>5, <2>3 DEF UpdateSave
  <2>4. QED
    BY <2>2, <2>3
<1>6. ASSUME NEW t \in tasks, InviteSave(t)
      PROVE  record'[c].status = record[c].status
  <2>1. CASE t.key[1] = c /\ record[c] # NoRecord
    BY <1>0, <1>6, <2>1, TaskTyped, RecordDocs DEF InviteSave
  <2>2. CASE ~(t.key[1] = c /\ record[c] # NoRecord)
    BY <1>0, <1>6, <2>2 DEF InviteSave
  <2>3. QED
    BY <2>1, <2>2
<1>7. QED
  BY <1>1, <1>2, <1>3, <1>4, <1>5, <1>6, RecordsFrame

\* Only a handler that ends a call announces its outcome.
LEMMA AnnouncedBefore ==
    ASSUME Inv, [Next]_vars, NEW c \in Calls
    PROVE  \/ messages'[c] = messages[c]
           \/ \E t \in Enders(c) : UpdateMessage(t) /\ messages'[c] \subseteq messages[c] \cup {t.status}
<1>0. messages \in [Calls -> SUBSET DbStatus]
  BY DEF Inv, Typed, TypeOK
<1>1. ASSUME NEW t \in tasks, UpdateMessage(t)
      PROVE  \/ messages'[c] = messages[c]
             \/ t \in Enders(c) /\ messages'[c] \subseteq messages[c] \cup {t.status}
  <2>1. t.key[1] = c => t \in Enders(c)
    BY <1>1 DEF UpdateMessage, Updating, Enders, UpdatingOp, ClosingOp
  <2>2. QED
    BY <1>0, <1>1, <2>1 DEF UpdateMessage
<1>2. QED
  BY <1>1, MessagesFrame

\* While a saved call is being ended nothing but its end touches its session.
LEMMA EndedSessionKept ==
    ASSUME Inv, OneEnds, AnswersWait, [Next]_vars, ~Crash, NEW c \in Calls, activeCalls[GwKey(c)].saved
    PROVE  \/ /\ activeCalls'[GwKey(c)].saved
              /\ activeCalls'[GwKey(c)].status # activeCalls[GwKey(c)].status => Enders(c) = {}
           \/ \E t \in Enders(c) : FinishReject(t) \/ FinishEnd(t)
<1> DEFINE k == GwKey(c)
<1>0. Typed /\ k \in Keys /\ k[1] = c /\ activeCalls \in [Keys -> Session \cup {NoSession}]
  BY KeyFacts DEF Inv, Typed, TypeOK
<1>1. Live(k) /\ activeCalls[k] \in Session /\ ~Unset(c)
  BY <1>0, SessionDocs, LiveHasCaller DEF Live
<1>2. CASE UNCHANGED activeCalls
  BY <1>2
<1>3. ASSUME NEW s \in Sockets, HandleDisconnect(s)
      PROVE  activeCalls'[k] = activeCalls[k]
  BY <1>0, <1>3 DEF HandleDisconnect
<1>4. ASSUME NEW s \in Sockets, NEW j \in Keys, HandleCallAnswer(s, j)
      PROVE  /\ activeCalls'[k].saved
             /\ activeCalls'[k] # activeCalls[k] => Enders(c) = {}
  <2>1. CASE j = k
    <3>1. activeCalls'[k] = WithStatus(activeCalls[k], "active")
      BY <1>0, <1>1, <1>4, <2>1 DEF HandleCallAnswer
    <3>2. Closing(k) = {}
      BY <1>4, <2>1 DEF AnswersWait
    <3>3. Enders(c) = {}
      BY <3>2, EnderFacts
    <3>4. QED
      BY <1>1, <3>1, <3>3, SessionDocs
  <2>2. CASE j # k
    BY <1>0, <1>4, <2>2 DEF HandleCallAnswer
  <2>3. QED
    BY <2>1, <2>2
<1>5. ASSUME NEW s \in Sockets, NEW j \in Keys, HandleCallReject(s, j) \/ HandleCallEnd(s, j)
      PROVE  activeCalls'[k] = activeCalls[k]
  BY <1>0, <1>5 DEF HandleCallReject, HandleCallEnd, RejectSession, EndSession
<1>6. ASSUME NEW t \in tasks, InitiateSet(t)
      PROVE  activeCalls'[k] = activeCalls[k]
  <2>1. t.key # k
    BY <1>1, <1>6 DEF InitiateSet, Unset
  <2>2. QED
    BY <1>0, <1>6, <2>1 DEF InitiateSet
<1>7. ASSUME NEW t \in tasks, FinishReject(t) \/ FinishEnd(t)
      PROVE  activeCalls'[k] = activeCalls[k] \/ t \in Enders(c)
  <2>1. t.op \in UpdatingOp
    BY <1>7 DEF FinishReject, FinishEnd, UpdatingOp, ClosingOp
  <2>2. t.key = k => t \in Enders(c)
    BY <1>0, <2>1 DEF Enders
  <2>3. QED
    BY <1>0, <1>7, <2>2 DEF FinishReject, FinishEnd, RejectSession, EndSession
<1>8. ASSUME NEW t \in tasks, InviteEmit(t)
      PROVE  activeCalls'[k] = activeCalls[k]
  <2>1. t.key # k
    BY <1>0, <1>8, TaskTyped, KeyFacts DEF InviteEmit, Inv, TaskShape
  <2>2. QED
    BY <1>0, <1>8, <2>1 DEF InviteEmit
<1>9. QED
  BY <1>2, <1>3, <1>4, <1>5, <1>6, <1>7, <1>8, SessionsFrame


\* A handler that waits where it waited finds its call as it left it, or deleted.
LEMMA EnderStays ==
    ASSUME Inv, OneEnds, AnswersWait, EndsOK, [Next]_vars, ~Crash,
           NEW c \in Calls, NEW x \in Enders(c), x \in tasks'
    PROVE  EndsWell(x, c)'
<1>0. EndsWell(x, c) /\ ~Unset(c) /\ x.pc \in {"find", "message", "update", "finish"}
  BY EnderFacts DEF EndsOK, EndersKnow
<1>1. \A t \in Enders(c) : /\ t = x
                           /\ ~UpdateMessage(t) /\ ~UpdateSave(t) /\ ~FinishReject(t) /\ ~FinishEnd(t)
  BY GoneOn DEF OneEnds, Inv, Enders
<1>2. messages'[c] = messages[c]
  BY <1>1, AnnouncedBefore
<1>3. record'[c].status \in {record[c].status, "absent"}
  BY <1>0, <1>1, StatusBefore
<1>4. activeCalls'[GwKey(c)].saved /\ activeCalls'[GwKey(c)].status = activeCalls[GwKey(c)].status
  BY <1>0, <1>1, EndedSessionKept DEF EndsWell
<1>5. QED
  BY <1>0, <1>2, <1>3, <1>4 DEF EndsWell, Fresh

\* A handler that goes on has found the call without an outcome, announces its own, or
\* has written it.
LEMMA EnderMovesOn ==
    ASSUME Inv, OneEnds, EndsOK, NEW t \in tasks, NEW x, MovedOn(t, x), x \notin tasks,
           NEW c \in Calls, t \in Enders(c)
    PROVE  EndsWell(x, c)'
<1>0. /\ EndsWell(t, c) /\ t \in Task /\ t.key = GwKey(c) /\ t.key[1] = c /\ t.op \in ClosingOp
      /\ t.status \in TerminalStatus
      /\ record \in [Calls -> Record \cup {NoRecord}] /\ messages \in [Calls -> SUBSET DbStatus]
  BY EnderFacts, KeyFacts DEF EndsOK, EndersKnow, Inv, Typed, TypeOK
<1>1. x.op = t.op /\ x.key = t.key /\ x.status = t.status
  BY DEF MovedOn, Follows
<1>2. t.op # "put" /\ t.op # "initiate" /\ t.op # "invite"
  BY <1>0 DEF ClosingOp
<1>3. ~InitiateSave(t) /\ ~InitiateSet(t) /\ ~InitiateRing(t) /\ ~InitiatePush(t) /\ ~InviteSave(t)
  BY <1>2 DEF InitiateSave, InitiateSet, InitiateRing, InitiatePush, InviteSave
<1>4. CASE UpdateFind(t)
  <2>1. t.pc = "find" /\ UNCHANGED <<record, messages, activeCalls>>
    BY <1>4 DEF UpdateFind, Updating, gatewayVars, historyVars
  <2>2. ~UpdateMessage(t) /\ ~UpdateSave(t)
    BY <2>1 DEF UpdateMessage, UpdateSave, Updating
  <2>3. CASE UpdateFails(t) /\ x.pc = "finish"
    BY <1>0, <1>1, <2>1, <2>3 DEF EndsWell, Fresh
  <2>4. CASE x.pc = "message" \/ x.pc = "finish"
    BY <1>0, <1>1, <2>1, <2>4 DEF EndsWell, Fresh
  <2>5. QED
    BY <1>0, <1>3, <2>2, <2>4, Transitions DEF Inv
<1>5. CASE UpdateMessage(t)
  <2>1. t.pc = "message" /\ UNCHANGED <<record, activeCalls>>
    BY <1>5 DEF UpdateMessage, Updating, gatewayVars
  <2>2. messages'[c] \subseteq messages[c] \cup {t.status}
    BY <1>0, <1>5 DEF UpdateMessage
  <2>3. x.pc = "update"
    <3>1. ~UpdateFind(t) /\ ~UpdateSave(t) /\ ~UpdateFails(t)
      BY <2>1 DEF UpdateFind, UpdateSave, UpdateFails, Updating
    <3>2. QED
      BY <1>3, <3>1, Transitions DEF Inv
  <2>4. QED
    BY <1>0, <1>1, <2>1, <2>2, <2>3 DEF EndsWell, Fresh
<1>6. CASE UpdateSave(t)
  <2>1. t.pc = "update" /\ UNCHANGED <<messages, activeCalls>>
    BY <1>6 DEF UpdateSave, Updating, gatewayVars
  <2>2. record'[c].status \in {record[c].status, t.status}
    <3>1. CASE record[c] # NoRecord /\ t.saves
      <4>1. record'[c] = WithStatus(record[c], t.status) /\ record[c] \in Record
        BY <1>0, <1>6, <3>1 DEF UpdateSave
      <4>2. t.status \in DbStatus
        BY <1>0 DEF DbStatus
      <4>3. QED
        BY <4>1, <4>2, RecordDocs
    <3>2. CASE ~(record[c] # NoRecord /\ t.saves)
      BY <1>0, <1>6, <3>2 DEF UpdateSave
    <3>3. QED
      BY <3>1, <3>2
  <2>3. x.pc = "finish"
    <3>1. ~UpdateFind(t) /\ ~UpdateMessage(t)
      BY <2>1 DEF UpdateFind, UpdateMessage, Updating
    <3>2. QED
      BY <1>3, <3>1, Transitions DEF Inv
  <2>4. QED
    BY <1>0, <1>1, <2>1, <2>2, <2>3 DEF EndsWell
<1>7. CASE UpdateFails(t)
  <2>1. t.pc \in {"find", "update"} /\ UNCHANGED <<messages, record, activeCalls>>
    BY <1>7 DEF UpdateFails, Updating, gatewayVars
  <2>2. CASE x.pc = "finish"
    BY <1>0, <1>1, <2>1, <2>2 DEF EndsWell, Fresh
  <2>3. CASE UpdateFind(t)
    BY <1>4, <2>3
  <2>4. ~UpdateMessage(t)
    BY <2>1 DEF UpdateMessage, Updating
  <2>5. QED
    BY <1>3, <1>6, <2>2, <2>3, <2>4, Transitions DEF Inv
<1>8. QED
  BY <1>3, <1>4, <1>5, <1>6, <1>7, Transitions DEF Inv

\* Who starts to end a call finds it saved and without an outcome, and it is missed
\* only if it rings.
LEMMA EnderStarts ==
    ASSUME Inv, OneEnds, OneEnds', EndsOK, [Next]_vars,
           NEW x \in tasks', x \notin tasks, Started(x), NEW c \in Calls, x.op \in ClosingOp, x.key[1] = c
    PROVE  EndsWell(x, c)'
<1>0. /\ x.pc = "find" /\ x.key = GwKey(c) /\ x.key \in Keys /\ activeCalls[x.key].saved
      /\ activeCalls[x.key] \in Session
      /\ activeCalls \in [Keys -> Session \cup {NoSession}]
  BY StartedShape, SessionDocs DEF Inv, Typed, TypeOK
<1>1. ~Unset(c)
  BY <1>0, LiveHasCaller
<1>2. ASSUME tasks \subseteq tasks', UNCHANGED <<record, messages>>
      PROVE  Fresh(c)'
  <2>1. Enders(c) \subseteq Enders(c)' /\ x \in Enders(c)'
    BY <1>2 DEF Enders, UpdatingOp
  <2>2. Enders(c) = {}
    BY <2>1 DEF OneEnds, Enders
  <2>3. QED
    BY <1>0, <1>2, <2>2 DEF EndsOK, UnendedIsFresh, Fresh
<1>3. ASSUME NEW s \in Sockets, HandleDisconnect(s), x.status = "completed"
      PROVE  EndsWell(x, c)'
  <2>1. tasks \subseteq tasks' /\ UNCHANGED <<record, messages>>
    BY <1>3 DEF HandleDisconnect, historyVars
  <2>2. activeCalls'[x.key] = activeCalls[x.key]
    BY <1>0, <1>3 DEF HandleDisconnect
  <2>3. QED
    BY <1>0, <1>2, <1>3, <2>1, <2>2 DEF EndsWell
<1>4. ASSUME NEW s \in Sockets, HandleCallReject(s, x.key), x.status = "rejected"
      PROVE  EndsWell(x, c)'
  <2>1. tasks \subseteq tasks' /\ UNCHANGED <<record, messages, activeCalls>>
    BY <1>0, <1>4 DEF HandleCallReject, historyVars
  <2>2. QED
    BY <1>0, <1>2, <1>4, <2>1 DEF EndsWell
<1>5. ASSUME NEW s \in Sockets, HandleCallEnd(s, x.key), x.status = Outcome(x.key)
      PROVE  EndsWell(x, c)'
  <2>1. tasks \subseteq tasks' /\ UNCHANGED <<record, messages, activeCalls>>
    BY <1>0, <1>5 DEF HandleCallEnd, historyVars
  <2>2. QED
    BY <1>0, <1>2, <1>5, <2>1 DEF EndsWell, Outcome
<1>6. QED
  BY <1>3, <1>4, <1>5 DEF Started, ClosingOp

\* Whoever is ending a call after a step finds it as one who ends it should.
LEMMA EndersKnowKept ==
    ASSUME Inv, Inv', OneEnds, OneEnds', AnswersWait, EndsOK, [Next]_vars
    PROVE  EndersKnow'
<1> SUFFICES ASSUME NEW c \in Calls, NEW x \in Enders(c)'
             PROVE  EndsWell(x, c)'
  BY DEF EndersKnow
<1>0. x \in tasks' /\ x.op \in ClosingOp /\ x.key[1] = c
  BY DEF Enders, OneEnds, UpdatingOp
<1>1. ~Crash
  BY <1>0 DEF Crash
<1>2. CASE x \in tasks
  BY <1>0, <1>1, <1>2, EnderStays DEF Enders, UpdatingOp
<1>3. ASSUME NEW t \in tasks, MovedOn(t, x), x \notin tasks
      PROVE  EndsWell(x, c)'
  <2>1. t \in Enders(c)
    BY <1>0, <1>3 DEF MovedOn, Follows, Enders, UpdatingOp
  <2>2. QED
    BY <1>3, <2>1, EnderMovesOn
<1>4. CASE Started(x) /\ x \notin tasks
  BY <1>0, <1>4, EnderStarts
<1>5. QED
  BY <1>0, <1>2, <1>3, <1>4, Origins DEF Inv

\* A saved call that nobody is ending has no outcome yet.
LEMMA UnendedIsFreshKept ==
    ASSUME Inv, Inv', OneEnds, OneEnds', AnswersWait, EndsOK, [Next]_vars
    PROVE  UnendedIsFresh'
<1> SUFFICES ASSUME NEW c \in Calls, Enders(c)' = {}, activeCalls'[GwKey(c)].saved \/ Unset(c)'
             PROVE  Fresh(c)'
  BY DEF UnendedIsFresh
<1> DEFINE k == GwKey(c)
<1>0. k \in Keys /\ k[1] = c
  BY KeyFacts
<1>1. activeCalls[k].saved \/ Unset(c)
  <2>1. CASE Unset(c)'
    BY <2>1, UnsetBefore
  <2>2. ASSUME NEW t \in tasks, InitiateSet(t), t.key = k
        PROVE  Unset(c)
    BY <2>2 DEF InitiateSet, Unset
  <2>3. QED
    BY <1>0, <2>1, <2>2, SavedBefore
<1>2. Enders(c) = {}
  <2> SUFFICES ASSUME NEW t \in Enders(c)
               PROVE  FALSE
    OBVIOUS
  <2>1. t \in Closing(k) /\ ~Unset(c)
    BY EnderFacts
  <2>2. ~Unset(c)'
    BY <2>1, UnsetBefore
  <2>3. activeCalls'[k] # NoSession
    BY <2>2, SessionDocs
  <2>4. ~Crash
    BY <1>0, <2>3 DEF Crash
  <2>5. Closing(k)' # {}
    BY <1>0, <2>1, <2>3, <2>4, ClosingGoesOn
  <2>6. QED
    BY <1>0, <2>5 DEF Closing, Enders, UpdatingOp, ClosingOp
<1>3. Fresh(c)
  BY <1>1, <1>2 DEF EndsOK, UnendedIsFresh
<1>4. QED
  BY <1>2, <1>3, AnnouncedBefore, StatusBefore DEF Fresh

\* A call keeps the outcome that was announced or recorded first.
LEMMA OneOutcomeKept ==
    ASSUME Inv, OneEnds, EndsOK, [Next]_vars
    PROVE  OneOutcome'
<1> SUFFICES ASSUME NEW c \in Calls
             PROVE  \E x \in DbStatus :
                       messages'[c] \subseteq {x} /\ record'[c].status \in {"ongoing", "absent", x}
  BY DEF OneOutcome
<1>0. PICK x \in DbStatus : messages[c] \subseteq {x} /\ record[c].status \in {"ongoing", "absent", x}
  BY DEF EndsOK, OneOutcome
<1>1. ASSUME NEW t \in Enders(c), UpdateMessage(t)
      PROVE  \E y \in DbStatus :
                messages'[c] \subseteq {y} /\ record'[c].status \in {"ongoing", "absent", y}
  <2>1. t.pc = "message" /\ UNCHANGED record /\ messages'[c] \subseteq messages[c] \cup {t.status}
    BY <1>1 DEF UpdateMessage, Updating, Inv, Typed, TypeOK
  <2>2. Fresh(c) /\ t.status \in DbStatus
    BY <2>1, EnderFacts DEF EndsOK, EndersKnow, EndsWell, DbStatus
  <2>3. QED
    BY <2>1, <2>2 DEF Fresh
<1>2. ASSUME NEW t \in Enders(c), UpdateSave(t), record'[c].status = t.status
      PROVE  \E y \in DbStatus :
                messages'[c] \subseteq {y} /\ record'[c].status \in {"ongoing", "absent", y}
  <2>1. t.pc = "update" /\ UNCHANGED messages
    BY <1>2 DEF UpdateSave, Updating
  <2>2. messages[c] \subseteq {t.status} /\ t.status \in DbStatus
    BY <2>1, EnderFacts DEF EndsOK, EndersKnow, EndsWell, DbStatus
  <2>3. QED
    BY <1>2, <2>1, <2>2
<1>3. CASE messages'[c] = messages[c] /\ record'[c].status \in {record[c].status, "absent", "ongoing"}
  BY <1>0, <1>3
<1>4. QED
  BY <1>1, <1>2, <1>3, AnnouncedBefore, StatusBefore

\* Every step of handlers that do not overlap keeps a call to one outcome.
LEMMA EndsStep ==
    Inv /\ Inv' /\ OneEnds /\ OneEnds' /\ EndsOK /\ [Next]_vars /\ [AnswersWait]_vars => EndsOK'
<1> SUFFICES ASSUME Inv, Inv', OneEnds, OneEnds', EndsOK, [Next]_vars, [AnswersWait]_vars
             PROVE  EndsOK'
  OBVIOUS
<1>1. CASE AnswersWait
  BY <1>1, EndersKnowKept, UnendedIsFreshKept, OneOutcomeKept DEF EndsOK
<1>2. CASE UNCHANGED vars
  BY <1>2 DEF vars, EndsOK, EndersKnow, UnendedIsFresh, OneOutcome, EndsWell, Fresh, Enders, Unset
<1>3. QED
  BY <1>1, <1>2

\* If one participant ends a call, if nobody answers it meanwhile and if no REST client
\* writes its status, whatever else interleaves or fails: a call has one outcome, the
\* conversation and the history name the same, and a missed call was not answered.
THEOREM SerialEndsAgree ==
    Spec /\ []OneEnds /\ [][AnswersWait]_vars => [](OutcomesAgree /\ MissedMeansUnanswered)
<1>1. Inv /\ OneEnds /\ EndsOK => OutcomesAgree
  <2> SUFFICES ASSUME EndsOK, NEW c \in Calls
               PROVE  /\ \E x \in DbStatus : messages[c] \subseteq {x}
                      /\ record[c].status \in TerminalStatus => messages[c] \subseteq {record[c].status}
    BY DEF OutcomesAgree
  <2>1. PICK x \in DbStatus : messages[c] \subseteq {x} /\ record[c].status \in {"ongoing", "absent", x}
    BY DEF EndsOK, OneOutcome
  <2>2. "ongoing" \notin TerminalStatus /\ "absent" \notin TerminalStatus
    BY DEF TerminalStatus
  <2>3. QED
    BY <2>1, <2>2
<1>2. Inv /\ OneEnds /\ EndsOK => MissedMeansUnanswered
  <2> SUFFICES ASSUME Inv, OneEnds, EndsOK, NEW c \in Calls,
                      record[c].status = "missed", activeCalls[GwKey(c)].saved
               PROVE  activeCalls[GwKey(c)].status = "ringing"
    BY DEF MissedMeansUnanswered
  <2>1. PICK t \in Enders(c) : TRUE
    BY DEF EndsOK, UnendedIsFresh, Fresh
  <2>2. EndsWell(t, c) /\ t.pc \in {"find", "message", "update", "finish"}
    BY EnderFacts DEF EndsOK, EndersKnow
  <2>3. QED
    BY <2>2 DEF EndsWell, Fresh
<1>3. QED
  BY <1>1, <1>2, InitInv, NextInv, EndsInit, EndsStep, PTL DEF Spec

=============================================================================
