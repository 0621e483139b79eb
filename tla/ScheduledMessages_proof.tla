------------------------ MODULE ScheduledMessages_proof ------------------------
(* Proofs about ScheduledMessages: for any messages, processes, overlapping  *)
(* passes, requests and failures, what is sent twice was in two hands or in  *)
(* those of a process that died, and what is settled stays so.               *)
EXTENDS ScheduledMessages, TLAPS

-----------------------------------------------------------------------------
(* Passes                                                                  *)

\* A pass is going to post the message, or has posted it and is to record it.
ToPost(p, m) == m \in pass[p].todo \/ (pass[p].at = "post" /\ pass[p].msg = m)
Recording(p, m) == pass[p].at \in {"save", "fail"} /\ pass[p].msg = m

PassOK(p) ==
    IF pass[p].at = "idle" THEN pass[p] = Resting
    ELSE ProcessOf(p) \in up /\ pass[p].msg \in Messages \ pass[p].todo

\* The fields of the pass that rests.
LEMMA RestingFields ==
    Resting \in Pass /\ Resting.at = "idle" /\ Resting.msg = None /\ Resting.todo = {}
  BY DEF Resting, Pass

\* A pass that holds a message is going to post it or to record it.
LEMMA HoldsSplit ==
    ASSUME TypeOK, NEW p \in Passes, NEW m
    PROVE  Holds(p, m) <=> ToPost(p, m) \/ Recording(p, m)
  BY DEF TypeOK, Pass, Holds, ToPost, Recording

\* A pass that takes the next message holds what it was given, and has posted
\* none of it.
LEMMA TakeNextFacts ==
    ASSUME TypeOK, NEW p \in Passes, ProcessOf(p) \in up, NEW ms \in SUBSET Messages,
           TakeNext(p, ms)
    PROVE  /\ pass' \in [Passes -> Pass]
           /\ \A q \in Passes \ {p} : pass'[q] = pass[q]
           /\ IF pass'[p].at = "idle" THEN pass'[p] = Resting
              ELSE pass'[p].msg \in Messages \ pass'[p].todo
           /\ pass'[p].at \in {"idle", "post"}
           /\ \A m : (m \in pass'[p].todo \/ (pass'[p].at = "post" /\ pass'[p].msg = m)) <=> m \in ms
  <1>1. pass \in [Passes -> Pass]
    BY DEF TypeOK
  <1>2. CASE ms = {}
    <2>1. pass' = [pass EXCEPT ![p] = Resting]
      BY <1>2 DEF TakeNext
    <2>2. pass'[p] = Resting /\ pass' \in [Passes -> Pass] /\ \A q \in Passes \ {p} : pass'[q] = pass[q]
      BY <1>1, <2>1, RestingFields
    <2> QED
      BY <1>2, <2>2, RestingFields
  <1>3. CASE ms # {}
    <2>1. PICK m \in ms : pass' = [pass EXCEPT ![p] = [at |-> "post", msg |-> m, todo |-> ms \ {m}]]
      BY <1>3 DEF TakeNext
    <2> DEFINE w == [at |-> "post", msg |-> m, todo |-> ms \ {m}]
    <2>2. w \in Pass /\ w.at = "post" /\ w.msg = m /\ w.todo = ms \ {m}
      BY DEF Pass
    <2> HIDE DEF w
    <2>3. pass'[p] = w /\ pass' \in [Passes -> Pass] /\ \A q \in Passes \ {p} : pass'[q] = pass[q]
      BY <1>1, <2>1, <2>2 DEF w
    <2> QED
      BY <2>2, <2>3
  <1> QED
    BY <1>2, <1>3

\* A pass that goes on with its message keeps it and what it has left.
LEMMA AtFacts ==
    ASSUME TypeOK, NEW p \in Passes, NEW step \in {"save", "fail"}, At(p, step)
    PROVE  /\ pass' \in [Passes -> Pass]
           /\ \A q \in Passes \ {p} : pass'[q] = pass[q]
           /\ pass'[p].at = step /\ pass'[p].msg = pass[p].msg /\ pass'[p].todo = pass[p].todo
  <1>1. pass \in [Passes -> Pass]
    BY DEF TypeOK
  <1> DEFINE w == [pass[p] EXCEPT !.at = step]
  <1>2. w \in Pass /\ w.at = step /\ w.msg = pass[p].msg /\ w.todo = pass[p].todo
    BY <1>1 DEF Pass
  <1>3. pass' = [pass EXCEPT ![p] = w]
    BY DEF At
  <1> HIDE DEF w
  <1> QED
    BY <1>1, <1>2, <1>3

\* The passes of a process that dies rest, the others go on.
LEMMA DieFacts ==
    ASSUME TypeOK, NEW i, Die(i)
    PROVE  /\ pass' \in [Passes -> Pass]
           /\ \A p \in Passes : pass'[p] = IF ProcessOf(p) = i THEN Resting ELSE pass[p]
  BY RestingFields DEF TypeOK, Die

-----------------------------------------------------------------------------
(* Type correctness                                                        *)

\* The types that do not speak of two variables at once.
Plain ==
    /\ status \in [Messages -> {"none", "pending", "sent", "cancelled", "failed", "deleted"}]
    /\ due \in [Messages -> BOOLEAN]
    /\ up \subseteq Processes
    /\ request \in [Clients -> Request]
    /\ posted \in [Messages -> Nat]
    /\ faults \in 0..MaxFaults
    /\ repeated \subseteq Messages

PassesOK ==
    /\ pass \in [Passes -> Pass]
    /\ \A p \in Passes : PassOK(p)
    /\ \A p \in Passes, m \in Messages : Holds(p, m) => status[m] # "none"

RequestsOK ==
    \A c \in Clients : request[c].at # "idle" =>
        request[c].msg \in Messages /\ status[request[c].msg] # "none"

\* The type invariant, part by part.
LEMMA TypeParts == TypeOK <=> Plain /\ PassesOK /\ RequestsOK
  BY DEF TypeOK, Plain, PassesOK, PassOK, RequestsOK

\* A message that exists never ceases to have a status.
Kept == \A m \in Messages : status[m] # "none" => status'[m] # "none"

\* Passes that go on as before stay in order.
LEMMA PassesUntouched ==
    ASSUME PassesOK, Kept, UNCHANGED <<pass, up>>
    PROVE  PassesOK'
  BY DEF PassesOK, PassOK, Kept, Holds

\* One pass changes, and holds nothing but what was found or what it held.
LEMMA OnePass ==
    ASSUME TypeOK, Kept, UNCHANGED up, NEW p \in Passes, ProcessOf(p) \in up,
           pass' \in [Passes -> Pass],
           \A q \in Passes \ {p} : pass'[q] = pass[q],
           IF pass'[p].at = "idle" THEN pass'[p] = Resting
           ELSE pass'[p].msg \in Messages \ pass'[p].todo,
           \A m \in Messages : Holds(p, m)' => status[m] # "none"
    PROVE  PassesOK'
  <1>1. ASSUME NEW q \in Passes PROVE PassOK(q)'
    BY <1>1 DEF TypeOK, PassOK
  <1>2. ASSUME NEW q \in Passes, NEW m \in Messages, Holds(q, m)' PROVE status'[m] # "none"
    <2>1. CASE q = p
      BY <1>2, <2>1 DEF Kept
    <2>2. CASE q # p
      <3>1. Holds(q, m)
        BY <1>2, <2>2 DEF Holds
      <3> QED
        BY <3>1 DEF TypeOK, Kept
    <2> QED
      BY <2>1, <2>2
  <1> QED
    BY <1>1, <1>2 DEF PassesOK

\* The request that a handler answers, or a new one about a message that exists.
LEMMA OneRequest ==
    ASSUME TypeOK, Kept, NEW c \in Clients, NEW w \in Request,
           request' = [request EXCEPT ![c] = w],
           w.at # "idle" => w.msg \in Messages /\ status[w.msg] # "none"
    PROVE  request' \in [Clients -> Request] /\ RequestsOK'
  <1>1. request \in [Clients -> Request]
    BY DEF TypeOK
  <1>2. ASSUME NEW d \in Clients, request'[d].at # "idle"
        PROVE  request'[d].msg \in Messages /\ status'[request'[d].msg] # "none"
    <2>1. CASE d = c
      BY <1>1, <1>2, <2>1 DEF Kept
    <2>2. CASE d # c
      <3>1. request'[d] = request[d]
        BY <1>1, <2>2
      <3> QED
        BY <1>2, <3>1 DEF TypeOK, Kept
    <2> QED
      BY <2>1, <2>2
  <1> QED
    BY <1>1, <1>2 DEF RequestsOK

\* So do requests.
LEMMA RequestsUntouched ==
    ASSUME RequestsOK, Kept, UNCHANGED request
    PROVE  RequestsOK'
  BY DEF RequestsOK, Kept

\* The initial values have their types.
LEMMA TypeInit == Init => TypeOK
  <1> SUFFICES ASSUME Init PROVE TypeOK
    OBVIOUS
  <1>1. \A p \in Passes : pass[p] = Resting
    BY DEF Init
  <1>2. Idle \in Request /\ Idle.at = "idle"
    BY DEF Idle, Request
  <1>3. \A c \in Clients : request[c] = Idle
    BY DEF Init
  <1> QED
    BY <1>1, <1>2, <1>3, RestingFields, BoundAssumption DEF Init, TypeOK, Holds

\* Every step keeps the types.
LEMMA TypeStep == TypeOK /\ [Next]_vars => TypeOK'
  <1> SUFFICES ASSUME TypeOK, [Next]_vars PROVE Plain' /\ PassesOK' /\ RequestsOK'
    BY DEF TypeOK, Plain, PassesOK, PassOK, RequestsOK
  <1>1. Plain /\ PassesOK /\ RequestsOK
    BY TypeParts
  <1>2. Idle \in Request /\ Idle.at = "idle"
    BY DEF Idle, Request
  <1>3. ASSUME NEW at \in {"edit", "cancel", "delete"}, NEW m \in Messages
        PROVE  /\ [at |-> at, msg |-> m] \in Request
               /\ [at |-> at, msg |-> m].at = at /\ [at |-> at, msg |-> m].msg = m
    BY <1>3 DEF Request
  <1>4. CASE UNCHANGED vars
    BY <1>1, <1>4, PassesUntouched, RequestsUntouched DEF vars, Plain, Kept
  <1>5. ASSUME NEW m \in Messages, ScheduleMessage(m) \/ TimePasses(m)
        PROVE  Plain' /\ PassesOK' /\ RequestsOK'
    BY <1>1, <1>5, PassesUntouched, RequestsUntouched DEF ScheduleMessage, TimePasses, Plain, Kept
  <1>6. ASSUME NEW c \in Clients, NEW m \in Messages, CheckedRequest(c, m) \/ DeleteRequest(c, m)
        PROVE  Plain' /\ PassesOK' /\ RequestsOK'
    <2>1. PICK at \in {"edit", "cancel", "delete"} : request' = [request EXCEPT ![c] = [at |-> at, msg |-> m]]
      BY <1>6 DEF CheckedRequest, DeleteRequest, Wait
    <2>2. Kept /\ status[m] # "none" /\ UNCHANGED <<status, due, up, pass, posted, faults, repeated>>
      BY <1>6 DEF CheckedRequest, DeleteRequest, Kept
    <2>3. request' \in [Clients -> Request] /\ RequestsOK'
      BY <1>3, <2>1, <2>2, OneRequest
    <2> QED
      BY <1>1, <2>2, <2>3, PassesUntouched DEF Plain
  <1>7. ASSUME NEW c \in Clients, SaveEdit(c) \/ SaveCancel(c) \/ Delete(c) \/ RequestFails(c)
        PROVE  Plain' /\ PassesOK' /\ RequestsOK'
    <2>1. request' = [request EXCEPT ![c] = Idle]
      BY <1>7 DEF SaveEdit, SaveCancel, Delete, RequestFails, Answer
    <2>2. Kept
      BY <1>1, <1>7 DEF SaveEdit, SaveCancel, Delete, RequestFails, Kept, Plain
    <2>3. request' \in [Clients -> Request] /\ RequestsOK'
      BY <1>2, <2>1, <2>2, OneRequest
    <2>4. PassesOK'
      BY <1>1, <1>7, <2>2, PassesUntouched DEF SaveEdit, SaveCancel, Delete, RequestFails
    <2>5. Plain'
      <3>1. CASE SaveEdit(c) \/ SaveCancel(c) \/ Delete(c)
        BY <1>1, <2>3, <3>1 DEF SaveEdit, SaveCancel, Delete, Plain
      <3>2. CASE RequestFails(c)
        BY <1>1, <2>3, <3>2, BoundAssumption DEF RequestFails, Fault, Plain
      <3> QED
        BY <1>7, <3>1, <3>2
    <2> QED
      BY <2>3, <2>4, <2>5
  <1>8. ASSUME NEW p \in Passes, StartPass(p)
        PROVE  Plain' /\ PassesOK' /\ RequestsOK'
    <2>1. Found \in SUBSET Messages /\ \A m \in Found : status[m] # "none"
      BY DEF Found
    <2>2. UNCHANGED <<status, due, up, request, posted, faults>> /\ Kept
      BY <1>8 DEF StartPass, Kept
    <2>3. PassesOK'
      BY <1>8, <2>1, <2>2, TakeNextFacts, OnePass, RestingFields DEF StartPass, Holds
    <2> QED
      BY <1>1, <1>8, <2>1, <2>2, <2>3, RequestsUntouched DEF StartPass, Plain
  <1>9. ASSUME NEW p \in Passes, NEW step \in {"save", "fail"}, pass[p].at # "idle", At(p, step),
               UNCHANGED <<status, up, request>>
        PROVE  PassesOK' /\ RequestsOK'
    <2>1. Kept
      BY <1>9 DEF Kept
    <2>2. \A m \in Messages : Holds(p, m)' => status[m] # "none"
      BY <1>9, AtFacts DEF TypeOK, Holds
    <2>3. ProcessOf(p) \in up /\ pass'[p].msg \in Messages \ pass'[p].todo /\ pass'[p].at # "idle"
      BY <1>9, AtFacts DEF TypeOK
    <2>4. PassesOK'
      BY <1>9, <2>1, <2>2, <2>3, AtFacts, OnePass
    <2> QED
      BY <1>1, <1>9, <2>1, <2>4, RequestsUntouched
  <1>10. ASSUME NEW p \in Passes, pass[p].at # "idle", TakeNext(p, pass[p].todo), Kept,
                UNCHANGED <<up, request>>
         PROVE  PassesOK' /\ RequestsOK'
    <2>1. pass[p].todo \in SUBSET Messages /\ ProcessOf(p) \in up
          /\ \A m \in pass[p].todo : status[m] # "none"
      BY <1>10 DEF TypeOK, Pass, Holds
    <2>2. PassesOK'
      BY <1>10, <2>1, TakeNextFacts, OnePass, RestingFields DEF Holds
    <2> QED
      BY <1>1, <1>10, <2>2, RequestsUntouched
  <1>11. ASSUME NEW p \in Passes, Post(p)
         PROVE  Plain' /\ PassesOK' /\ RequestsOK'
    <2>1. pass[p].msg \in Messages
      BY <1>11 DEF Post, TypeOK
    <2>2. Plain'
      BY <1>1, <1>11, <2>1, BoundAssumption DEF Post, PostOne, Fault, NoFault, Plain
    <2>3. pass[p].at # "idle" /\ (At(p, "save") \/ At(p, "fail"))
          /\ UNCHANGED <<status, up, request>>
      BY <1>11 DEF Post
    <2> QED
      BY <1>9, <2>2, <2>3
  <1>12. ASSUME NEW p \in Passes, SaveSent(p)
         PROVE  Plain' /\ PassesOK' /\ RequestsOK'
    <2>1. pass[p].msg \in Messages /\ pass[p].at # "idle"
      BY <1>12 DEF SaveSent, TypeOK
    <2>2. Plain' /\ Kept
      BY <1>1, <1>12, <2>1, BoundAssumption DEF SaveSent, Fault, NoFault, Plain, Kept
    <2>3. CASE UNCHANGED status /\ At(p, "fail")
      BY <1>9, <1>12, <2>1, <2>2, <2>3 DEF SaveSent
    <2>4. CASE TakeNext(p, pass[p].todo)
      BY <1>10, <1>12, <2>1, <2>2, <2>4 DEF SaveSent
    <2> QED
      BY <1>12, <2>3, <2>4 DEF SaveSent
  <1>13. ASSUME NEW i, Die(i), UNCHANGED <<status, request>>
         PROVE  PassesOK' /\ RequestsOK'
    <2>1. ASSUME NEW p \in Passes PROVE PassOK(p)'
      <3>1. ProcessOf(p) # i => ProcessOf(p) \in up' \/ pass[p].at = "idle"
        BY <1>13 DEF Die, TypeOK
      <3> QED
        BY <1>13, <3>1, DieFacts, RestingFields DEF TypeOK, PassOK
    <2>2. ASSUME NEW p \in Passes, NEW m \in Messages, Holds(p, m)' PROVE status'[m] # "none"
      BY <1>13, <2>2, DieFacts, RestingFields DEF TypeOK, Holds
    <2>3. Kept
      BY <1>13 DEF Kept
    <2> QED
      BY <1>1, <1>13, <2>1, <2>2, <2>3, DieFacts, RequestsUntouched DEF PassesOK
  <1>14. ASSUME NEW p \in Passes, SaveFailed(p)
         PROVE  Plain' /\ PassesOK' /\ RequestsOK'
    <2>1. pass[p].msg \in Messages /\ pass[p].at # "idle"
      BY <1>14 DEF SaveFailed, TypeOK
    <2>2. Plain' /\ Kept
      BY <1>1, <1>14, <2>1, BoundAssumption DEF SaveFailed, Fault, NoFault, Die, Plain, Kept
    <2>3. CASE UNCHANGED status /\ Die(ProcessOf(p))
      BY <1>13, <1>14, <2>2, <2>3 DEF SaveFailed
    <2>4. CASE TakeNext(p, pass[p].todo) /\ UNCHANGED up
      BY <1>10, <1>14, <2>1, <2>2, <2>4 DEF SaveFailed
    <2> QED
      BY <1>14, <2>3, <2>4 DEF SaveFailed
  <1>15. ASSUME NEW i \in Processes, Crash(i)
         PROVE  Plain' /\ PassesOK' /\ RequestsOK'
    BY <1>1, <1>13, <1>15, BoundAssumption DEF Crash, Die, Fault, Plain
  <1>16. ASSUME NEW i \in Processes, Restart(i)
         PROVE  Plain' /\ PassesOK' /\ RequestsOK'
    <2>1. Kept /\ PassesOK'
      BY <1>1, <1>16 DEF Restart, Kept, PassesOK, PassOK, Holds
    <2> QED
      BY <1>1, <1>16, <2>1, RequestsUntouched DEF Restart, Plain
  <1> QED
    BY <1>4, <1>5, <1>6, <1>7, <1>8, <1>11, <1>12, <1>14, <1>15, <1>16 DEF Next, Work

\* Every variable holds a value of its type, and a process that is down has no
\* pass under way.
THEOREM TypeCorrect == Spec => []TypeOK
  BY TypeInit, TypeStep, PTL DEF Spec

-----------------------------------------------------------------------------
(* Posts                                                                   *)

\* A message has no post before it was scheduled.
NewUnposted == \A m \in Messages : status[m] = "none" => posted[m] = 0

\* What one hand only had is in one pass at most, ...
Alone == \A m \in Messages \ repeated, p, q \in Passes : Holds(p, m) /\ Holds(q, m) => p = q

\* ... is not posted as long as it is to be posted, ...
Unposted == \A m \in Messages \ repeated, p \in Passes : ToPost(p, m) => posted[m] = 0

\* ... and if it is posted and still pending, somebody is about to record it.
Recorded ==
    \A m \in Messages \ repeated :
        posted[m] > 0 /\ status[m] = "pending" => \E p \in Passes : Recording(p, m)

\* A pass that is to record a post has made it.
SavesPosted == \A p \in Passes : pass[p].at = "save" => posted[pass[p].msg] > 0

\* What is recorded as sent stands in the conversation.
SentIsPosted == \A m \in Messages : status[m] = "sent" => posted[m] > 0

\* PostedOnce and SentIsPosted with what makes them inductive.
Inv ==
    /\ TypeOK
    /\ NewUnposted /\ Alone /\ Unposted /\ Recorded /\ SavesPosted
    /\ PostedOnce /\ SentIsPosted

\* At first nothing is posted and no pass is under way.
LEMMA InvInit == Init => Inv
  <1> SUFFICES ASSUME Init PROVE Inv
    OBVIOUS
  <1>1. \A p \in Passes : pass[p] = Resting
    BY DEF Init
  <1>2. \A p \in Passes : \A m : ~Holds(p, m) /\ ~ToPost(p, m)
    BY <1>1, RestingFields DEF Holds, ToPost
  <1> QED
    BY <1>1, <1>2, TypeInit, RestingFields
      DEF Init, Inv, NewUnposted, Alone, Unposted, Recorded, SavesPosted, PostedOnce, SentIsPosted

\* Steps of the senders, of time and of a restart.
LEMMA PostsUntouched ==
    ASSUME Inv, TypeOK', UNCHANGED <<pass, posted, repeated>>,
           \A m \in Messages : /\ status'[m] = "none" => status[m] = "none"
                               /\ status'[m] = "sent" => status[m] = "sent"
                               /\ status'[m] = "pending" => status[m] \in {"none", "pending"}
    PROVE  Inv'
  <1>1. NewUnposted' /\ SentIsPosted' /\ PostedOnce' /\ SavesPosted'
    BY DEF Inv, NewUnposted, SentIsPosted, PostedOnce, SavesPosted
  <1>2. Alone' /\ Unposted'
    BY DEF Inv, Alone, Unposted, Holds, ToPost
  <1>3. \A p, m : Recording(p, m)' <=> Recording(p, m)
    BY DEF Recording
  <1>4. Recorded'
    BY <1>3 DEF Inv, Recorded, NewUnposted, TypeOK
  <1> QED
    BY <1>1, <1>2, <1>4 DEF Inv

\* The pass that goes on holds what it had left and is to post all of it.
LEMMA NextTaken ==
    ASSUME TypeOK, NEW p \in Passes, pass[p].at # "idle", TakeNext(p, pass[p].todo)
    PROVE  /\ pass'[p].at # "save"
           /\ \A m : ~Recording(p, m)'
           /\ \A m : Holds(p, m)' <=> m \in pass[p].todo
           /\ \A m : ToPost(p, m)' <=> m \in pass[p].todo
           /\ \A q \in Passes \ {p} : \A m : /\ Holds(q, m)' <=> Holds(q, m)
                                             /\ ToPost(q, m)' <=> ToPost(q, m)
                                             /\ Recording(q, m)' <=> Recording(q, m)
           /\ \A q \in Passes \ {p} : pass'[q] = pass[q]
  <1>1. pass[p].todo \in SUBSET Messages /\ ProcessOf(p) \in up
    BY DEF TypeOK, Pass
  <1>2. /\ \A q \in Passes \ {p} : pass'[q] = pass[q]
        /\ pass'[p].at \in {"idle", "post"}
        /\ pass'[p].at = "idle" => pass'[p] = Resting
        /\ \A m : (m \in pass'[p].todo \/ (pass'[p].at = "post" /\ pass'[p].msg = m)) <=> m \in pass[p].todo
    BY <1>1, TakeNextFacts
  <1> QED
    BY <1>2, RestingFields DEF Holds, ToPost, Recording

\* Recording the message a pass holds, in the document or in vain, ends its hold.
LEMMA RecordStep ==
    ASSUME Inv, TypeOK', NEW p \in Passes, pass[p].at \in {"save", "fail"},
           TakeNext(p, pass[p].todo),
           UNCHANGED <<posted, repeated>>,
           NEW st \in {"sent", "failed"},
           status' = [status EXCEPT ![pass[p].msg] = st],
           st = "sent" => pass[p].at = "save"
    PROVE  Inv'
  <1> DEFINE m == pass[p].msg
  <1>1. TypeOK /\ m \in Messages /\ m \notin pass[p].todo
    BY DEF Inv, TypeOK
  <1>2. status'[m] = st /\ \A x \in Messages \ {m} : status'[x] = status[x]
    BY <1>1 DEF TypeOK
  <1>3. NewUnposted' /\ PostedOnce'
    BY <1>1, <1>2 DEF Inv, NewUnposted, PostedOnce
  <1>4. SentIsPosted'
    BY <1>1, <1>2 DEF Inv, SentIsPosted, SavesPosted
  <1>5. SavesPosted'
    BY <1>1, NextTaken DEF Inv, SavesPosted
  <1>6. Alone'
    BY <1>1, NextTaken DEF Inv, Alone, Holds
  <1>7. Unposted'
    BY <1>1, NextTaken DEF Inv, Unposted, ToPost
  <1>8. Recorded'
    <2> SUFFICES ASSUME NEW x \in Messages \ repeated, posted[x] > 0, status'[x] = "pending"
                 PROVE  \E q \in Passes : Recording(q, x)'
      BY DEF Recorded
    <2>1. x # m /\ status[x] = "pending"
      BY <1>2
    <2>2. PICK q \in Passes : Recording(q, x)
      BY <2>1 DEF Inv, Recorded
    <2>3. q # p
      BY <2>1, <2>2 DEF Recording
    <2> QED
      BY <1>1, <2>2, <2>3, NextTaken
  <1> QED
    BY <1>3, <1>4, <1>5, <1>6, <1>7, <1>8 DEF Inv

\* A record that is not made leaves the pass recording.
LEMMA FailStep ==
    ASSUME Inv, TypeOK', NEW p \in Passes, pass[p].at = "save", At(p, "fail"),
           UNCHANGED <<status, posted, repeated>>
    PROVE  Inv'
  <1>0. TypeOK
    BY DEF Inv
  <1>1. /\ \A q \in Passes : \A m : /\ Holds(q, m)' <=> Holds(q, m)
                                    /\ ToPost(q, m)' <=> ToPost(q, m)
                                    /\ Recording(q, m)' <=> Recording(q, m)
        /\ \A q \in Passes : pass'[q].at = "save" => pass[q].at = "save" /\ pass'[q].msg = pass[q].msg
    BY <1>0, AtFacts DEF Holds, ToPost, Recording
  <1>2. NewUnposted' /\ SentIsPosted' /\ PostedOnce'
    BY DEF Inv, NewUnposted, SentIsPosted, PostedOnce
  <1>3. Alone' /\ Unposted' /\ Recorded' /\ SavesPosted'
    BY <1>1 DEF Inv, Alone, Unposted, Recorded, SavesPosted
  <1> QED
    BY <1>2, <1>3 DEF Inv

\* A pass that starts shares with another pass only what it makes repeated.
LEMMA StartStep ==
    ASSUME Inv, TypeOK', NEW p \in Passes, StartPass(p)
    PROVE  Inv'
  <1>0. TypeOK /\ pass[p].at = "idle" /\ pass[p] = Resting
    BY DEF Inv, StartPass, TypeOK
  <1>1. /\ \A q \in Passes \ {p} : pass'[q] = pass[q]
        /\ pass'[p].at \in {"idle", "post"}
        /\ pass'[p].at = "idle" => pass'[p] = Resting
        /\ \A m : (m \in pass'[p].todo \/ (pass'[p].at = "post" /\ pass'[p].msg = m)) <=> m \in Found
    <2>1. Found \in SUBSET Messages
      BY DEF Found
    <2> QED
      BY <1>0, <2>1, TakeNextFacts DEF StartPass
  <1>2. \A q \in Passes \ {p} : \A m : /\ Holds(q, m)' <=> Holds(q, m)
                                       /\ ToPost(q, m)' <=> ToPost(q, m)
                                       /\ Recording(q, m)' <=> Recording(q, m)
    BY <1>1 DEF Holds, ToPost, Recording
  <1>3. \A m : (Holds(p, m)' <=> m \in Found) /\ (ToPost(p, m)' <=> m \in Found)
    BY <1>1, RestingFields DEF Holds, ToPost
  <1>4. UNCHANGED <<status, posted>> /\ repeated' = repeated \cup (Found \cap HeldByOthers(p))
    BY DEF StartPass
  <1>5. NewUnposted' /\ SentIsPosted' /\ PostedOnce'
    BY <1>4 DEF Inv, NewUnposted, SentIsPosted, PostedOnce
  <1>6. SavesPosted'
    BY <1>1, <1>4 DEF Inv, SavesPosted
  <1>7. ASSUME NEW m \in Messages \ repeated', m \in Found, NEW q \in Passes \ {p}
        PROVE  ~Holds(q, m)
    BY <1>4, <1>7 DEF HeldByOthers
  <1>8. Alone'
    BY <1>2, <1>3, <1>4, <1>7 DEF Inv, Alone
  <1>9. ASSUME NEW m \in Messages \ repeated', m \in Found PROVE posted[m] = 0
    <2>1. m \notin repeated /\ status[m] = "pending" /\ posted[m] \in Nat
      BY <1>0, <1>4, <1>9 DEF Found, TypeOK
    <2>2. ~ \E q \in Passes : Recording(q, m)
      BY <1>0, <1>7, <1>9, RestingFields DEF Recording, Holds
    <2>3. ~(posted[m] > 0)
      BY <2>1, <2>2 DEF Inv, Recorded
    <2> QED
      BY <2>1, <2>3
  <1>10. Unposted'
    BY <1>2, <1>3, <1>4, <1>9 DEF Inv, Unposted
  <1>11. Recorded'
    <2>1. \A m : ~Recording(p, m)
      BY <1>0, RestingFields DEF Recording
    <2> QED
      BY <1>2, <1>4, <2>1 DEF Inv, Recorded
  <1> QED
    BY <1>5, <1>6, <1>8, <1>10, <1>11 DEF Inv

\* A post makes the pass record the message; nobody else was to post it.
LEMMA PostStep ==
    ASSUME Inv, TypeOK', NEW p \in Passes, Post(p)
    PROVE  Inv'
  <1> DEFINE m == pass[p].msg
  <1>0. TypeOK /\ pass[p].at = "post" /\ m \in Messages /\ m \notin pass[p].todo
        /\ status[m] # "none" /\ Holds(p, m) /\ ToPost(p, m)
    BY DEF Inv, Post, TypeOK, Holds, ToPost
  <1>1. PICK step \in {"save", "fail"} : At(p, step) /\ (step = "save" => PostOne(m))
    BY DEF Post
  <1>2. /\ \A q \in Passes \ {p} : pass'[q] = pass[q]
        /\ pass'[p].at = step /\ pass'[p].msg = m /\ pass'[p].todo = pass[p].todo
    BY <1>0, <1>1, AtFacts
  <1>3. \A q \in Passes : \A x : /\ Holds(q, x)' <=> Holds(q, x)
                                 /\ ToPost(q, x)' => ToPost(q, x)
                                 /\ Recording(q, x) => Recording(q, x)'
    BY <1>0, <1>2 DEF Holds, ToPost, Recording
  <1>4. UNCHANGED <<status, repeated>> /\ (posted' = posted \/ posted' = [posted EXCEPT ![m] = @ + 1])
    BY DEF Post, PostOne
  <1>5. posted \in [Messages -> Nat] /\ posted' \in [Messages -> Nat]
        /\ \A x \in Messages : posted'[x] >= posted[x] /\ (x # m => posted'[x] = posted[x])
    BY <1>0, <1>4 DEF TypeOK
  <1>6. m \notin repeated => posted[m] = 0 /\ posted'[m] \in {0, 1}
    BY <1>0, <1>4, <1>5 DEF Inv, Unposted
  <1>7. step = "save" => posted'[m] > 0
    BY <1>0, <1>1, <1>5 DEF PostOne
  <1>8. NewUnposted' /\ SentIsPosted'
    BY <1>0, <1>4, <1>5 DEF Inv, NewUnposted, SentIsPosted
  <1>9. PostedOnce'
    BY <1>4, <1>5, <1>6 DEF Inv, PostedOnce
  <1>10. SavesPosted'
    <2> SUFFICES ASSUME NEW q \in Passes, pass'[q].at = "save" PROVE posted'[pass'[q].msg] > 0
      BY DEF SavesPosted
    <2>1. CASE q = p
      BY <1>2, <1>7, <2>1
    <2>2. CASE q # p
      <3>1. pass[q].at = "save" /\ pass'[q].msg = pass[q].msg /\ pass[q].msg \in Messages
        BY <1>0, <1>2, <2>2 DEF TypeOK
      <3>2. posted[pass[q].msg] > 0
        BY <3>1 DEF Inv, SavesPosted
      <3> QED
        BY <1>5, <3>1, <3>2
    <2> QED
      BY <2>1, <2>2
  <1>11. Alone'
    BY <1>3, <1>4 DEF Inv, Alone
  <1>12. Unposted'
    <2> SUFFICES ASSUME NEW x \in Messages \ repeated, NEW q \in Passes, ToPost(q, x)'
                 PROVE  posted'[x] = 0
      BY <1>4 DEF Unposted
    <2>1. ToPost(q, x)
      BY <1>3
    <2>2. x # m
      <3>1. CASE q = p
        BY <1>0, <1>2, <3>1 DEF ToPost
      <3>2. CASE q # p
        <4>1. Holds(q, x)
          BY <1>0, <2>1, HoldsSplit
        <4> QED
          BY <1>0, <3>2, <4>1 DEF Inv, Alone
      <3> QED
        BY <3>1, <3>2
    <2> QED
      BY <1>5, <2>1, <2>2 DEF Inv, Unposted
  <1>13. Recorded'
    <2> SUFFICES ASSUME NEW x \in Messages \ repeated, posted'[x] > 0, status[x] = "pending"
                 PROVE  \E q \in Passes : Recording(q, x)'
      BY <1>4 DEF Recorded
    <2>1. CASE x = m
      BY <1>2, <2>1 DEF Recording
    <2>2. CASE x # m
      BY <1>3, <1>5, <2>2 DEF Inv, Recorded
    <2> QED
      BY <2>1, <2>2
  <1> QED
    BY <1>8, <1>9, <1>10, <1>11, <1>12, <1>13 DEF Inv

\* What the passes of a dying process had posted without a record is repeated.
LEMMA DieStep ==
    ASSUME Inv, TypeOK', NEW i, Die(i), UNCHANGED <<status, posted>>
    PROVE  Inv'
  <1>0. TypeOK
    BY DEF Inv
  <1>1. /\ \A p \in Passes : pass'[p] = IF ProcessOf(p) = i THEN Resting ELSE pass[p]
        /\ \A m \in Messages : m \in repeated => m \in repeated'
        /\ \A m \in Messages \ repeated', p \in Passes :
              ProcessOf(p) = i /\ pass[p].at # "idle" /\ pass[p].msg = m => ~(posted[m] > 0)
    BY <1>0, DieFacts DEF Die
  <1>2. \A p \in Passes : \A m : /\ Holds(p, m)' => Holds(p, m)
                                 /\ ToPost(p, m)' => ToPost(p, m)
                                 /\ ProcessOf(p) # i => (Recording(p, m)' <=> Recording(p, m))
    BY <1>1, RestingFields DEF Holds, ToPost, Recording
  <1>3. NewUnposted' /\ SentIsPosted' /\ PostedOnce'
    BY <1>1 DEF Inv, NewUnposted, SentIsPosted, PostedOnce
  <1>4. SavesPosted'
    BY <1>1, RestingFields DEF Inv, SavesPosted
  <1>5. Alone' /\ Unposted'
    BY <1>1, <1>2 DEF Inv, Alone, Unposted
  <1>6. Recorded'
    <2> SUFFICES ASSUME NEW m \in Messages \ repeated', posted[m] > 0, status[m] = "pending"
                 PROVE  \E p \in Passes : Recording(p, m)'
      BY DEF Recorded
    <2>1. PICK p \in Passes : Recording(p, m)
      BY <1>1 DEF Inv, Recorded
    <2>2. ProcessOf(p) # i
      BY <1>1, <2>1 DEF Recording
    <2> QED
      BY <1>2, <2>1, <2>2
  <1> QED
    BY <1>3, <1>4, <1>5, <1>6 DEF Inv

\* Every step keeps the invariant.
LEMMA InvStep == Inv /\ [Next]_vars => Inv'
  <1> SUFFICES ASSUME Inv, [Next]_vars PROVE Inv'
    OBVIOUS
  <1>1. TypeOK /\ TypeOK'
    BY TypeStep DEF Inv
  <1>2. CASE UNCHANGED vars
    BY <1>1, <1>2, PostsUntouched DEF vars
  <1>3. ASSUME NEW m \in Messages, ScheduleMessage(m) \/ TimePasses(m) PROVE Inv'
    BY <1>1, <1>3, PostsUntouched DEF ScheduleMessage, TimePasses, TypeOK
  <1>4. ASSUME NEW c \in Clients, NEW m \in Messages, CheckedRequest(c, m) \/ DeleteRequest(c, m)
        PROVE  Inv'
    BY <1>1, <1>4, PostsUntouched DEF CheckedRequest, DeleteRequest
  <1>5. ASSUME NEW c \in Clients, SaveEdit(c) \/ SaveCancel(c) \/ Delete(c) \/ RequestFails(c) PROVE Inv'
    BY <1>1, <1>5, PostsUntouched DEF SaveEdit, SaveCancel, Delete, RequestFails, TypeOK
  <1>6. ASSUME NEW p \in Passes, SaveSent(p) PROVE Inv'
    BY <1>1, <1>6, RecordStep, FailStep DEF SaveSent
  <1>7. ASSUME NEW p \in Passes, SaveFailed(p) PROVE Inv'
    BY <1>1, <1>7, RecordStep, DieStep DEF SaveFailed
  <1>8. ASSUME NEW i \in Processes, Crash(i) PROVE Inv'
    BY <1>1, <1>8, DieStep DEF Crash
  <1>9. ASSUME NEW i \in Processes, Restart(i) PROVE Inv'
    BY <1>1, <1>9, PostsUntouched DEF Restart
  <1> QED
    BY <1>1, <1>2, <1>3, <1>4, <1>5, <1>6, <1>7, <1>8, <1>9, StartStep, PostStep DEF Next, Work

\* A message is posted twice only if two passes had it, or if a process died
\* between the post and the record.
THEOREM PostedOnceUnlessRepeated == Spec => []PostedOnce
  <1>1. Inv => PostedOnce
    BY DEF Inv
  <1> QED
    BY <1>1, InvInit, InvStep, PTL DEF Spec

\* What is recorded as sent stands in the conversation.
THEOREM SentStands == Spec => []SentIsPosted
  <1>1. Inv => SentIsPosted
    BY DEF Inv
  <1> QED
    BY <1>1, InvInit, InvStep, PTL DEF Spec

-----------------------------------------------------------------------------
(* Settled messages                                                        *)

\* Passes find pending messages only, go on with what they hold and post only
\* that; requests leave a settled message settled.
LEMMA SettledStep ==
    ASSUME TypeOK, [Next]_vars, NEW m \in Messages, Settled(m)
    PROVE  Settled(m)' /\ posted'[m] = posted[m]
  <1>1. status[m] \notin {"none", "pending"} /\ \A p \in Passes : ~Holds(p, m)
    BY DEF Settled
  <1>2. ASSUME status'[m] \notin {"none", "pending"}, \A p \in Passes : ~Holds(p, m)'
        PROVE  Settled(m)'
    BY <1>2 DEF Settled
  <1>3. ASSUME UNCHANGED pass PROVE \A p \in Passes : ~Holds(p, m)'
    BY <1>1, <1>3 DEF Holds
  <1>4. CASE UNCHANGED vars
    BY <1>1, <1>2, <1>3, <1>4 DEF vars
  <1>5. ASSUME NEW x \in Messages, ScheduleMessage(x) \/ TimePasses(x)
        PROVE  Settled(m)' /\ posted'[m] = posted[m]
    BY <1>1, <1>2, <1>3, <1>5 DEF ScheduleMessage, TimePasses, TypeOK
  <1>6. ASSUME NEW c \in Clients, NEW x \in Messages, CheckedRequest(c, x) \/ DeleteRequest(c, x)
        PROVE  Settled(m)' /\ posted'[m] = posted[m]
    BY <1>1, <1>2, <1>3, <1>6 DEF CheckedRequest, DeleteRequest
  <1>7. ASSUME NEW c \in Clients, SaveEdit(c) \/ SaveCancel(c) \/ Delete(c) \/ RequestFails(c)
        PROVE  Settled(m)' /\ posted'[m] = posted[m]
    BY <1>1, <1>2, <1>3, <1>7 DEF SaveEdit, SaveCancel, Delete, RequestFails, TypeOK
  <1>8. ASSUME NEW p \in Passes, StartPass(p)
        PROVE  Settled(m)' /\ posted'[m] = posted[m]
    <2>1. Found \in SUBSET Messages /\ m \notin Found
      BY <1>1 DEF Found
    <2>2. \A q \in Passes : ~Holds(q, m)'
      BY <1>1, <1>8, <2>1, TakeNextFacts, RestingFields DEF StartPass, Holds
    <2> QED
      BY <1>1, <1>2, <1>8, <2>2 DEF StartPass
  <1>9. ASSUME NEW p \in Passes, Post(p)
        PROVE  Settled(m)' /\ posted'[m] = posted[m]
    <2>1. pass[p].msg # m
      BY <1>1, <1>9 DEF Post, Holds
    <2>2. \A q \in Passes : ~Holds(q, m)'
      BY <1>1, <1>9, <2>1, AtFacts DEF Post, Holds
    <2>3. posted'[m] = posted[m]
      BY <1>9, <2>1 DEF Post, PostOne, TypeOK
    <2> QED
      BY <1>1, <1>2, <1>9, <2>2, <2>3 DEF Post
  <1>10. ASSUME NEW p \in Passes, pass[p].at # "idle", TakeNext(p, pass[p].todo)
         PROVE  \A q \in Passes : ~Holds(q, m)'
    <2>1. m \notin pass[p].todo
      BY <1>1 DEF Holds
    <2> QED
      BY <1>1, <1>10, <2>1, NextTaken
  <1>11. ASSUME NEW i, Die(i) PROVE \A q \in Passes : ~Holds(q, m)'
    BY <1>1, <1>11, DieFacts, RestingFields DEF Holds
  <1>12. ASSUME NEW p \in Passes, SaveSent(p)
         PROVE  Settled(m)' /\ posted'[m] = posted[m]
    <2>1. pass[p].msg # m /\ pass[p].at # "idle"
      BY <1>1, <1>12 DEF SaveSent, Holds
    <2>2. status'[m] = status[m] /\ posted'[m] = posted[m]
      BY <1>12, <2>1 DEF SaveSent, TypeOK
    <2>3. CASE At(p, "fail")
      <3>1. \A q \in Passes : ~Holds(q, m)'
        BY <1>1, <2>1, <2>3, AtFacts DEF Holds
      <3> QED
        BY <1>1, <1>2, <2>2, <3>1
    <2>4. CASE TakeNext(p, pass[p].todo)
      BY <1>1, <1>2, <1>10, <2>1, <2>2, <2>4
    <2> QED
      BY <1>12, <2>3, <2>4 DEF SaveSent
  <1>13. ASSUME NEW p \in Passes, SaveFailed(p)
         PROVE  Settled(m)' /\ posted'[m] = posted[m]
    <2>1. pass[p].msg # m /\ pass[p].at # "idle"
      BY <1>1, <1>13 DEF SaveFailed, Holds
    <2>2. status'[m] = status[m] /\ posted'[m] = posted[m]
      BY <1>13, <2>1 DEF SaveFailed, TypeOK
    <2> QED
      BY <1>1, <1>2, <1>10, <1>11, <1>13, <2>1, <2>2 DEF SaveFailed
  <1>14. ASSUME NEW i \in Processes, Crash(i) \/ Restart(i)
         PROVE  Settled(m)' /\ posted'[m] = posted[m]
    BY <1>1, <1>2, <1>3, <1>11, <1>14 DEF Crash, Restart
  <1> QED
    BY <1>4, <1>5, <1>6, <1>7, <1>8, <1>9, <1>12, <1>13, <1>14 DEF Next, Work

\* What is settled stays settled and is not posted again.
THEOREM SettledStays == Spec => SettledForGood
  <1>1. TypeOK /\ [Next]_vars => [\A m \in Messages : Settled(m) => Settled(m)' /\ posted'[m] = posted[m]]_vars
    BY SettledStep
  <1> QED
    BY <1>1, TypeInit, TypeStep, PTL DEF Spec, SettledForGood

-----------------------------------------------------------------------------
(* The scheduler implements an Outbox                                      *)

\* A message stays where it is or moves as an Outbox moves it.
StepOf(m) ==
    \/ Abstract!Enter(m) \/ Abstract!Take(m) \/ Abstract!Post(m) \/ Abstract!PutBack(m)
    \/ Abstract!Send(m) \/ Abstract!Drop(m) \/ Abstract!Stay(m)

\* The same in the terms of the scheduler: the message is in somebody's hands after
\* the step, leaves them, is in nobody's before and after, or is posted.
IsTaken(m) == posted'[m] = posted[m] /\ Taken(m)' /\ (Taken(m) \/ status[m] = "pending")
LetGo(m) ==
    /\ posted'[m] = posted[m] /\ Taken(m) /\ ~Taken(m)' /\ status'[m] # "none"
    /\ status'[m] = "pending" => posted[m] = 0 \/ m \in repeated'
    /\ status'[m] = "sent" => posted[m] > 0
Untouched(m) ==
    /\ posted'[m] = posted[m] /\ ~Taken(m) /\ ~Taken(m)'
    /\ \/ status'[m] = status[m]
       \/ status[m] = "none" /\ status'[m] = "pending"
       \/ status[m] # "none" /\ status'[m] \in {"cancelled", "deleted"}
IsPosted(m) ==
    /\ Taken(m) /\ Taken(m)' /\ posted'[m] = posted[m] + 1
    /\ posted[m] = 0 \/ m \in repeated

Advance(m) == IsTaken(m) \/ LetGo(m) \/ Untouched(m) \/ IsPosted(m)

\* The stage of a message, case by case.
LEMMA StageCases ==
    ASSUME NEW m
    PROVE  /\ Taken(m) => Stage(m) = "taken"
           /\ ~Taken(m) /\ status[m] = "none" => Stage(m) = "none"
           /\ ~Taken(m) /\ status[m] = "pending" => Stage(m) = "waiting"
           /\ ~Taken(m) /\ status[m] = "sent" => Stage(m) = "sent"
           /\ ~Taken(m) /\ status[m] \notin {"none", "pending", "sent"} => Stage(m) = "dropped"
  BY DEF Stage

\* The same after a step.
LEMMA StageCasesAfter ==
    ASSUME NEW m
    PROVE  /\ Taken(m)' => Stage(m)' = "taken"
           /\ ~Taken(m)' /\ status'[m] = "none" => Stage(m)' = "none"
           /\ ~Taken(m)' /\ status'[m] = "pending" => Stage(m)' = "waiting"
           /\ ~Taken(m)' /\ status'[m] = "sent" => Stage(m)' = "sent"
           /\ ~Taken(m)' /\ status'[m] \notin {"none", "pending", "sent"} => Stage(m)' = "dropped"
  BY DEF Stage

\* A message that advances moves as in an Outbox.
LEMMA AdvanceIsStep ==
    ASSUME NEW m \in Messages, Advance(m)
    PROVE  StepOf(m)
  <1>1. ASSUME posted'[m] = posted[m], Stage(m)' = Stage(m) PROVE StepOf(m)
    BY <1>1 DEF StepOf, Abstract!Stay
  <1>2. ASSUME posted'[m] = posted[m], Stage(m) \in {"waiting", "taken", "sent"}, Stage(m)' = "dropped"
        PROVE  StepOf(m)
    BY <1>2 DEF StepOf, Abstract!Drop, Abstract!Moves
  <1>3. CASE IsTaken(m)
    <2>1. Stage(m)' = "taken" /\ Stage(m) \in {"taken", "waiting"}
      BY <1>3, StageCases, StageCasesAfter DEF IsTaken
    <2> QED
      BY <1>1, <1>3, <2>1 DEF IsTaken, StepOf, Abstract!Take, Abstract!Moves
  <1>4. CASE LetGo(m)
    <2>1. Stage(m) = "taken" /\ Stage(m)' \in {"waiting", "sent", "dropped"}
          /\ (Stage(m)' = "waiting" => status'[m] = "pending")
          /\ (Stage(m)' = "sent" => status'[m] = "sent")
      BY <1>4, StageCases, StageCasesAfter DEF LetGo
    <2> QED
      BY <1>2, <1>4, <2>1 DEF LetGo, StepOf, Abstract!PutBack, Abstract!Send, Abstract!Moves
  <1>5. CASE Untouched(m)
    <2>1. \/ Stage(m)' = Stage(m)
          \/ Stage(m) = "none" /\ Stage(m)' = "waiting"
          \/ Stage(m) \in {"waiting", "sent"} /\ Stage(m)' = "dropped"
      BY <1>5, StageCases, StageCasesAfter DEF Untouched
    <2> QED
      BY <1>1, <1>2, <1>5, <2>1 DEF Untouched, StepOf, Abstract!Enter, Abstract!Moves
  <1>6. CASE IsPosted(m)
    BY <1>6, StageCases, StageCasesAfter DEF IsPosted, StepOf, Abstract!Post
  <1> QED
    BY <1>3, <1>4, <1>5, <1>6 DEF Advance

\* No pass changes hands: every message advances if what happens to its status is
\* what scheduling, editing, cancelling and deleting do.
LEMMA RequestAdvances ==
    ASSUME Inv, UNCHANGED <<pass, posted, repeated>>, NEW m \in Messages,
           \/ status'[m] = status[m]
           \/ status[m] = "none" /\ status'[m] = "pending"
           \/ status[m] # "none" /\ status'[m] \in {"cancelled", "deleted"}
    PROVE  Advance(m)
  <1>1. Taken(m)' <=> Taken(m)
    BY DEF Taken, Holds
  <1> QED
    BY <1>1 DEF Advance, IsTaken, Untouched

\* What a pass finds is pending.
LEMMA StartAdvances ==
    ASSUME Inv, NEW p \in Passes, StartPass(p), NEW m \in Messages
    PROVE  Advance(m) /\ (m \in repeated' \ repeated => Taken(m))
  <1>1. TypeOK /\ pass[p] = Resting /\ ProcessOf(p) \in up /\ Found \in SUBSET Messages
    BY DEF Inv, StartPass, TypeOK, Found
  <1>2. \A q \in Passes \ {p} : Holds(q, m)' <=> Holds(q, m)
    BY <1>1, TakeNextFacts DEF StartPass, Holds
  <1>3. Holds(p, m)' <=> m \in Found
    BY <1>1, TakeNextFacts, RestingFields DEF StartPass, Holds
  <1>4. ~Holds(p, m)
    BY <1>1, RestingFields DEF Holds
  <1>5. m \in Found => status[m] = "pending"
    BY DEF Found
  <1>6. m \in HeldByOthers(p) => Taken(m)
    BY DEF HeldByOthers, Taken
  <1> QED
    BY <1>2, <1>3, <1>4, <1>5, <1>6 DEF StartPass, Advance, IsTaken, Untouched, Taken

\* A post is made by a pass that has the message, the first one unless others had it.
LEMMA PostAdvances ==
    ASSUME Inv, NEW p \in Passes, Post(p), NEW m \in Messages
    PROVE  Advance(m)
  <1>1. TypeOK /\ pass[p].msg \in Messages /\ Holds(p, pass[p].msg) /\ ToPost(p, pass[p].msg)
    BY DEF Inv, TypeOK, Post, Holds, ToPost
  <1>2. PICK step \in {"save", "fail"} : At(p, step)
    BY DEF Post
  <1>3. \A q \in Passes : Holds(q, m)' <=> Holds(q, m)
    BY <1>1, <1>2, AtFacts DEF Post, Holds
  <1>4. Taken(m)' <=> Taken(m)
    BY <1>3 DEF Taken
  <1>5. CASE m # pass[p].msg \/ UNCHANGED posted
    <2>1. posted'[m] = posted[m] /\ status'[m] = status[m]
      BY <1>1, <1>5 DEF Post, PostOne, TypeOK
    <2> QED
      BY <1>4, <2>1 DEF Advance, IsTaken, Untouched
  <1>6. CASE m = pass[p].msg /\ PostOne(m)
    <2>1. posted'[m] = posted[m] + 1 /\ Taken(m)
      BY <1>1, <1>6 DEF PostOne, TypeOK, Taken
    <2>2. posted[m] = 0 \/ m \in repeated
      BY <1>1, <1>6 DEF Inv, Unposted
    <2> QED
      BY <1>4, <2>1, <2>2 DEF Advance, IsPosted
  <1> QED
    BY <1>5, <1>6 DEF Post

\* A pass that records its message lets it go.
LEMMA RecordAdvances ==
    ASSUME Inv, NEW p \in Passes, pass[p].at \in {"save", "fail"},
           TakeNext(p, pass[p].todo), UNCHANGED <<posted, repeated>>,
           NEW st \in {"sent", "failed"}, status' = [status EXCEPT ![pass[p].msg] = st],
           st = "sent" => pass[p].at = "save", NEW m \in Messages
    PROVE  Advance(m)
  <1>1. TypeOK /\ pass[p].msg \in Messages /\ pass[p].msg \notin pass[p].todo
    BY DEF Inv, TypeOK
  <1>2. \A q \in Passes \ {p} : Holds(q, m)' <=> Holds(q, m)
    BY <1>1, NextTaken
  <1>3. Holds(p, m)' <=> m \in pass[p].todo
    BY <1>1, NextTaken
  <1>4. CASE m # pass[p].msg
    <2>1. Taken(m)' <=> Taken(m)
      BY <1>2, <1>3, <1>4 DEF Taken, Holds
    <2>2. status'[m] = status[m]
      BY <1>1, <1>4 DEF TypeOK
    <2> QED
      BY <2>1, <2>2 DEF Advance, IsTaken, Untouched
  <1>5. CASE m = pass[p].msg
    <2>1. Taken(m) /\ status'[m] = st
      BY <1>1, <1>5 DEF Taken, Holds, TypeOK
    <2>2. st = "sent" => posted[m] > 0
      BY <1>5 DEF Inv, SavesPosted
    <2> QED
      BY <2>1, <2>2 DEF Advance, IsTaken, LetGo
  <1> QED
    BY <1>4, <1>5

\* A process that dies lets go of what its passes had: what they had posted and not
\* recorded is repeated from then on.
LEMMA DieAdvances ==
    ASSUME Inv, NEW i, Die(i), UNCHANGED <<status, posted>>, NEW m \in Messages
    PROVE  Advance(m) /\ (m \in repeated' \ repeated => Taken(m))
  <1>1. TypeOK /\ \A q \in Passes : pass'[q] = IF ProcessOf(q) = i THEN Resting ELSE pass[q]
    BY DieFacts DEF Inv
  <1>2. \A q \in Passes : Holds(q, m)' => Holds(q, m)
    BY <1>1, RestingFields DEF Holds
  <1>3. Taken(m)' => Taken(m)
    BY <1>2 DEF Taken
  <1>4. m \in repeated' \ repeated => Taken(m)
    BY DEF Die, Taken, Holds
  <1>5. Taken(m) => status[m] # "none"
    BY <1>1 DEF TypeOK, Taken
  <1>6. status[m] = "sent" => posted[m] > 0
    BY DEF Inv, SentIsPosted
  <1>7. CASE Taken(m) /\ ~Taken(m)' /\ status[m] = "pending" /\ posted[m] # 0
    <2> SUFFICES m \in repeated'
      BY <1>7 DEF Advance, LetGo
    <2>1. CASE m \in repeated
      BY <2>1 DEF Die
    <2>2. CASE m \notin repeated
      <3>1. posted[m] > 0
        BY <1>1, <1>7 DEF TypeOK
      <3>2. PICK q \in Passes : Recording(q, m)
        BY <1>7, <2>2, <3>1 DEF Inv, Recorded
      <3>3. ProcessOf(q) = i /\ pass[q].at # "idle" /\ pass[q].msg = m
        BY <1>1, <1>7, <3>2 DEF Recording, Taken, Holds
      <3> QED
        BY <3>1, <3>3 DEF Die
    <2> QED
      BY <2>1, <2>2
  <1> QED
    BY <1>3, <1>4, <1>5, <1>6, <1>7 DEF Advance, IsTaken, LetGo, Untouched

\* Every step advances every message, and only what somebody has becomes repeated.
LEMMA NextAdvances ==
    ASSUME Inv, Next, NEW m \in Messages
    PROVE  Advance(m) /\ (m \in repeated' \ repeated => Taken(m))
  <1>0. TypeOK
    BY DEF Inv
  <1>1. ASSUME NEW x \in Messages, ScheduleMessage(x) \/ TimePasses(x)
        PROVE  Advance(m) /\ UNCHANGED repeated
    BY <1>0, <1>1, RequestAdvances DEF ScheduleMessage, TimePasses, TypeOK
  <1>2. ASSUME NEW c \in Clients, NEW x \in Messages, CheckedRequest(c, x) \/ DeleteRequest(c, x)
        PROVE  Advance(m) /\ UNCHANGED repeated
    BY <1>2, RequestAdvances DEF CheckedRequest, DeleteRequest
  <1>3. ASSUME NEW c \in Clients, SaveEdit(c) \/ SaveCancel(c) \/ Delete(c) \/ RequestFails(c)
        PROVE  Advance(m) /\ UNCHANGED repeated
    BY <1>0, <1>3, RequestAdvances DEF SaveEdit, SaveCancel, Delete, RequestFails, TypeOK
  <1>4. ASSUME NEW p \in Passes, Post(p) PROVE Advance(m) /\ UNCHANGED repeated
    BY <1>4, PostAdvances DEF Post
  <1>5. ASSUME NEW p \in Passes, pass[p].at # "idle", At(p, "fail"), UNCHANGED <<status, posted, repeated>>
        PROVE  Advance(m)
    <2>1. \A q \in Passes : Holds(q, m)' <=> Holds(q, m)
      BY <1>0, <1>5, AtFacts DEF Holds
    <2>2. Taken(m)' <=> Taken(m)
      BY <2>1 DEF Taken
    <2> QED
      BY <1>5, <2>2 DEF Advance, IsTaken, Untouched
  <1>6. ASSUME NEW p \in Passes, SaveSent(p) PROVE Advance(m) /\ UNCHANGED repeated
    BY <1>5, <1>6, RecordAdvances DEF SaveSent
  <1>7. ASSUME NEW p \in Passes, SaveFailed(p)
        PROVE  Advance(m) /\ (m \in repeated' \ repeated => Taken(m))
    BY <1>7, RecordAdvances, DieAdvances DEF SaveFailed
  <1>8. ASSUME NEW i \in Processes, Crash(i)
        PROVE  Advance(m) /\ (m \in repeated' \ repeated => Taken(m))
    BY <1>8, DieAdvances DEF Crash
  <1>9. ASSUME NEW i \in Processes, Restart(i) PROVE Advance(m) /\ UNCHANGED repeated
    BY <1>9, RequestAdvances DEF Restart
  <1> QED
    BY <1>1, <1>2, <1>3, <1>4, <1>6, <1>7, <1>8, <1>9, StartAdvances DEF Next, Work

\* What has become repeated remains so.
LEMMA RepeatedGrows == Next => repeated \subseteq repeated'
  BY DEF Next, Work, ScheduleMessage, TimePasses, CheckedRequest, DeleteRequest, SaveEdit, SaveCancel,
         Delete, RequestFails, StartPass, Post, SaveSent, SaveFailed, Crash, Restart, Die

\* At first nothing was scheduled.
LEMMA RefinementInit == Init => Abstract!Init
  <1> SUFFICES ASSUME Init PROVE Abstract!Init
    OBVIOUS
  <1>1. \A p \in Passes : pass[p] = Resting
    BY DEF Init
  <1>2. \A m : ~Taken(m)
    BY <1>1, RestingFields DEF Taken, Holds
  <1>3. \A m \in Messages : Stage(m) = "none"
    BY <1>2, StageCases DEF Init
  <1> QED
    BY <1>3 DEF Init, Abstract!Init

\* Every step of the scheduler and of the senders is a step of the Outbox or a stutter.
LEMMA RefinementStep == Inv /\ Inv' /\ [Next]_vars => [Abstract!Next]_Abstract!vars
  <1> SUFFICES ASSUME Inv, Inv', [Next]_vars PROVE [Abstract!Next]_Abstract!vars
    OBVIOUS
  <1>1. CASE UNCHANGED vars
    BY <1>1 DEF vars, Abstract!vars, Stage, Taken, Holds
  <1>2. CASE Next
    <2>1. \A m \in Messages : StepOf(m)
      BY <1>2, NextAdvances, AdvanceIsStep
    <2>2. \A m \in repeated' \ repeated : m \in Messages /\ Taken(m)
      BY <1>2, NextAdvances DEF Inv, TypeOK
    <2>3. \A m \in repeated' \ repeated : [x \in Messages |-> Stage(x)][m] = "taken"
      BY <2>2, StageCases
    <2> QED
      BY <1>2, <2>1, <2>3, RepeatedGrows DEF StepOf, Abstract!Next
  <1> QED
    BY <1>1, <1>2

\* Every behaviour of the scheduler, in all processes and with the senders' requests
\* in between, is one of the Outbox: what leaves a pass posted is settled or named as
\* repeated, what is recorded as sent was posted, nothing settled comes back.
THEOREM SchedulerImplementsOutbox == Spec => ImplementsOutbox
  BY InvInit, InvStep, RefinementInit, RefinementStep, PTL
    DEF Spec, ImplementsOutbox, Abstract!Spec
-----------------------------------------------------------------------------
(* Passes that do not overlap                                              *)

\* One pass at a time in the whole cluster, and no process goes down: what the
\* scheduler relies on when it takes "pending" for a claim.
Undisturbed ==
    /\ up = Processes
    /\ \A p, q \in Passes : p # q => pass[p].at = "idle" \/ pass[q].at = "idle"

NoneRepeated == repeated = {}

\* Then nothing is ever at risk of being repeated.
LEMMA UndisturbedStep ==
    ASSUME TypeOK, repeated = {}, Undisturbed, Undisturbed', [Next]_vars
    PROVE  repeated' = {}
  <1>1. ASSUME NEW p \in Passes, StartPass(p) PROVE repeated' = {}
    <2>1. pass'[p].at # "idle"
      <3>1. pass \in [Passes -> Pass] /\ Found # {} /\ TakeNext(p, Found)
        BY <1>1 DEF StartPass, TypeOK
      <3> QED
        BY <3>1 DEF TakeNext
    <2>2. ASSUME NEW q \in Passes \ {p} PROVE pass[q].at = "idle"
      <3>1. pass'[q] = pass[q]
        <4>1. pass \in [Passes -> Pass] /\ TakeNext(p, Found)
          BY <1>1 DEF StartPass, TypeOK
        <4> QED
          BY <4>1 DEF TakeNext
      <3> QED
        BY <2>1, <3>1 DEF Undisturbed
    <2>3. \A q \in Passes \ {p} : pass[q] = Resting
      BY <2>2 DEF TypeOK
    <2>4. HeldByOthers(p) = {}
      BY <2>3 DEF HeldByOthers, Holds, Resting
    <2> QED
      BY <1>1, <2>4 DEF StartPass
  <1>2. ASSUME NEW i \in Processes PROVE ~Die(i)
    BY <1>2 DEF Die, Undisturbed
  <1>3. ASSUME NEW p \in Passes, SaveFailed(p) PROVE repeated' = {}
    <2>1. ProcessOf(p) \in Processes
      BY DEF Passes, ProcessOf
    <2> QED
      BY <1>2, <1>3, <2>1 DEF SaveFailed
  <1>4. ASSUME NEW i \in Processes, Crash(i) PROVE repeated' = {}
    BY <1>2, <1>4 DEF Crash
  <1>5. ASSUME NEW c \in Clients, NEW m \in Messages, CheckedRequest(c, m) \/ DeleteRequest(c, m)
        PROVE  repeated' = {}
    BY <1>5 DEF CheckedRequest, DeleteRequest
  <1>6. ASSUME NEW m \in Messages, ScheduleMessage(m) \/ TimePasses(m) PROVE repeated' = {}
    BY <1>6 DEF ScheduleMessage, TimePasses
  <1>7. ASSUME NEW c \in Clients, SaveEdit(c) \/ SaveCancel(c) \/ Delete(c) \/ RequestFails(c)
        PROVE  repeated' = {}
    BY <1>7 DEF SaveEdit, SaveCancel, Delete, RequestFails
  <1>8. ASSUME NEW p \in Passes, Post(p) \/ SaveSent(p) PROVE repeated' = {}
    BY <1>8 DEF Post, SaveSent
  <1> QED
    BY <1>1, <1>3, <1>4, <1>5, <1>6, <1>7, <1>8 DEF Next, Work, Restart, vars

\* The record is what happened: what is sent stands in the conversation once, what
\* waits does not, and nothing stands there twice.
RecordsAreTrue ==
    \A m \in Messages :
        /\ posted[m] <= 1
        /\ status[m] = "sent" => posted[m] = 1
        /\ status[m] = "pending" /\ ~Taken(m) => posted[m] = 0

\* Edits, cancellations, deletions and failed operations alone never make a message
\* stand twice in its conversation, nor a record untrue: overlapping passes or the end
\* of a process are needed.
THEOREM SerialPassesPostOnce == Spec /\ []Undisturbed => []RecordsAreTrue
  <1>1. Init => NoneRepeated
    BY DEF Init, NoneRepeated
  <1>2. TypeOK /\ NoneRepeated /\ Undisturbed /\ Undisturbed' /\ [Next]_vars => NoneRepeated'
    BY UndisturbedStep DEF NoneRepeated
  <1>3. Inv /\ NoneRepeated => RecordsAreTrue
    <2> SUFFICES ASSUME Inv, repeated = {}, NEW m \in Messages
                 PROVE  /\ posted[m] <= 1
                        /\ status[m] = "sent" => posted[m] = 1
                        /\ status[m] = "pending" /\ ~Taken(m) => posted[m] = 0
      BY DEF RecordsAreTrue, NoneRepeated
    <2>1. posted[m] \in Nat /\ m \notin repeated
      BY DEF Inv, TypeOK
    <2>2. posted[m] <= 1
      BY <2>1 DEF Inv, PostedOnce
    <2>3. status[m] = "sent" => posted[m] = 1
      BY <2>1, <2>2 DEF Inv, SentIsPosted
    <2>4. status[m] = "pending" /\ ~Taken(m) => posted[m] = 0
      BY <2>1 DEF Inv, Recorded, Recording, Taken, Holds
    <2> QED
      BY <2>2, <2>3, <2>4
  <1>4. Inv => TypeOK
    BY DEF Inv
  <1> QED
    BY <1>1, <1>2, <1>3, <1>4, InvInit, InvStep, PTL DEF Spec
=============================================================================
