--------------------------- MODULE Conversations_proof ---------------------------
(* Proofs about Conversations: for any users, messages, workers and limit,   *)
(* what is checked before it is written passes its bound by no more than the *)
(* requests at the same time, the last message is not one that was over      *)
(* before another began, and no unread count passes the messages of others.  *)
EXTENDS Conversations, FiniteSetTheorems, TLAPS

-----------------------------------------------------------------------------
(* Types                                                                   *)

\* What a request has still to write names a message or a user, as its kind needs.
Named(r) ==
    /\ r.op \in {"pin", "unpin", "receipt", "read", "react", "last", "fetch", "count"}
          => r.on \in Messages
    /\ r.op \in {"add", "remove"} => r.on \in Users
    /\ r.op \in {"receipt", "read", "react", "last", "fetch", "count"} => r.by \in Users
ReqNamed == \A w \in Workers : Named(req[w])
Types == TypeOK /\ ReqNamed

\* The creator is a user.
LEMMA CreatorIsUser == Creator \in Users
  BY GroupAssumption DEF Creator

\* An idle worker has nothing to write.
LEMMA IdleIsRequest == Idle \in Request /\ Named(Idle) /\ Idle.op = "idle"
  BY DEF Idle, Request, Named

\* What is asked is a request.
LEMMA AskIsRequest ==
    ASSUME NEW u \in Users, NEW op \in {"add", "remove", "delete", "pin", "unpin", "receipt",
                                        "read", "react", "last", "direct"},
           NEW x \in Users \cup Messages \cup {None}
    PROVE  /\ Ask(op, u, x) \in Request
           /\ Ask(op, u, x).op = op /\ Ask(op, u, x).by = u /\ Ask(op, u, x).on = x
  BY DEF Ask, Request

\* A new entry is an entry, and has nothing unread.
LEMMA NewIsEntry ==
    ASSUME NEW u \in Users
    PROVE  NewEntry(u) \in Entry /\ NewEntry(u).unread = 0 /\ NewEntry(u).user = u
  BY DEF NewEntry, Entry

\* A request that begins keeps the requests' types.
LEMMA BeginTypes ==
    ASSUME Types, NEW w \in Workers, NEW r \in Request, Named(r), Begin(w, r)
    PROVE  req' \in [Workers -> Request] /\ ReqNamed' /\ requests' \in 0..MaxRequests
  BY BoundAssumption DEF Types, TypeOK, ReqNamed, Begin

\* So does one that goes on.
LEMMA GoTypes ==
    ASSUME Types, NEW w \in Workers, NEW r \in Request, Named(r), Go(w, r)
    PROVE  req' \in [Workers -> Request] /\ ReqNamed' /\ requests' \in 0..MaxRequests
  BY DEF Types, TypeOK, ReqNamed, Go

\* So does one that ends.
LEMMA EndTypes ==
    ASSUME Types, NEW w \in Workers, End(w)
    PROVE  req' \in [Workers -> Request] /\ ReqNamed' /\ requests' \in 0..MaxRequests
  BY GoTypes, IdleIsRequest DEF End

\* The initial documents have their types.
LEMMA InitTypes == Init => Types
  <1> SUFFICES ASSUME Init PROVE Types
    OBVIOUS
  <1>1. \A i \in Places : participants[i] \in Entry
    BY NewIsEntry, GroupAssumption DEF Init, Places
  <1>2. req \in [Workers -> Request] /\ ReqNamed
    BY IdleIsRequest DEF Init, ReqNamed
  <1>3. TypeOK
    BY <1>1, <1>2, BoundAssumption DEF Init, TypeOK
  <1> QED
    BY <1>2, <1>3 DEF Types

\* Asking keeps the types: it leaves the documents alone, but for a message that is
\* saved.
LEMMA AskTypes ==
    ASSUME Types, NEW w \in Workers,
           \/ \E u \in Users : AskAdd(w, u) \/ AskRemove(w, u) \/ AskDirect(w, u)
           \/ \E u \in Users, m \in Messages : AskReceipt(w, u, m) \/ AskReact(w, u, m)
           \/ \E m \in Messages : AskPin(w, m) \/ AskUnpin(w, m)
           \/ AskDelete(w)
    PROVE  Types'
  <1>1. UNCHANGED <<group, messages, direct, history>>
    BY DEF AskAdd, AskRemove, AskDirect, AskReceipt, AskReact, AskPin, AskUnpin, AskDelete
  <1>2. \E r \in Request : Named(r) /\ Begin(w, r)
    <2>1. ASSUME NEW u \in Users, AskAdd(w, u) \/ AskRemove(w, u) \/ AskDirect(w, u)
          PROVE  \E r \in Request : Named(r) /\ Begin(w, r)
      <3>1. CASE AskAdd(w, u)
        BY <3>1, AskIsRequest, CreatorIsUser DEF AskAdd, Named
      <3>2. CASE AskRemove(w, u)
        BY <3>2, AskIsRequest, CreatorIsUser DEF AskRemove, Named
      <3>3. CASE AskDirect(w, u)
        BY <3>3, AskIsRequest DEF AskDirect, Named
      <3> QED
        BY <2>1, <3>1, <3>2, <3>3
    <2>2. ASSUME NEW u \in Users, NEW m \in Messages, AskReceipt(w, u, m) \/ AskReact(w, u, m)
          PROVE  \E r \in Request : Named(r) /\ Begin(w, r)
      <3>1. CASE AskReceipt(w, u, m)
        BY <3>1, AskIsRequest DEF AskReceipt, Named
      <3>2. CASE AskReact(w, u, m)
        BY <3>2, AskIsRequest DEF AskReact, Named
      <3> QED
        BY <2>2, <3>1, <3>2
    <2>3. ASSUME NEW m \in Messages, AskPin(w, m) \/ AskUnpin(w, m)
          PROVE  \E r \in Request : Named(r) /\ Begin(w, r)
      BY <2>3, AskIsRequest, CreatorIsUser DEF AskPin, AskUnpin, Named
    <2>4. CASE AskDelete(w)
      BY <2>4, AskIsRequest, CreatorIsUser DEF AskDelete, Named
    <2> QED
      BY <2>1, <2>2, <2>3, <2>4
  <1>3. req' \in [Workers -> Request] /\ ReqNamed' /\ requests' \in 0..MaxRequests
    BY <1>2, BeginTypes
  <1> QED
    BY <1>1, <1>3 DEF Types, TypeOK, group, messages, history, Places

\* Saving a message, and taking reactions away, keep the types.
LEMMA SaveTypes ==
    ASSUME Types, NEW w \in Workers, NEW u \in Users, NEW m \in Messages,
           Save(w, u, m) \/ Unreact(w, u, m)
    PROVE  Types'
  <1>1. CASE Save(w, u, m)
    <2>1. req' \in [Workers -> Request] /\ ReqNamed' /\ requests' \in 0..MaxRequests
      <3>1. Ask("last", u, m) \in Request /\ Named(Ask("last", u, m))
        BY AskIsRequest DEF Named
      <3> QED
        BY <1>1, <3>1, BeginTypes DEF Save
    <2> QED
      BY <1>1, <2>1 DEF Types, TypeOK, Save, group, Places
  <1>2. CASE Unreact(w, u, m)
    <2>1. req' \in [Workers -> Request] /\ ReqNamed' /\ requests' \in 0..MaxRequests
      BY <1>2, BeginTypes, IdleIsRequest DEF Unreact
    <2> QED
      BY <1>2, <2>1 DEF Types, TypeOK, Unreact, group, history, Places
  <1> QED
    BY <1>1, <1>2

\* Writing the group's document keeps the types.
LEMMA GroupTypes ==
    ASSUME Types, NEW w \in Workers,
           \/ WriteAdd(w) \/ WriteRemove(w) \/ WriteDelete(w) \/ WriteDirect(w)
           \/ WritePin(w) \/ WriteUnpin(w) \/ RequestFails(w)
    PROVE  Types'
  <1>1. req' \in [Workers -> Request] /\ ReqNamed' /\ requests' \in 0..MaxRequests
    BY EndTypes DEF WriteAdd, WriteRemove, WriteDelete, WriteDirect, WritePin, WriteUnpin, RequestFails
  <1>2. Named(req[w])
    BY DEF Types, ReqNamed
  <1>3. CASE WriteAdd(w)
    <2>1. \A i \in Places' : participants'[i] \in Entry
      BY <1>2, <1>3, NewIsEntry DEF Types, TypeOK, WriteAdd, Places, Named
    <2> QED
      BY <1>1, <1>3, <2>1 DEF Types, TypeOK, WriteAdd, messages, history
  <1>4. CASE WriteRemove(w)
    <2>1. \A i \in Places' : participants'[i] \in Entry
      BY <1>4 DEF Types, TypeOK, WriteRemove, Places
    <2> QED
      BY <1>1, <1>4, <2>1 DEF Types, TypeOK, WriteRemove, messages, history
  <1>5. CASE WriteDelete(w)
    <2>1. \A i \in Places' : participants'[i] \in Entry
      BY <1>5 DEF WriteDelete, Places
    <2> QED
      BY <1>1, <1>5, <2>1 DEF Types, TypeOK, WriteDelete, messages, history
  <1>6. CASE WriteDirect(w)
    BY <1>1, <1>6 DEF Types, TypeOK, WriteDirect, group, messages, history, Places
  <1>7. CASE WritePin(w)
    BY <1>1, <1>2, <1>7 DEF Types, TypeOK, WritePin, messages, history, Places, Named
  <1>8. CASE WriteUnpin(w)
    BY <1>1, <1>8 DEF Types, TypeOK, WriteUnpin, messages, history, Places
  <1>9. CASE RequestFails(w)
    BY <1>1, <1>9 DEF Types, TypeOK, RequestFails, group, messages, history, Places
  <1> QED
    BY <1>3, <1>4, <1>5, <1>6, <1>7, <1>8, <1>9

\* An entry whose unread count, or last read message, is set is an entry.
LEMMA EntryTypes ==
    ASSUME Types, NEW i \in Places, NEW n \in Nat, NEW x \in Messages \cup {None}
    PROVE  /\ \A j \in Places : [participants EXCEPT ![i].unread = n, ![i].lastRead = x][j] \in Entry
           /\ \A j \in Places : [participants EXCEPT ![i].unread = n][j] \in Entry
  BY DEF Types, TypeOK, Places, Entry

\* Going on with a message, and reading one, keep the types.
LEMMA MessageTypes ==
    ASSUME Types, NEW w \in Workers,
           \/ WriteLast(w) \/ Fetch(w) \/ WriteCount(w)
           \/ WriteReceipt(w) \/ WriteRead(w) \/ WriteReact(w)
    PROVE  Types'
  <1>1. Named(req[w]) /\ req[w] \in Request
    BY DEF Types, TypeOK, ReqNamed
  <1>2. CASE WriteLast(w)
    <2>1. [req[w] EXCEPT !.op = "fetch"] \in Request /\ Named([req[w] EXCEPT !.op = "fetch"])
      BY <1>1, <1>2 DEF WriteLast, Request, Named
    <2>2. req' \in [Workers -> Request] /\ ReqNamed' /\ requests' \in 0..MaxRequests
      BY <1>2, <2>1, GoTypes DEF WriteLast
    <2> QED
      BY <1>1, <1>2, <2>2 DEF Types, TypeOK, WriteLast, messages, Places, Named
  <1>3. CASE Fetch(w)
    <2> DEFINE r == [req[w] EXCEPT !.op = "count", !.to = Members \ {req[w].by}]
    <2>1. Members \subseteq Users
      BY DEF Types, TypeOK, Members, Entry
    <2>2. r \in Request /\ Named(r)
      BY <1>1, <1>3, <2>1 DEF Fetch, Request, Named
    <2>3. req' \in [Workers -> Request] /\ ReqNamed' /\ requests' \in 0..MaxRequests
      BY <1>3, <2>2, GoTypes, EndTypes DEF Fetch
    <2> QED
      BY <1>3, <2>3 DEF Types, TypeOK, Fetch, group, messages, history, Places
  <1>4. CASE WriteCount(w)
    <2>1. req' \in [Workers -> Request] /\ ReqNamed' /\ requests' \in 0..MaxRequests
      BY <1>4, EndTypes DEF WriteCount
    <2>2. \A i \in Places' : participants'[i] \in Entry
      <3>1. CASE Unmatched(req[w].to)
        BY <3>1 DEF Unmatched, Types, TypeOK, Places
      <3>2. ASSUME NEW i \in First(req[w].to),
                   participants' = [participants EXCEPT ![i].unread = @ + 1]
            PROVE  \A j \in Places' : participants'[j] \in Entry
        <4>1. i \in Places /\ participants[i].unread + 1 \in Nat
          BY <3>2 DEF First, Matching, Types, TypeOK, Entry
        <4>2. participants' = [participants EXCEPT ![i].unread = participants[i].unread + 1]
          BY <3>2
        <4> QED
          BY <4>1, <4>2, EntryTypes DEF Places
      <3> QED
        BY <1>4, <3>1, <3>2 DEF WriteCount
    <2> QED
      BY <1>1, <1>4, <2>1, <2>2 DEF Types, TypeOK, WriteCount, messages, Named
  <1>5. CASE WriteReceipt(w)
    <2>1. [req[w] EXCEPT !.op = "read"] \in Request /\ Named([req[w] EXCEPT !.op = "read"])
      BY <1>1, <1>5 DEF WriteReceipt, Request, Named
    <2>2. req' \in [Workers -> Request] /\ ReqNamed' /\ requests' \in 0..MaxRequests
      BY <1>5, <2>1, GoTypes, EndTypes DEF WriteReceipt
    <2>3. receipts' \in [Messages -> [Users -> Nat]]
      BY <1>1, <1>5 DEF WriteReceipt, Types, TypeOK, Named
    <2> QED
      BY <1>5, <2>2, <2>3 DEF Types, TypeOK, WriteReceipt, group, history, Places
  <1>6. CASE WriteRead(w)
    <2>1. req' \in [Workers -> Request] /\ ReqNamed' /\ requests' \in 0..MaxRequests
      BY <1>6, EndTypes DEF WriteRead
    <2>2. \A i \in Places' : participants'[i] \in Entry
      <3>1. CASE Unmatched({req[w].by})
        BY <3>1 DEF Unmatched, Types, TypeOK, Places
      <3>2. ASSUME NEW i \in First({req[w].by}),
                   participants' = [participants EXCEPT ![i].unread = 0, ![i].lastRead = req[w].on]
            PROVE  \A j \in Places' : participants'[j] \in Entry
        <4>1. i \in Places /\ req[w].on \in Messages
          BY <1>1, <1>6 DEF First, Matching, WriteRead, Named
        <4> QED
          BY <3>2, <4>1, EntryTypes DEF Places
      <3> QED
        BY <1>6, <3>1, <3>2 DEF WriteRead
    <2> QED
      BY <1>6, <2>1, <2>2 DEF Types, TypeOK, WriteRead, messages, history
  <1>7. CASE WriteReact(w)
    <2>1. req' \in [Workers -> Request] /\ ReqNamed' /\ requests' \in 0..MaxRequests
      BY <1>7, EndTypes DEF WriteReact
    <2>2. reactions' \in [Messages -> [Users -> Nat]]
      BY <1>1, <1>7 DEF WriteReact, Types, TypeOK, Named
    <2> QED
      BY <1>7, <2>1, <2>2 DEF Types, TypeOK, WriteReact, group, history, Places
  <1> QED
    BY <1>2, <1>3, <1>4, <1>5, <1>6, <1>7

\* Every step keeps the types.
LEMMA TypeStep == Types /\ [Next]_vars => Types'
  <1> SUFFICES ASSUME Types, [Next]_vars PROVE Types'
    OBVIOUS
  <1>1. CASE UNCHANGED vars
    BY <1>1 DEF vars, group, messages, history, Types, TypeOK, ReqNamed, Places
  <1>2. CASE Next
    <2> PICK w \in Workers :
        \/ \E u \in Users :
              \/ AskAdd(w, u) \/ AskRemove(w, u) \/ AskDirect(w, u)
              \/ \E m \in Messages :
                    \/ Save(w, u, m) \/ AskReceipt(w, u, m)
                    \/ AskReact(w, u, m) \/ Unreact(w, u, m)
        \/ \E m \in Messages : AskPin(w, m) \/ AskUnpin(w, m)
        \/ AskDelete(w)
        \/ WriteAdd(w) \/ WriteRemove(w) \/ WriteDelete(w) \/ WriteDirect(w)
        \/ WritePin(w) \/ WriteUnpin(w)
        \/ WriteLast(w) \/ Fetch(w) \/ WriteCount(w)
        \/ WriteReceipt(w) \/ WriteRead(w) \/ WriteReact(w)
        \/ RequestFails(w)
      BY <1>2 DEF Next
    <2> QED
      BY AskTypes, SaveTypes, GroupTypes, MessageTypes
  <1> QED
    BY <1>1, <1>2

\* Every variable holds a value of its type; no unread count goes below 0.
THEOREM TypeCorrect == Spec => []TypeOK
  <1>1. Types => TypeOK
    BY DEF Types
  <1> QED
    BY <1>1, InitTypes, TypeStep, PTL DEF Spec

-----------------------------------------------------------------------------
(* Checked, then written                                                   *)

\* A subset has no more elements, and one element less is one less.
LEMMA Fewer ==
    ASSUME NEW P, IsFiniteSet(P), NEW Q \in SUBSET P
    PROVE  /\ Cardinality(P) \in Nat /\ Cardinality(Q) \in Nat /\ IsFiniteSet(Q)
           /\ Cardinality(Q) <= Cardinality(P)
           /\ \A w \in P : w \notin Q => Cardinality(Q) < Cardinality(P)
  <1>1. IsFiniteSet(Q) /\ Cardinality(Q) <= Cardinality(P)
    BY FS_Subset
  <1>2. Cardinality(P) \in Nat /\ Cardinality(Q) \in Nat
    BY <1>1, FS_CardinalityType
  <1>3. ASSUME NEW w \in P, w \notin Q PROVE Cardinality(Q) < Cardinality(P)
    <2>1. Cardinality(Q) # Cardinality(P)
      BY <1>3, FS_Subset
    <2> QED
      BY <1>1, <1>2, <2>1
  <1> QED
    BY <1>1, <1>2, <1>3

\* Workers that are about to write what u asked of x.
Writing(op, x, u) == {w \in Workers : req[w].op = op /\ req[w].on = x /\ req[w].by = u}
Pinning == {w \in Workers : req[w].op = "pin"}
Opening == {w \in Workers : req[w].op = "direct"}

\* No set of workers is larger than that of all.
LEMMA WorkersBound ==
    ASSUME NEW P \in SUBSET Workers
    PROVE  /\ IsFiniteSet(P) /\ Cardinality(P) \in Nat /\ Cardinality(Workers) \in Nat
           /\ Cardinality(P) <= Cardinality(Workers)
  BY FiniteAssumption, Fewer

\* What a step may do to the requests: only one worker's changes.
OneMoves(w, r) == req' = [req EXCEPT ![w] = r]

\* Every step leaves the others' requests as they are.
LEMMA Moves ==
    ASSUME Types, NEW w \in Workers, NEW r, OneMoves(w, r)
    PROVE  req'[w] = r /\ \A v \in Workers \ {w} : req'[v] = req[v]
  BY DEF Types, TypeOK, OneMoves

\* What a step of w, which leaves it r to do, may do to what is checked first.
PinEffect(w, r) ==
    IF r.op = "pin" THEN pinned' = pinned /\ Cardinality(pinned) < Limit
    ELSE pinned' \subseteq pinned \/ (req[w].op = "pin" /\ pinned' = pinned \cup {req[w].on})
ReceiptEffect(w, r) ==
    IF r.op = "receipt" THEN receipts' = receipts /\ receipts[r.on][r.by] = 0
    ELSE \/ receipts' = receipts
         \/ req[w].op = "receipt" /\ receipts' = [receipts EXCEPT ![req[w].on][req[w].by] = @ + 1]
ReactEffect(w, r) ==
    IF r.op = "react" THEN reactions' = reactions /\ reactions[r.on][r.by] = 0
    ELSE \/ reactions' = reactions
         \/ \E m \in Messages, u \in Users : reactions' = [reactions EXCEPT ![m][u] = 0]
         \/ req[w].op = "react" /\ reactions' = [reactions EXCEPT ![req[w].on][req[w].by] = @ + 1]
DirectEffect(w, r) ==
    IF r.op = "direct" THEN direct' = direct /\ direct = 0
    ELSE direct' = direct \/ (req[w].op = "direct" /\ direct' = direct + 1)
Effect(w, r) ==
    /\ OneMoves(w, r)
    /\ PinEffect(w, r) /\ ReceiptEffect(w, r) /\ ReactEffect(w, r) /\ DirectEffect(w, r)

\* A step that neither asks for nor writes any of these has that effect.
LEMMA QuietEffect ==
    ASSUME NEW w \in Workers, NEW r, OneMoves(w, r),
           r.op \notin {"pin", "receipt", "react", "direct"},
           UNCHANGED <<pinned, receipts, reactions, direct>>
    PROVE  Effect(w, r)
  BY DEF Effect, PinEffect, ReceiptEffect, ReactEffect, DirectEffect

\* The request that begins is the one that was asked.
LEMMA Asked ==
    ASSUME NEW w \in Workers, NEW op, NEW u, NEW x, Begin(w, Ask(op, u, x))
    PROVE  /\ OneMoves(w, Ask(op, u, x))
           /\ Ask(op, u, x).op = op /\ Ask(op, u, x).by = u /\ Ask(op, u, x).on = x
  BY DEF Begin, OneMoves, Ask

\* Every step that asks something of the group, or for a conversation, has it.
LEMMA GroupAskEffects ==
    ASSUME Types, NEW w \in Workers, NEW u \in Users,
           AskAdd(w, u) \/ AskRemove(w, u) \/ AskDirect(w, u) \/ AskDelete(w)
    PROVE  \E r : Effect(w, r)
  <1> USE Asked DEF group, messages
  <1>1. CASE AskAdd(w, u)
    <2>1. Effect(w, Ask("add", Creator, u))
      BY <1>1, QuietEffect DEF AskAdd
    <2> QED
      BY <2>1
  <1>2. CASE AskRemove(w, u)
    <2>1. Effect(w, Ask("remove", Creator, u))
      BY <1>2, QuietEffect DEF AskRemove
    <2> QED
      BY <2>1
  <1>3. CASE AskDirect(w, u)
    <2>1. Effect(w, Ask("direct", u, None))
      BY <1>3 DEF AskDirect, Effect, PinEffect, ReceiptEffect, ReactEffect, DirectEffect
    <2> QED
      BY <2>1
  <1>4. CASE AskDelete(w)
    <2>1. Effect(w, Ask("delete", Creator, None))
      BY <1>4, QuietEffect DEF AskDelete
    <2> QED
      BY <2>1
  <1> QED
    BY <1>1, <1>2, <1>3, <1>4

\* So does every step that asks something about a message.
LEMMA MessageAskEffects ==
    ASSUME Types, NEW w \in Workers, NEW u \in Users, NEW m \in Messages,
           \/ Save(w, u, m) \/ AskReceipt(w, u, m) \/ AskReact(w, u, m) \/ Unreact(w, u, m)
           \/ AskPin(w, m) \/ AskUnpin(w, m)
    PROVE  \E r : Effect(w, r)
  <1> USE Asked DEF group, messages
  <1>1. CASE Save(w, u, m)
    <2>1. Effect(w, Ask("last", u, m))
      BY <1>1, QuietEffect DEF Save
    <2> QED
      BY <2>1
  <1>2. CASE AskReceipt(w, u, m)
    <2>1. CASE receipts[m][u] = 0
      <3>1. Effect(w, Ask("receipt", u, m))
        BY <1>2, <2>1 DEF AskReceipt, Effect, PinEffect, ReceiptEffect, ReactEffect, DirectEffect
      <3> QED
        BY <3>1
    <2>2. CASE receipts[m][u] # 0
      <3>1. Effect(w, Ask("read", u, m))
        BY <1>2, <2>2, QuietEffect DEF AskReceipt
      <3> QED
        BY <3>1
    <2> QED
      BY <2>1, <2>2
  <1>3. CASE AskReact(w, u, m)
    <2>1. Effect(w, Ask("react", u, m))
      BY <1>3 DEF AskReact, Effect, PinEffect, ReceiptEffect, ReactEffect, DirectEffect
    <2> QED
      BY <2>1
  <1>4. CASE Unreact(w, u, m)
    <2>1. Effect(w, Idle)
      BY <1>4, IdleIsRequest
      DEF Unreact, Begin, Effect, OneMoves, PinEffect, ReceiptEffect, ReactEffect, DirectEffect
    <2> QED
      BY <2>1
  <1>5. CASE AskPin(w, m)
    <2>1. Effect(w, Ask("pin", Creator, m))
      BY <1>5 DEF AskPin, Effect, PinEffect, ReceiptEffect, ReactEffect, DirectEffect
    <2> QED
      BY <2>1
  <1>6. CASE AskUnpin(w, m)
    <2>1. Effect(w, Ask("unpin", Creator, m))
      BY <1>6, QuietEffect DEF AskUnpin
    <2> QED
      BY <2>1
  <1> QED
    BY <1>1, <1>2, <1>3, <1>4, <1>5, <1>6

\* So does every step that goes on or ends.
LEMMA WriteEffects ==
    ASSUME Types, NEW w \in Workers,
           \/ WriteAdd(w) \/ WriteRemove(w) \/ WriteDelete(w) \/ WriteDirect(w)
           \/ WritePin(w) \/ WriteUnpin(w) \/ WriteLast(w) \/ Fetch(w) \/ WriteCount(w)
           \/ WriteReceipt(w) \/ WriteRead(w) \/ WriteReact(w) \/ RequestFails(w)
    PROVE  \E r : Effect(w, r)
  <1>0. req[w] \in Request /\ Idle.op = "idle"
    BY IdleIsRequest DEF Types, TypeOK
  <1> USE <1>0 DEF Effect, OneMoves, PinEffect, ReceiptEffect, ReactEffect, DirectEffect, Go, End,
              group, messages
  <1>1. CASE WriteAdd(w)
    BY <1>1 DEF WriteAdd
  <1>2. CASE WriteRemove(w)
    BY <1>2 DEF WriteRemove
  <1>3. CASE WriteDelete(w)
    BY <1>3 DEF WriteDelete
  <1>4. CASE WriteDirect(w)
    BY <1>4 DEF WriteDirect
  <1>5. CASE WritePin(w)
    BY <1>5 DEF WritePin
  <1>6. CASE WriteUnpin(w)
    BY <1>6 DEF WriteUnpin
  <1>7. CASE WriteLast(w)
    <2>1. Effect(w, [req[w] EXCEPT !.op = "fetch"])
      BY <1>7, QuietEffect DEF WriteLast, Request
    <2> QED
      BY <2>1
  <1>8. CASE Fetch(w)
    <2>1. CASE exists
      <3> DEFINE r == [req[w] EXCEPT !.op = "count", !.to = Members \ {req[w].by}]
      <3>1. r.op = "count"
        BY DEF Request
      <3>2. Effect(w, r)
        BY <1>8, <2>1, <3>1, QuietEffect DEF Fetch
      <3> QED
        BY <3>2
    <2>2. CASE ~exists
      BY <1>8, <2>2 DEF Fetch
    <2> QED
      BY <2>1, <2>2
  <1>9. CASE WriteCount(w)
    BY <1>9 DEF WriteCount
  <1>10. CASE WriteReceipt(w)
    <2>1. CASE End(w)
      BY <1>10, <2>1 DEF WriteReceipt
    <2>2. CASE Go(w, [req[w] EXCEPT !.op = "read"])
      BY <1>10, <2>2 DEF WriteReceipt, Request
    <2> QED
      BY <1>10, <2>1, <2>2 DEF WriteReceipt
  <1>11. CASE WriteRead(w)
    BY <1>11 DEF WriteRead
  <1>12. CASE WriteReact(w)
    BY <1>12 DEF WriteReact
  <1>13. CASE RequestFails(w)
    BY <1>13 DEF RequestFails
  <1> QED
    BY <1>1, <1>2, <1>3, <1>4, <1>5, <1>6, <1>7, <1>8, <1>9, <1>10, <1>11, <1>12, <1>13

\* Every step has such an effect.
LEMMA Effects ==
    ASSUME Types, Next
    PROVE  \E w \in Workers : \E r : Effect(w, r)
  <1>1. PICK w \in Workers :
        \/ \E u \in Users :
              \/ AskAdd(w, u) \/ AskRemove(w, u) \/ AskDirect(w, u)
              \/ \E m \in Messages :
                    \/ Save(w, u, m) \/ AskReceipt(w, u, m)
                    \/ AskReact(w, u, m) \/ Unreact(w, u, m)
        \/ \E m \in Messages : AskPin(w, m) \/ AskUnpin(w, m)
        \/ AskDelete(w)
        \/ WriteAdd(w) \/ WriteRemove(w) \/ WriteDelete(w) \/ WriteDirect(w)
        \/ WritePin(w) \/ WriteUnpin(w)
        \/ WriteLast(w) \/ Fetch(w) \/ WriteCount(w)
        \/ WriteReceipt(w) \/ WriteRead(w) \/ WriteReact(w)
        \/ RequestFails(w)
    BY DEF Next
  <1> QED
    BY <1>1, GroupAskEffects, MessageAskEffects, WriteEffects, CreatorIsUser

\* With what is about to be pinned, the pins are fewer than this.
PinRoom == Cardinality(pinned) + Cardinality(Pinning) < Limit + Cardinality(Workers)

\* Nothing is pinned at the start.
LEMMA InitPins == Init => PinRoom
  <1> SUFFICES ASSUME Init PROVE PinRoom
    OBVIOUS
  <1>1. pinned = {} /\ Pinning = {}
    BY IdleIsRequest DEF Init, Pinning
  <1>2. Cardinality(pinned) = 0 /\ Cardinality(Pinning) = 0
    BY <1>1, FS_EmptySet
  <1> QED
    BY <1>2, WorkersBound, LimitAssumption DEF PinRoom

\* A step that neither pins nor asks to pin leaves no fewer places.
LEMMA PinsKept ==
    ASSUME Types, PinRoom, pinned' \subseteq pinned, Pinning' \subseteq Pinning
    PROVE  PinRoom'
  <1>1. IsFiniteSet(pinned) /\ IsFiniteSet(Pinning) /\ Cardinality(Workers) \in Nat
    BY FiniteAssumption, FS_Subset, WorkersBound DEF Types, TypeOK, Pinning
  <1>2. /\ Cardinality(pinned') \in Nat /\ Cardinality(pinned) \in Nat
        /\ Cardinality(pinned') <= Cardinality(pinned)
    BY <1>1, Fewer
  <1>3. /\ Cardinality(Pinning') \in Nat /\ Cardinality(Pinning) \in Nat
        /\ Cardinality(Pinning') <= Cardinality(Pinning)
    BY <1>1, Fewer
  <1> QED
    BY <1>1, <1>2, <1>3, LimitAssumption DEF PinRoom

\* Who asks to pin has seen fewer pins than the limit; a pin that is written is no
\* longer about to be.
LEMMA PinStep == Types /\ PinRoom /\ [Next]_vars => PinRoom'
  <1> SUFFICES ASSUME Types, PinRoom, [Next]_vars PROVE PinRoom'
    OBVIOUS
  <1>0. /\ IsFiniteSet(pinned) /\ Cardinality(pinned) \in Nat
        /\ IsFiniteSet(Pinning) /\ Cardinality(Pinning) \in Nat
    BY FiniteAssumption, FS_Subset, FS_CardinalityType, WorkersBound DEF Types, TypeOK, Pinning
  <1>1. ASSUME NEW w \in Workers, NEW r, Effect(w, r) PROVE PinRoom'
    <2>0. req'[w] = r /\ \A v \in Workers \ {w} : req'[v] = req[v]
      BY <1>1, Moves DEF Effect
    <2>1. CASE r.op = "pin"
      <3>1. Cardinality(Pinning') \in Nat /\ Cardinality(Pinning') <= Cardinality(Workers)
        BY WorkersBound DEF Pinning
      <3>2. pinned' = pinned /\ Cardinality(pinned) < Limit
        BY <1>1, <2>1 DEF Effect, PinEffect
      <3> QED
        BY <1>0, <3>1, <3>2, WorkersBound, LimitAssumption DEF PinRoom
    <2>2. CASE r.op # "pin" /\ pinned' \subseteq pinned
      BY <2>0, <2>2, PinsKept DEF Pinning
    <2>3. CASE r.op # "pin" /\ req[w].op = "pin" /\ pinned' = pinned \cup {req[w].on}
      <3>1. Pinning' \subseteq Pinning /\ w \in Pinning /\ w \notin Pinning'
        BY <2>0, <2>3 DEF Pinning
      <3>2. Cardinality(Pinning') \in Nat /\ Cardinality(Pinning') < Cardinality(Pinning)
        BY <1>0, <3>1, Fewer
      <3>3. Cardinality(pinned \cup {req[w].on}) =
              IF req[w].on \in pinned THEN Cardinality(pinned) ELSE Cardinality(pinned) + 1
        BY <1>0, FS_AddElement
      <3>4. Cardinality(pinned') \in Nat /\ Cardinality(pinned') <= Cardinality(pinned) + 1
        BY <1>0, <2>3, <3>3
      <3> QED
        BY <1>0, <3>2, <3>4, WorkersBound, LimitAssumption DEF PinRoom
    <2> QED
      BY <1>1, <2>1, <2>2, <2>3 DEF Effect, PinEffect
  <1>2. CASE UNCHANGED vars
    BY <1>2, PinsKept DEF vars, group, Pinning
  <1> QED
    BY <1>1, <1>2, Effects

\* The limit on pins is passed by less than the number of requests at one time.
THEOREM Pins == Spec => []PinnedBound
  <1>1. Types /\ PinRoom => PinnedBound
    <2> SUFFICES ASSUME Types, PinRoom PROVE PinnedBound
      OBVIOUS
    <2>1. Cardinality(pinned) \in Nat /\ Cardinality(Pinning) \in Nat
      BY FiniteAssumption, FS_Subset, FS_CardinalityType, WorkersBound DEF Types, TypeOK, Pinning
    <2> QED
      BY <2>1, WorkersBound, LimitAssumption DEF PinRoom, PinnedBound
  <1> QED
    BY <1>1, InitTypes, InitPins, TypeStep, PinStep, PTL DEF Spec

-----------------------------------------------------------------------------
(* Once each                                                               *)

\* With what is about to be written, nobody has more receipts or reactions than there
\* are workers.
OnceRoom ==
    \A m \in Messages, u \in Users :
        /\ receipts[m][u] + Cardinality(Writing("receipt", m, u)) <= Cardinality(Workers)
        /\ reactions[m][u] + Cardinality(Writing("react", m, u)) <= Cardinality(Workers)

\* There are no receipts and no reactions at the start.
LEMMA InitOnce == Init => OnceRoom
  <1> SUFFICES ASSUME Init PROVE OnceRoom
    OBVIOUS
  <1>1. \A m \in Messages, u \in Users :
          Writing("receipt", m, u) = {} /\ Writing("react", m, u) = {}
    BY IdleIsRequest DEF Init, Writing
  <1>2. Cardinality({}) = 0 /\ 0 <= Cardinality(Workers)
    BY FS_EmptySet, WorkersBound
  <1>3. \A m \in Messages, u \in Users : receipts[m][u] = 0 /\ reactions[m][u] = 0
    BY DEF Init
  <1> QED
    BY <1>1, <1>2, <1>3 DEF OnceRoom

\* A step of w on a counter: it is left alone or set back while nothing more is about
\* to be written; it is seen to be 0 by who asks; or who writes adds one.
LEMMA Counting ==
    ASSUME NEW P \in SUBSET Workers, NEW Q \in SUBSET Workers, NEW n \in Nat, NEW k \in Nat,
           n + Cardinality(P) <= Cardinality(Workers),
           \/ k = 0
           \/ k = n /\ Q \subseteq P
           \/ k = n + 1 /\ Q \subseteq P /\ \E w \in P : w \notin Q
    PROVE  k + Cardinality(Q) <= Cardinality(Workers)
  <1>1. /\ IsFiniteSet(P) /\ Cardinality(P) \in Nat /\ Cardinality(Q) \in Nat
        /\ Cardinality(Workers) \in Nat /\ Cardinality(Q) <= Cardinality(Workers)
    BY WorkersBound
  <1>2. CASE k = 0
    BY <1>1, <1>2
  <1>3. CASE k = n /\ Q \subseteq P
    BY <1>1, <1>3, Fewer
  <1>4. CASE k = n + 1 /\ Q \subseteq P /\ \E w \in P : w \notin Q
    <2>1. Cardinality(Q) < Cardinality(P)
      BY <1>1, <1>4, Fewer
    <2> QED
      BY <1>1, <1>4, <2>1
  <1> QED
    BY <1>2, <1>3, <1>4

\* The receipts: who asks saw none, who writes is no longer about to.
LEMMA ReceiptStep ==
    ASSUME Types, OnceRoom, NEW w \in Workers, NEW r, Effect(w, r),
           NEW m \in Messages, NEW u \in Users
    PROVE  receipts'[m][u] + Cardinality(Writing("receipt", m, u)') <= Cardinality(Workers)
  <1> DEFINE P == Writing("receipt", m, u)
  <1>0. req'[w] = r /\ \A v \in Workers \ {w} : req'[v] = req[v]
    BY Moves DEF Effect
  <1>1. P \in SUBSET Workers /\ P' \in SUBSET Workers /\ receipts[m][u] \in Nat
    BY DEF Writing, Types, TypeOK
  <1>2. receipts[m][u] + Cardinality(P) <= Cardinality(Workers)
    BY DEF OnceRoom
  <1>3. CASE r.op = "receipt"
    <2>1. receipts' = receipts /\ receipts[r.on][r.by] = 0
      BY <1>3 DEF Effect, ReceiptEffect
    <2>2. CASE r.on = m /\ r.by = u
      BY <1>1, <1>2, <2>1, <2>2, Counting
    <2>3. CASE ~(r.on = m /\ r.by = u)
      <3>1. P' \subseteq P
        BY <1>0, <2>3 DEF Writing
      <3> QED
        BY <1>1, <1>2, <2>1, <3>1, Counting
    <2> QED
      BY <2>2, <2>3
  <1>4. CASE r.op # "receipt" /\ receipts' = receipts
    <2>1. P' \subseteq P
      BY <1>0, <1>4 DEF Writing
    <2> QED
      BY <1>1, <1>2, <1>4, <2>1, Counting
  <1>5. CASE /\ r.op # "receipt" /\ req[w].op = "receipt"
             /\ receipts' = [receipts EXCEPT ![req[w].on][req[w].by] = @ + 1]
    <2>1. P' \subseteq P
      BY <1>0, <1>5 DEF Writing
    <2>2. req[w].on \in Messages /\ req[w].by \in Users
      BY <1>5 DEF Types, ReqNamed, Named
    <2>3. CASE req[w].on = m /\ req[w].by = u
      <3>1. w \in P /\ w \notin P'
        BY <1>0, <1>5, <2>3 DEF Writing
      <3>2. receipts'[m][u] = receipts[m][u] + 1
        BY <1>5, <2>3 DEF Types, TypeOK
      <3> QED
        BY <1>1, <1>2, <2>1, <3>1, <3>2, Counting
    <2>4. CASE ~(req[w].on = m /\ req[w].by = u)
      <3>1. receipts'[m][u] = receipts[m][u]
        BY <1>5, <2>2, <2>4 DEF Types, TypeOK
      <3> QED
        BY <1>1, <1>2, <2>1, <3>1, Counting
    <2> QED
      BY <2>3, <2>4
  <1> QED
    BY <1>3, <1>4, <1>5 DEF Effect, ReceiptEffect

\* The reactions: the same, and who takes them away leaves none.
LEMMA ReactStep ==
    ASSUME Types, OnceRoom, NEW w \in Workers, NEW r, Effect(w, r),
           NEW m \in Messages, NEW u \in Users
    PROVE  reactions'[m][u] + Cardinality(Writing("react", m, u)') <= Cardinality(Workers)
  <1> DEFINE P == Writing("react", m, u)
  <1>0. req'[w] = r /\ \A v \in Workers \ {w} : req'[v] = req[v]
    BY Moves DEF Effect
  <1>1. P \in SUBSET Workers /\ P' \in SUBSET Workers /\ reactions[m][u] \in Nat
    BY DEF Writing, Types, TypeOK
  <1>2. reactions[m][u] + Cardinality(P) <= Cardinality(Workers)
    BY DEF OnceRoom
  <1>3. CASE r.op = "react"
    <2>1. reactions' = reactions /\ reactions[r.on][r.by] = 0
      BY <1>3 DEF Effect, ReactEffect
    <2>2. CASE r.on = m /\ r.by = u
      BY <1>1, <1>2, <2>1, <2>2, Counting
    <2>3. CASE ~(r.on = m /\ r.by = u)
      <3>1. P' \subseteq P
        BY <1>0, <2>3 DEF Writing
      <3> QED
        BY <1>1, <1>2, <2>1, <3>1, Counting
    <2> QED
      BY <2>2, <2>3
  <1>4. ASSUME r.op # "react" PROVE P' \subseteq P
    BY <1>0, <1>4 DEF Writing
  <1>5. CASE r.op # "react" /\ reactions' = reactions
    BY <1>1, <1>2, <1>4, <1>5, Counting
  <1>6. ASSUME r.op # "react", NEW n \in Messages, NEW v \in Users,
               reactions' = [reactions EXCEPT ![n][v] = 0]
        PROVE  reactions'[m][u] + Cardinality(P') <= Cardinality(Workers)
    <2>1. reactions'[m][u] = 0 \/ reactions'[m][u] = reactions[m][u]
      BY <1>6 DEF Types, TypeOK
    <2> QED
      BY <1>1, <1>2, <1>4, <1>6, <2>1, Counting
  <1>7. CASE /\ r.op # "react" /\ req[w].op = "react"
             /\ reactions' = [reactions EXCEPT ![req[w].on][req[w].by] = @ + 1]
    <2>2. req[w].on \in Messages /\ req[w].by \in Users
      BY <1>7 DEF Types, ReqNamed, Named
    <2>3. CASE req[w].on = m /\ req[w].by = u
      <3>1. w \in P /\ w \notin P'
        BY <1>0, <1>7, <2>3 DEF Writing
      <3>2. reactions'[m][u] = reactions[m][u] + 1
        BY <1>7, <2>3 DEF Types, TypeOK
      <3> QED
        BY <1>1, <1>2, <1>4, <1>7, <3>1, <3>2, Counting
    <2>4. CASE ~(req[w].on = m /\ req[w].by = u)
      <3>1. reactions'[m][u] = reactions[m][u]
        BY <1>7, <2>2, <2>4 DEF Types, TypeOK
      <3> QED
        BY <1>1, <1>2, <1>4, <1>7, <3>1, Counting
    <2> QED
      BY <2>3, <2>4
  <1> QED
    BY <1>3, <1>5, <1>6, <1>7 DEF Effect, ReactEffect

\* Every step keeps the room.
LEMMA OnceStep == Types /\ OnceRoom /\ [Next]_vars => OnceRoom'
  <1> SUFFICES ASSUME Types, OnceRoom, [Next]_vars PROVE OnceRoom'
    OBVIOUS
  <1>1. ASSUME NEW w \in Workers, NEW r, Effect(w, r) PROVE OnceRoom'
    BY <1>1, ReceiptStep, ReactStep DEF OnceRoom
  <1>2. CASE UNCHANGED vars
    BY <1>2 DEF vars, messages, OnceRoom, Writing
  <1> QED
    BY <1>1, <1>2, Effects

-----------------------------------------------------------------------------
(* One conversation                                                        *)

\* With those about to be created, no more direct conversations than workers.
DirectRoom == direct + Cardinality(Opening) <= Cardinality(Workers)

\* There is none at the start.
LEMMA InitDirect == Init => DirectRoom
  <1> SUFFICES ASSUME Init PROVE DirectRoom
    OBVIOUS
  <1>1. Opening = {}
    BY IdleIsRequest DEF Init, Opening
  <1> QED
    BY <1>1, FS_EmptySet, WorkersBound DEF Init, DirectRoom

\* Who asks found none; who creates one is no longer about to.
LEMMA DirectStep == Types /\ DirectRoom /\ [Next]_vars => DirectRoom'
  <1> SUFFICES ASSUME Types, DirectRoom, [Next]_vars PROVE DirectRoom'
    OBVIOUS
  <1>0. /\ Opening \in SUBSET Workers /\ Opening' \in SUBSET Workers
        /\ direct \in Nat /\ direct + Cardinality(Opening) <= Cardinality(Workers)
    BY DEF Types, TypeOK, Opening, DirectRoom
  <1>1. ASSUME NEW w \in Workers, NEW r, Effect(w, r) PROVE DirectRoom'
    <2>0. req'[w] = r /\ \A v \in Workers \ {w} : req'[v] = req[v]
      BY <1>1, Moves DEF Effect
    <2>1. CASE r.op = "direct"
      BY <1>0, <1>1, <2>1, Counting DEF Effect, DirectEffect, DirectRoom
    <2>2. CASE r.op # "direct" /\ direct' = direct
      <3>1. Opening' \subseteq Opening
        BY <2>0, <2>2 DEF Opening
      <3> QED
        BY <1>0, <2>2, <3>1, Counting DEF DirectRoom
    <2>3. CASE r.op # "direct" /\ req[w].op = "direct" /\ direct' = direct + 1
      <3>1. Opening' \subseteq Opening /\ w \in Opening /\ w \notin Opening'
        BY <2>0, <2>3 DEF Opening
      <3> QED
        BY <1>0, <2>3, <3>1, Counting DEF DirectRoom
    <2> QED
      BY <1>1, <2>1, <2>2, <2>3 DEF Effect, DirectEffect
  <1>2. CASE UNCHANGED vars
    BY <1>2 DEF vars, DirectRoom, Opening
  <1> QED
    BY <1>1, <1>2, Effects

\* Nobody has more receipts for a message, or reactions to it, and no two users more
\* direct conversations, than there are requests at one time.
THEOREM Once == Spec => []OnceEach
  <1>1. Types /\ OnceRoom /\ DirectRoom => OnceEach
    <2> SUFFICES ASSUME Types, OnceRoom, DirectRoom, NEW m \in Messages, NEW u \in Users
                 PROVE  /\ receipts[m][u] <= Cardinality(Workers)
                        /\ reactions[m][u] <= Cardinality(Workers)
      <3>1. Cardinality(Opening) \in Nat /\ Cardinality(Workers) \in Nat
        BY WorkersBound DEF Opening
      <3>2. ASSUME Types, DirectRoom PROVE direct <= Cardinality(Workers)
        BY <3>1, <3>2 DEF DirectRoom, Types, TypeOK
      <3> QED
        BY <3>2 DEF OnceEach
    <2>1. /\ Cardinality(Writing("receipt", m, u)) \in Nat
          /\ Cardinality(Writing("react", m, u)) \in Nat /\ Cardinality(Workers) \in Nat
      BY WorkersBound DEF Writing
    <2>2. receipts[m][u] \in Nat /\ reactions[m][u] \in Nat
      BY DEF Types, TypeOK
    <2>3. /\ receipts[m][u] + Cardinality(Writing("receipt", m, u)) <= Cardinality(Workers)
          /\ reactions[m][u] + Cardinality(Writing("react", m, u)) <= Cardinality(Workers)
      BY DEF OnceRoom
    <2> QED
      BY <2>1, <2>2, <2>3
  <1> QED
    BY <1>1, InitTypes, InitOnce, InitDirect, TypeStep, OnceStep, DirectStep, PTL DEF Spec

-----------------------------------------------------------------------------
(* Messages on their way                                                   *)

\* Workers that are sending a message.
Sending == {w \in Workers : req[w].op \in {"last", "fetch", "count"}}

\* A message on its way has one worker, is its sender's, has not written what is still
\* to write and is not for who sent it; what is not saved is not sent.
OnItsWay ==
    /\ \A w \in Sending :
          /\ sender[req[w].on] = req[w].by /\ req[w].on \notin counted
          /\ req[w].op = "last" => req[w].on \notin sent
          /\ req[w].op = "count" => req[w].by \notin req[w].to
    /\ \A v, w \in Sending : req[v].on = req[w].on => v = w
    /\ \A m \in Messages : sender[m] = None => m \notin sent /\ m \notin counted
    /\ \A m \in Messages : older[m] \subseteq sent
    /\ ~exists => last = None

\* Nothing is on its way at the start.
LEMMA InitOnItsWay == Init => OnItsWay /\ LastNotOvertaken /\ UnreadOfOthers
  <1> SUFFICES ASSUME Init PROVE OnItsWay /\ LastNotOvertaken /\ UnreadOfOthers
    OBVIOUS
  <1>1. Sending = {}
    BY IdleIsRequest DEF Init, Sending
  <1>2. OnItsWay /\ LastNotOvertaken
    BY <1>1 DEF Init, OnItsWay, LastNotOvertaken
  <1>3. UnreadOfOthers
    <2> SUFFICES ASSUME NEW i \in Places
                 PROVE  participants[i].unread <=
                           Cardinality({m \in counted : sender[m] # participants[i].user})
      BY DEF UnreadOfOthers
    <2>1. participants[i].unread = 0
      BY NewIsEntry, GroupAssumption DEF Init, Places
    <2>2. {m \in counted : sender[m] # participants[i].user} = {}
      BY DEF Init
    <2>3. Cardinality({}) = 0
      BY FS_EmptySet
    <2> QED
      BY <2>1, <2>2, <2>3
  <1> QED
    BY <1>2, <1>3

\* An entry of the group is new or read, or its unread count is what it was.
Uncounted ==
    \A i \in Places' :
        \/ participants'[i].unread = 0
        \/ i \in Places /\ participants'[i].unread = participants[i].unread
                        /\ participants'[i].user = participants[i].user

\* A step of w that does nothing for a message on its way.
Aside(w, r) ==
    /\ OneMoves(w, r) /\ r.op \notin {"last", "fetch", "count"}
    /\ UNCHANGED <<sender, history>>
    /\ UNCHANGED <<exists, last>> \/ (exists' = FALSE /\ last' = None)
    /\ Uncounted

\* Participants that stay as they are are uncounted.
LEMMA SameUncounted == participants' = participants => Uncounted
  BY DEF Uncounted, Places

\* What is asked, of the group or about a message, is aside.
LEMMA AskAside ==
    ASSUME NEW w \in Workers,
           \/ \E u \in Users : AskAdd(w, u) \/ AskRemove(w, u) \/ AskDirect(w, u)
           \/ \E u \in Users, m \in Messages :
                 AskReceipt(w, u, m) \/ AskReact(w, u, m) \/ Unreact(w, u, m)
           \/ \E m \in Messages : AskPin(w, m) \/ AskUnpin(w, m)
           \/ AskDelete(w)
    PROVE  \E r : Aside(w, r)
  <1>1. /\ UNCHANGED <<sender, history, exists, last>> /\ Uncounted
    BY SameUncounted
    DEF AskAdd, AskRemove, AskDirect, AskReceipt, AskReact, Unreact, AskPin, AskUnpin, AskDelete,
        group, messages
  <1>2. \E r : OneMoves(w, r) /\ r.op \notin {"last", "fetch", "count"}
    BY IdleIsRequest
    DEF AskAdd, AskRemove, AskDirect, AskReceipt, AskReact, Unreact, AskPin, AskUnpin, AskDelete,
        Begin, Ask, OneMoves
  <1> QED
    BY <1>1, <1>2 DEF Aside

\* What is written elsewhere is aside: a read sets the count to 0, an entry that is
\* added is new.
LEMMA WriteAside ==
    ASSUME Types, NEW w \in Workers,
           \/ WriteAdd(w) \/ WriteRemove(w) \/ WriteDelete(w) \/ WriteDirect(w)
           \/ WritePin(w) \/ WriteUnpin(w)
           \/ WriteReceipt(w) \/ WriteRead(w) \/ WriteReact(w) \/ RequestFails(w)
    PROVE  \E r : Aside(w, r)
  <1>0. req[w] \in Request /\ Named(req[w])
    BY DEF Types, TypeOK, ReqNamed
  <1>1. \E r : OneMoves(w, r) /\ r.op \notin {"last", "fetch", "count"}
    <2>1. CASE WriteReceipt(w) /\ Go(w, [req[w] EXCEPT !.op = "read"])
      <3>1. [req[w] EXCEPT !.op = "read"].op = "read"
        BY <1>0 DEF Request
      <3> QED
        BY <2>1, <3>1 DEF Go, OneMoves
    <2>2. CASE End(w)
      BY <2>2, IdleIsRequest DEF End, Go, OneMoves
    <2> QED
      BY <2>1, <2>2 DEF WriteAdd, WriteRemove, WriteDelete, WriteDirect, WritePin, WriteUnpin,
                        WriteReceipt, WriteRead, WriteReact, RequestFails
  <1>2. /\ UNCHANGED <<sender, history>>
        /\ UNCHANGED <<exists, last>> \/ (exists' = FALSE /\ last' = None)
    BY DEF WriteAdd, WriteRemove, WriteDelete, WriteDirect, WritePin, WriteUnpin, WriteReceipt,
           WriteRead, WriteReact, RequestFails, group, messages
  <1>3. CASE participants' = participants
    BY <1>1, <1>2, <1>3, SameUncounted DEF Aside
  <1>4. CASE WriteAdd(w)
    <2>1. Uncounted
      BY <1>0, <1>4, NewIsEntry DEF WriteAdd, Uncounted, Places, Named
    <2> QED
      BY <1>1, <1>2, <2>1 DEF Aside
  <1>5. CASE WriteRemove(w)
    <2>1. Uncounted
      BY <1>5 DEF WriteRemove, Uncounted, Places
    <2> QED
      BY <1>1, <1>2, <2>1 DEF Aside
  <1>6. CASE WriteDelete(w)
    <2>1. Uncounted
      BY <1>6 DEF WriteDelete, Uncounted, Places
    <2> QED
      BY <1>1, <1>2, <2>1 DEF Aside
  <1>7. CASE WriteRead(w)
    <2>1. Uncounted
      <3>1. CASE Unmatched({req[w].by})
        BY <3>1, SameUncounted DEF Unmatched
      <3>2. ASSUME NEW i \in First({req[w].by}),
                   participants' = [participants EXCEPT ![i].unread = 0, ![i].lastRead = req[w].on]
            PROVE  Uncounted
        <4>1. i \in Places /\ participants[i] \in Entry
          BY <3>2 DEF First, Matching, Types, TypeOK
        <4>2. participants'[i].unread = 0
          BY <3>2, <4>1 DEF Places, Entry
        <4>3. Places' = Places /\ \A j \in Places \ {i} : participants'[j] = participants[j]
          BY <3>2, <4>1 DEF Places
        <4> QED
          BY <4>2, <4>3 DEF Uncounted
      <3> QED
        BY <1>7, <3>1, <3>2 DEF WriteRead
    <2> QED
      BY <1>1, <1>2, <2>1 DEF Aside
  <1> QED
    BY <1>3, <1>4, <1>5, <1>6, <1>7
    DEF WriteDirect, WritePin, WriteUnpin, WriteReceipt, WriteReact, RequestFails, group

\* A step aside, or that changes nothing, keeps all three.
LEMMA AsideStep ==
    ASSUME Types, OnItsWay, LastNotOvertaken, UnreadOfOthers,
           NEW w \in Workers, NEW r, Aside(w, r)
    PROVE  OnItsWay' /\ LastNotOvertaken' /\ UnreadOfOthers'
  <1>0. req'[w] = r /\ \A v \in Workers \ {w} : req'[v] = req[v]
    BY Moves DEF Aside
  <1>1. Sending' \subseteq Sending /\ \A v \in Sending' : req'[v] = req[v]
    BY <1>0 DEF Sending, Aside
  <1>2. OnItsWay'
    BY <1>1 DEF OnItsWay, Aside, history
  <1>3. LastNotOvertaken'
    <2>1. \A m \in sent : None \notin older[m]
      BY NoneAssumption DEF Types, TypeOK
    <2> QED
      BY <2>1 DEF LastNotOvertaken, Aside, history
  <1>4. UnreadOfOthers'
    <2> SUFFICES ASSUME NEW i \in Places'
                 PROVE  participants'[i].unread <=
                           Cardinality({m \in counted : sender[m] # participants'[i].user})
      BY DEF UnreadOfOthers, Aside, history
    <2>1. Cardinality({m \in counted : sender[m] # participants'[i].user}) \in Nat
      BY FiniteAssumption, Fewer DEF Types, TypeOK
    <2>2. CASE participants'[i].unread = 0
      BY <2>1, <2>2
    <2>3. CASE /\ i \in Places /\ participants'[i].unread = participants[i].unread
               /\ participants'[i].user = participants[i].user
      BY <2>3 DEF UnreadOfOthers
    <2> QED
      BY <2>2, <2>3 DEF Aside, Uncounted
  <1> QED
    BY <1>2, <1>3, <1>4

\* What is saved becomes the sender's, and on its way; it is nobody's count yet.
LEMMA SaveStep ==
    ASSUME Types, OnItsWay, LastNotOvertaken, UnreadOfOthers,
           NEW w \in Workers, NEW u \in Users, NEW m \in Messages, Save(w, u, m)
    PROVE  OnItsWay' /\ LastNotOvertaken' /\ UnreadOfOthers'
  <1>0. /\ req'[w] = Ask("last", u, m) /\ \A v \in Workers \ {w} : req'[v] = req[v]
        /\ req'[w].op = "last" /\ req'[w].by = u /\ req'[w].on = m
    BY Asked, Moves DEF Save
  <1>1. Sending' = Sending \cup {w} /\ req[w] = Idle /\ w \notin Sending
    BY <1>0, IdleIsRequest DEF Sending, Save, Begin
  <1>2. /\ sender'[m] = u /\ \A n \in Messages \ {m} : sender'[n] = sender[n]
        /\ sender[m] = None /\ m \notin sent /\ m \notin counted
        /\ older'[m] = sent /\ \A n \in Messages \ {m} : older'[n] = older[n]
    BY DEF Save, Types, TypeOK, OnItsWay
  <1>3. \A v \in Sending : /\ req'[v] = req[v] /\ req[v].on \in Messages /\ req[v].on # m
    <2> SUFFICES ASSUME NEW v \in Sending
                 PROVE  req'[v] = req[v] /\ req[v].on \in Messages /\ req[v].on # m
      OBVIOUS
    <2>1. v \in Workers \ {w} /\ req[v].on \in Messages /\ req[v].by \in Users
      BY <1>1 DEF Sending, Types, ReqNamed, Named
    <2>2. sender[req[v].on] # None
      BY <2>1, NoneAssumption DEF OnItsWay
    <2> QED
      BY <1>0, <1>2, <2>1, <2>2
  <1>4. UNCHANGED <<exists, last, participants, sent, counted>>
    BY DEF Save, group
  <1>5. OnItsWay'
    <2>1. \A v \in Sending' :
          /\ sender'[req'[v].on] = req'[v].by /\ req'[v].on \notin counted
          /\ req'[v].op = "last" => req'[v].on \notin sent
          /\ req'[v].op = "count" => req'[v].by \notin req'[v].to
      BY <1>0, <1>1, <1>2, <1>3 DEF OnItsWay
    <2>2. \A v, x \in Sending' : req'[v].on = req'[x].on => v = x
      BY <1>0, <1>1, <1>3 DEF OnItsWay
    <2>3. \A n \in Messages : sender'[n] = None => n \notin sent /\ n \notin counted
      BY <1>2, NoneAssumption DEF OnItsWay
    <2>4. \A n \in Messages : older'[n] \subseteq sent
      BY <1>2 DEF OnItsWay
    <2> QED
      BY <1>4, <2>1, <2>2, <2>3, <2>4 DEF OnItsWay
  <1>6. LastNotOvertaken'
    <2>1. \A n \in sent : older'[n] = older[n]
      BY <1>2 DEF Types, TypeOK
    <2> QED
      BY <1>4, <2>1 DEF LastNotOvertaken
  <1>7. UnreadOfOthers'
    <2>1. \A n \in counted : sender'[n] = sender[n]
      BY <1>2 DEF Types, TypeOK
    <2>2. \A v : {n \in counted : sender'[n] # v} = {n \in counted : sender[n] # v}
      BY <2>1
    <2> QED
      BY <1>4, <2>2 DEF UnreadOfOthers, Places
  <1> QED
    BY <1>5, <1>6, <1>7

\* The message that becomes the last one was sent before none that is over: it was
\* not over itself.
LEMMA LastStep ==
    ASSUME Types, OnItsWay, LastNotOvertaken, UnreadOfOthers,
           NEW w \in Workers, WriteLast(w) \/ Fetch(w)
    PROVE  OnItsWay' /\ LastNotOvertaken' /\ UnreadOfOthers'
  <1>0. w \in Sending /\ req[w] \in Request /\ req[w].on \in Messages
    BY DEF WriteLast, Fetch, Sending, Types, TypeOK, ReqNamed, Named
  <1>1. UnreadOfOthers'
    BY DEF WriteLast, Fetch, group, messages, history, UnreadOfOthers, Places
  <1>2. CASE WriteLast(w)
    <2> DEFINE r == [req[w] EXCEPT !.op = "fetch"]
    <2>1. /\ req'[w] = r /\ \A v \in Workers \ {w} : req'[v] = req[v]
      BY <1>2, Moves DEF WriteLast, Go, OneMoves
    <2>2. r.op = "fetch" /\ r.on = req[w].on /\ r.by = req[w].by
      BY <1>0 DEF Request
    <2>3. Sending' = Sending
      BY <1>0, <2>1, <2>2 DEF Sending
    <2>4. req[w].on \notin sent
      BY <1>0, <1>2 DEF WriteLast, OnItsWay
    <2>5. \A v \in Sending \ {w} : req[v].on # req[w].on
      BY <1>0 DEF OnItsWay
    <2>6. UNCHANGED <<sender, older, counted, exists>> /\ sent' = sent \cup {req[w].on}
      BY <1>2 DEF WriteLast, messages
    <2>7. OnItsWay'
      <3>1. \A v \in Sending' :
            /\ sender'[req'[v].on] = req'[v].by /\ req'[v].on \notin counted'
            /\ req'[v].op = "last" => req'[v].on \notin sent'
            /\ req'[v].op = "count" => req'[v].by \notin req'[v].to
        <4> SUFFICES ASSUME NEW v \in Sending
                     PROVE  /\ sender[req'[v].on] = req'[v].by /\ req'[v].on \notin counted
                            /\ req'[v].op = "last" => req'[v].on \notin sent'
                            /\ req'[v].op = "count" => req'[v].by \notin req'[v].to
          BY <2>3, <2>6
        <4>1. CASE v = w
          BY <1>0, <2>1, <2>2, <4>1 DEF OnItsWay
        <4>2. CASE v # w
          <5>1. req'[v] = req[v] /\ req[v].on # req[w].on
            BY <2>1, <2>5, <4>2 DEF Sending
          <5> QED
            BY <2>6, <5>1 DEF OnItsWay
        <4> QED
          BY <4>1, <4>2
      <3>2. \A v, x \in Sending' : req'[v].on = req'[x].on => v = x
        <4>1. \A v \in Sending : req'[v].on = req[v].on
          BY <2>1, <2>2 DEF Sending
        <4> QED
          BY <2>3, <4>1 DEF OnItsWay
      <3>3. \A m \in Messages : sender'[m] = None => m \notin sent' /\ m \notin counted'
        <4>1. sender[req[w].on] # None
          BY <1>0, NoneAssumption DEF OnItsWay, Sending, Types, ReqNamed, Named
        <4> QED
          BY <2>6, <4>1 DEF OnItsWay
      <3>4. \A m \in Messages : older'[m] \subseteq sent'
        BY <2>6 DEF OnItsWay
      <3>5. ~exists' => last' = None
        BY <1>2 DEF WriteLast, OnItsWay
      <3> QED
        BY <3>1, <3>2, <3>3, <3>4, <3>5 DEF OnItsWay
    <2>8. LastNotOvertaken'
      <3> SUFFICES ASSUME NEW m \in sent' PROVE last' \notin older[m]
        BY <2>6 DEF LastNotOvertaken
      <3>1. m \in Messages /\ older[m] \subseteq sent /\ None \notin older[m]
        BY <1>0, <2>6, NoneAssumption DEF Types, TypeOK, OnItsWay
      <3>2. last' = req[w].on \/ last' = None
        BY <1>2 DEF WriteLast, OnItsWay
      <3> QED
        BY <2>4, <3>1, <3>2
    <2> QED
      BY <1>1, <2>7, <2>8
  <1>3. CASE Fetch(w)
    <2>0. UNCHANGED <<sender, history, exists, last>>
      BY <1>3 DEF Fetch, group, messages
    <2>1. LastNotOvertaken'
      BY <2>0 DEF LastNotOvertaken, history
    <2>2. CASE exists
      <3> DEFINE r == [req[w] EXCEPT !.op = "count", !.to = Members \ {req[w].by}]
      <3>1. /\ req'[w] = r /\ \A v \in Workers \ {w} : req'[v] = req[v]
        BY <1>3, <2>2, Moves DEF Fetch, Go, OneMoves
      <3>2. r.op = "count" /\ r.on = req[w].on /\ r.by = req[w].by /\ r.by \notin r.to
        BY <1>0 DEF Request
      <3>3. Sending' = Sending
        BY <1>0, <3>1, <3>2 DEF Sending
      <3>4. \A v \in Sending : req'[v].on = req[v].on /\ req'[v].by = req[v].by
        BY <3>1, <3>2 DEF Sending
      <3>5. \A v \in Sending : /\ req'[v].op = "last" => req[v].op = "last"
                               /\ req'[v].op = "count" => req'[v].by \notin req'[v].to
        BY <3>1, <3>2 DEF Sending, OnItsWay
      <3>6. OnItsWay'
        BY <2>0, <3>3, <3>4, <3>5 DEF OnItsWay, history
      <3> QED
        BY <1>1, <2>1, <3>6
    <2>3. CASE ~exists
      <3>1. Aside(w, Idle)
        BY <1>3, <2>0, <2>3, IdleIsRequest, SameUncounted
        DEF Fetch, group, messages, Aside, End, Go, OneMoves
      <3> QED
        BY <3>1, AsideStep
    <2> QED
      BY <2>2, <2>3
  <1> QED
    BY <1>2, <1>3

\* The one entry that is counted up is not the sender's, and the message was counted
\* for nobody before.
LEMMA CountStep ==
    ASSUME Types, OnItsWay, LastNotOvertaken, UnreadOfOthers,
           NEW w \in Workers, WriteCount(w)
    PROVE  OnItsWay' /\ LastNotOvertaken' /\ UnreadOfOthers'
  <1>0. w \in Sending /\ req[w].on \in Messages /\ req[w].by \in Users
    BY DEF WriteCount, Sending, Types, ReqNamed, Named
  <1>1. /\ UNCHANGED <<sender, sent, older, exists, last>>
        /\ counted' = counted \cup {req[w].on}
    BY DEF WriteCount, messages
  <1>2. req'[w] = Idle /\ \A v \in Workers \ {w} : req'[v] = req[v]
    BY Moves DEF WriteCount, End, Go, OneMoves
  <1>3. Sending' \subseteq Sending \ {w} /\ \A v \in Sending' : req'[v] = req[v]
    BY <1>2, IdleIsRequest DEF Sending
  <1>4. \A v \in Sending' : req[v].on # req[w].on
    BY <1>0, <1>3 DEF OnItsWay
  <1>5. /\ req[w].on \notin counted /\ sender[req[w].on] = req[w].by
        /\ req[w].by \notin req[w].to
    BY <1>0 DEF OnItsWay, WriteCount
  <1>6. OnItsWay'
    <2>1. \A m \in Messages : sender'[m] = None => m \notin sent' /\ m \notin counted'
      BY <1>0, <1>1, <1>5, NoneAssumption DEF OnItsWay
    <2>2. \A v \in Sending' :
          /\ sender'[req'[v].on] = req'[v].by /\ req'[v].on \notin counted'
          /\ req'[v].op = "last" => req'[v].on \notin sent'
          /\ req'[v].op = "count" => req'[v].by \notin req'[v].to
      BY <1>1, <1>3, <1>4 DEF OnItsWay
    <2>3. \A v, x \in Sending' : req'[v].on = req'[x].on => v = x
      BY <1>3 DEF OnItsWay
    <2> QED
      BY <1>1, <2>1, <2>2, <2>3 DEF OnItsWay
  <1>7. LastNotOvertaken'
    BY <1>1 DEF LastNotOvertaken
  <1> DEFINE Others(u) == {m \in counted : sender[m] # u}
             After(u) == {m \in counted' : sender'[m] # u}
  <1>8. \A u : /\ IsFiniteSet(Others(u)) /\ Cardinality(Others(u)) \in Nat
               /\ Cardinality(After(u)) \in Nat /\ Cardinality(Others(u)) <= Cardinality(After(u))
               /\ u # req[w].by => Cardinality(After(u)) = Cardinality(Others(u)) + 1
    <2> SUFFICES ASSUME NEW u
                 PROVE  /\ IsFiniteSet(Others(u)) /\ Cardinality(Others(u)) \in Nat
                        /\ Cardinality(After(u)) \in Nat
                        /\ Cardinality(Others(u)) <= Cardinality(After(u))
                        /\ u # req[w].by => Cardinality(After(u)) = Cardinality(Others(u)) + 1
      OBVIOUS
    <2>1. IsFiniteSet(Others(u)) /\ Cardinality(Others(u)) \in Nat
      <3>1. Others(u) \in SUBSET Messages
        BY DEF Types, TypeOK
      <3> QED
        BY <3>1, FiniteAssumption, Fewer
    <2>2. CASE u = req[w].by
      <3>1. After(u) = Others(u)
        BY <1>1, <1>5, <2>2
      <3> QED
        BY <2>1, <2>2, <3>1
    <2>3. CASE u # req[w].by
      <3>1. After(u) = Others(u) \cup {req[w].on} /\ req[w].on \notin Others(u)
        BY <1>1, <1>5, <2>3
      <3>2. Cardinality(Others(u) \cup {req[w].on}) = Cardinality(Others(u)) + 1
        BY <2>1, <3>1, FS_AddElement
      <3> HIDE DEF Others, After
      <3>3. Cardinality(After(u)) = Cardinality(Others(u)) + 1
        BY <3>1, <3>2
      <3> QED
        BY <2>1, <3>3
    <2> QED
      BY <2>2, <2>3
  <1>9. UnreadOfOthers'
    <2> SUFFICES ASSUME NEW i \in Places'
                 PROVE  participants'[i].unread <= Cardinality(After(participants'[i].user))
      BY DEF UnreadOfOthers
    <2>1. \A j \in Places :
             /\ participants[j] \in Entry
             /\ participants[j].unread <= Cardinality(Others(participants[j].user))
      BY DEF Types, TypeOK, UnreadOfOthers
    <2>2. ASSUME i \in Places, participants'[i] = participants[i]
          PROVE  participants'[i].unread <= Cardinality(After(participants'[i].user))
      <3>1. /\ Cardinality(Others(participants[i].user)) \in Nat
            /\ Cardinality(After(participants[i].user)) \in Nat
            /\ Cardinality(Others(participants[i].user)) <=
                  Cardinality(After(participants[i].user))
        BY <1>8
      <3>2. participants[i].unread \in Nat
        BY <2>1, <2>2 DEF Entry
      <3>3. participants[i].unread <= Cardinality(Others(participants[i].user))
        BY <2>1, <2>2
      <3> HIDE DEF Others, After
      <3>4. participants[i].unread <= Cardinality(After(participants[i].user))
        BY <3>1, <3>2, <3>3
      <3> QED
        BY <2>2, <3>4
    <2>3. CASE Unmatched(req[w].to)
      BY <2>2, <2>3 DEF Unmatched, Places
    <2>4. ASSUME NEW j \in First(req[w].to),
                 participants' = [participants EXCEPT ![j].unread = @ + 1]
          PROVE  participants'[i].unread <= Cardinality(After(participants'[i].user))
      <3>1. j \in Places /\ participants[j].user \in req[w].to /\ i \in Places
        BY <2>4 DEF First, Matching, Places
      <3>2. CASE i # j
        BY <2>2, <2>4, <3>1, <3>2 DEF Places
      <3>3. CASE i = j
        <4>1. /\ participants'[i].unread = participants[i].unread + 1
              /\ participants'[i].user = participants[i].user
              /\ participants[i].unread \in Nat
          BY <2>1, <2>4, <3>1, <3>3 DEF Places, Entry
        <4>2. participants[i].user # req[w].by
          BY <1>5, <3>1, <3>3
        <4>3. /\ Cardinality(After(participants[i].user)) =
                    Cardinality(Others(participants[i].user)) + 1
              /\ Cardinality(Others(participants[i].user)) \in Nat
          BY <1>8, <4>2
        <4>4. participants[i].unread <= Cardinality(Others(participants[i].user))
          BY <2>1, <3>1
        <4> HIDE DEF Others, After
        <4>5. participants[i].unread + 1 <= Cardinality(After(participants[i].user))
          BY <4>1, <4>3, <4>4
        <4> QED
          BY <4>1, <4>5
      <3> QED
        BY <3>2, <3>3
    <2> QED
      BY <2>3, <2>4 DEF WriteCount
  <1> QED
    BY <1>6, <1>7, <1>9

\* Every step keeps all three.
LEMMA WayStep ==
    Types /\ OnItsWay /\ LastNotOvertaken /\ UnreadOfOthers /\ [Next]_vars
        => OnItsWay' /\ LastNotOvertaken' /\ UnreadOfOthers'
  <1> SUFFICES ASSUME Types, OnItsWay, LastNotOvertaken, UnreadOfOthers, [Next]_vars
               PROVE  OnItsWay' /\ LastNotOvertaken' /\ UnreadOfOthers'
    OBVIOUS
  <1>1. CASE UNCHANGED vars
    BY <1>1 DEF vars, group, messages, history, OnItsWay, LastNotOvertaken, UnreadOfOthers,
                Sending, Places
  <1>2. CASE Next
    <2>1. PICK w \in Workers :
          \/ \E u \in Users :
                \/ AskAdd(w, u) \/ AskRemove(w, u) \/ AskDirect(w, u)
                \/ \E m \in Messages :
                      \/ Save(w, u, m) \/ AskReceipt(w, u, m)
                      \/ AskReact(w, u, m) \/ Unreact(w, u, m)
          \/ \E m \in Messages : AskPin(w, m) \/ AskUnpin(w, m)
          \/ AskDelete(w)
          \/ WriteAdd(w) \/ WriteRemove(w) \/ WriteDelete(w) \/ WriteDirect(w)
          \/ WritePin(w) \/ WriteUnpin(w)
          \/ WriteLast(w) \/ Fetch(w) \/ WriteCount(w)
          \/ WriteReceipt(w) \/ WriteRead(w) \/ WriteReact(w)
          \/ RequestFails(w)
      BY <1>2 DEF Next
    <2>2. \/ \E r : Aside(w, r)
          \/ \E u \in Users, m \in Messages : Save(w, u, m)
          \/ WriteLast(w) \/ Fetch(w) \/ WriteCount(w)
      BY <2>1, AskAside, WriteAside
    <2> QED
      BY <2>2, AsideStep, SaveStep, LastStep, CountStep
  <1> QED
    BY <1>1, <1>2

\* The last message shown was not over before one that is over had begun.
THEOREM Lasts == Spec => []LastNotOvertaken
  BY InitTypes, InitOnItsWay, TypeStep, WayStep, PTL DEF Spec

\* No unread count passes the number of messages of others.
THEOREM Unreads == Spec => []UnreadOfOthers
  BY InitTypes, InitOnItsWay, TypeStep, WayStep, PTL DEF Spec

-----------------------------------------------------------------------------
(* Requests that do not overlap                                            *)

\* Between their check and their write, no two requests are to pin, none are to add
\* the same receipt or reaction, and none are to create the direct conversation.
Apart ==
    \A v, w \in Workers :
        /\ req[v].op = req[w].op
        /\ \/ req[v].op \in {"pin", "direct"}
           \/ req[v].op \in {"receipt", "react"} /\ req[v].on = req[w].on /\ req[v].by = req[w].by
        => v = w

\* What the checks are for: the limit on pins, one receipt and one reaction each, and
\* one direct conversation.
Exact ==
    /\ Cardinality(pinned) <= Limit
    /\ \A m \in Messages, u \in Users : receipts[m][u] <= 1 /\ reactions[m][u] <= 1
    /\ direct <= 1

\* What a request saw when it was checked still holds when it writes.
StillSo ==
    \A w \in Workers :
        /\ req[w].op = "pin" => Cardinality(pinned) < Limit
        /\ req[w].op = "receipt" => receipts[req[w].on][req[w].by] = 0
        /\ req[w].op = "react" => reactions[req[w].on][req[w].by] = 0
        /\ req[w].op = "direct" => direct = 0

\* At first nothing is pinned, read, reacted to or created, and nothing is asked.
LEMMA InitExact == Init => Exact /\ StillSo
  <1> SUFFICES ASSUME Init PROVE Exact /\ StillSo
    OBVIOUS
  <1>1. Cardinality(pinned) = 0
    BY FS_EmptySet DEF Init
  <1>2. \A w \in Workers : req[w].op = "idle"
    BY IdleIsRequest DEF Init
  <1> QED
    BY <1>1, <1>2, LimitAssumption DEF Init, Exact, StillSo

\* The pins: who writes one is alone with the place it saw.
LEMMA ApartPins ==
    ASSUME Types, Apart, Exact, StillSo, NEW w \in Workers, NEW r, Effect(w, r)
    PROVE  /\ Cardinality(pinned') <= Limit
           /\ \A v \in Workers : req'[v].op = "pin" => Cardinality(pinned') < Limit
  <1>0. req'[w] = r /\ \A v \in Workers \ {w} : req'[v] = req[v]
    BY Moves DEF Effect
  <1>1. IsFiniteSet(pinned) /\ Cardinality(pinned) \in Nat /\ Cardinality(pinned) <= Limit
    BY FiniteAssumption, FS_Subset, FS_CardinalityType DEF Types, TypeOK, Exact
  <1>2. CASE r.op = "pin"
    BY <1>1, <1>2, LimitAssumption DEF Effect, PinEffect
  <1>3. CASE r.op # "pin" /\ pinned' \subseteq pinned
    <2>1. Cardinality(pinned') \in Nat /\ Cardinality(pinned') <= Cardinality(pinned)
      BY <1>1, <1>3, Fewer
    <2> QED
      BY <1>0, <1>1, <1>3, <2>1, LimitAssumption DEF StillSo
  <1>4. CASE r.op # "pin" /\ req[w].op = "pin" /\ pinned' = pinned \cup {req[w].on}
    <2>1. Cardinality(pinned \cup {req[w].on}) =
            IF req[w].on \in pinned THEN Cardinality(pinned) ELSE Cardinality(pinned) + 1
      BY <1>1, FS_AddElement
    <2>2. Cardinality(pinned) < Limit
      BY <1>4 DEF StillSo
    <2>3. \A v \in Workers : req'[v].op # "pin"
      BY <1>0, <1>4 DEF Apart
    <2> QED
      BY <1>1, <1>4, <2>1, <2>2, <2>3, LimitAssumption
  <1> QED
    BY <1>2, <1>3, <1>4 DEF Effect, PinEffect

\* The receipts: who writes one is the only one to write it, and saw none.
LEMMA ApartReceipts ==
    ASSUME Types, Apart, Exact, StillSo, NEW w \in Workers, NEW r, Effect(w, r)
    PROVE  /\ \A m \in Messages, u \in Users : receipts'[m][u] <= 1
           /\ \A v \in Workers : req'[v].op = "receipt" => receipts'[req'[v].on][req'[v].by] = 0
  <1>0. req'[w] = r /\ \A v \in Workers \ {w} : req'[v] = req[v]
    BY Moves DEF Effect
  <1>1. CASE receipts' = receipts
    BY <1>0, <1>1 DEF Exact, StillSo, Effect, ReceiptEffect
  <1>2. CASE /\ r.op # "receipt" /\ req[w].op = "receipt"
             /\ receipts' = [receipts EXCEPT ![req[w].on][req[w].by] = @ + 1]
    <2>1. req[w].on \in Messages /\ req[w].by \in Users /\ receipts[req[w].on][req[w].by] = 0
      BY <1>2 DEF Types, ReqNamed, Named, StillSo
    <2>2. ASSUME NEW m \in Messages, NEW u \in Users
          PROVE  /\ m = req[w].on /\ u = req[w].by => receipts'[m][u] = 1
                 /\ ~(m = req[w].on /\ u = req[w].by) => receipts'[m][u] = receipts[m][u]
      BY <1>2, <2>1 DEF Types, TypeOK
    <2>3. \A m \in Messages, u \in Users : receipts'[m][u] <= 1
      BY <2>2 DEF Exact
    <2>4. ASSUME NEW v \in Workers, req'[v].op = "receipt"
          PROVE  receipts'[req'[v].on][req'[v].by] = 0
      <3>1. v # w /\ req'[v] = req[v] /\ req[v].on \in Messages /\ req[v].by \in Users
        BY <1>0, <1>2, <2>4 DEF Types, ReqNamed, Named
      <3>2. receipts[req[v].on][req[v].by] = 0 /\ ~(req[v].on = req[w].on /\ req[v].by = req[w].by)
        BY <1>2, <2>4, <3>1 DEF StillSo, Apart
      <3> QED
        BY <2>2, <3>1, <3>2
    <2> QED
      BY <2>3, <2>4
  <1> QED
    BY <1>1, <1>2 DEF Effect, ReceiptEffect

\* The reactions: the same, and taking them away leaves none.
LEMMA ApartReactions ==
    ASSUME Types, Apart, Exact, StillSo, NEW w \in Workers, NEW r, Effect(w, r)
    PROVE  /\ \A m \in Messages, u \in Users : reactions'[m][u] <= 1
           /\ \A v \in Workers : req'[v].op = "react" => reactions'[req'[v].on][req'[v].by] = 0
  <1>0. req'[w] = r /\ \A v \in Workers \ {w} : req'[v] = req[v]
    BY Moves DEF Effect
  <1>1. CASE reactions' = reactions
    BY <1>0, <1>1 DEF Exact, StillSo, Effect, ReactEffect
  <1>2. CASE /\ r.op # "react" /\ req[w].op = "react"
             /\ reactions' = [reactions EXCEPT ![req[w].on][req[w].by] = @ + 1]
    <2>1. req[w].on \in Messages /\ req[w].by \in Users /\ reactions[req[w].on][req[w].by] = 0
      BY <1>2 DEF Types, ReqNamed, Named, StillSo
    <2>2. ASSUME NEW m \in Messages, NEW u \in Users
          PROVE  /\ m = req[w].on /\ u = req[w].by => reactions'[m][u] = 1
                 /\ ~(m = req[w].on /\ u = req[w].by) => reactions'[m][u] = reactions[m][u]
      BY <1>2, <2>1 DEF Types, TypeOK
    <2>3. \A m \in Messages, u \in Users : reactions'[m][u] <= 1
      BY <2>2 DEF Exact
    <2>4. ASSUME NEW v \in Workers, req'[v].op = "react"
          PROVE  reactions'[req'[v].on][req'[v].by] = 0
      <3>1. v # w /\ req'[v] = req[v] /\ req[v].on \in Messages /\ req[v].by \in Users
        BY <1>0, <1>2, <2>4 DEF Types, ReqNamed, Named
      <3>2. reactions[req[v].on][req[v].by] = 0 /\ ~(req[v].on = req[w].on /\ req[v].by = req[w].by)
        BY <1>2, <2>4, <3>1 DEF StillSo, Apart
      <3> QED
        BY <2>2, <3>1, <3>2
    <2> QED
      BY <2>3, <2>4
  <1>3. ASSUME r.op # "react", NEW n \in Messages, NEW x \in Users,
               reactions' = [reactions EXCEPT ![n][x] = 0]
        PROVE  /\ \A m \in Messages, u \in Users : reactions'[m][u] <= 1
               /\ \A v \in Workers : req'[v].op = "react" => reactions'[req'[v].on][req'[v].by] = 0
    <2>1. \A m \in Messages, u \in Users : reactions'[m][u] \in {0, reactions[m][u]}
      BY <1>3 DEF Types, TypeOK
    <2>2. ASSUME NEW v \in Workers, req'[v].op = "react"
          PROVE  reactions'[req'[v].on][req'[v].by] = 0
      <3>1. req'[v] = req[v] /\ req[v].on \in Messages /\ req[v].by \in Users
        BY <1>0, <1>3, <2>2 DEF Types, ReqNamed, Named
      <3> QED
        BY <2>1, <2>2, <3>1 DEF StillSo
    <2> QED
      BY <2>1, <2>2 DEF Exact
  <1> QED
    BY <1>1, <1>2, <1>3 DEF Effect, ReactEffect

\* The direct conversation: who creates it is alone and saw none.
LEMMA ApartDirect ==
    ASSUME Types, Apart, Exact, StillSo, NEW w \in Workers, NEW r, Effect(w, r)
    PROVE  direct' <= 1 /\ \A v \in Workers : req'[v].op = "direct" => direct' = 0
  <1>0. req'[w] = r /\ \A v \in Workers \ {w} : req'[v] = req[v]
    BY Moves DEF Effect
  <1>1. CASE direct' = direct
    BY <1>0, <1>1 DEF Exact, StillSo, Effect, DirectEffect
  <1>2. CASE r.op # "direct" /\ req[w].op = "direct" /\ direct' = direct + 1
    BY <1>0, <1>2 DEF StillSo, Apart
  <1> QED
    BY <1>1, <1>2 DEF Effect, DirectEffect

\* A step keeps what the checks are for, and what was seen.
LEMMA ApartStep ==
    ASSUME Types, Apart, Exact, StillSo, [Next]_vars
    PROVE  Exact' /\ StillSo'
  <1>1. ASSUME NEW w \in Workers, NEW r, Effect(w, r) PROVE Exact' /\ StillSo'
    BY <1>1, ApartPins, ApartReceipts, ApartReactions, ApartDirect DEF Exact, StillSo
  <1>2. CASE UNCHANGED vars
    BY <1>2 DEF vars, group, messages, Exact, StillSo
  <1> QED
    BY <1>1, <1>2, Effects

\* If such requests do not overlap, the limits are what the code says, whatever else
\* goes on between a check and its write: messages that are sent, participants that
\* come and go, reactions taken away, the group deleted.
THEOREM ApartKeepsLimits == Spec /\ []Apart => []Exact
  <1>1. Types /\ Apart /\ Exact /\ StillSo /\ [Next]_vars => Exact' /\ StillSo'
    BY ApartStep
  <1> QED
    BY <1>1, InitTypes, InitExact, TypeStep, PTL DEF Spec
=============================================================================
