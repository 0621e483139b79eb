-------------------------- MODULE MessageStore_proof --------------------------
(* Proofs about MessageStore: for any users, messages, workers and bounds, a   *)
(* copy in the cache is the message unless its removal is still to come or was *)
(* missed, a user has one reaction to a message unless two additions           *)
(* overlapped, and a message deleted for everyone has no text unless an edit   *)
(* came after the deletion had read it.  What one request has recorded, none   *)
(* of those that overlap takes back.                                          *)
EXTENDS MessageStore, TLAPS

-----------------------------------------------------------------------------
(* The inductive invariants                                                *)

\* What a request is about, and what it has changed: what it has written so far.
Shaped(r) ==
    /\ r.op \notin {"idle", "read", "delivered", "forget"} => \E m \in Messages : r.todo = {m}
    /\ r.op \in {"pull", "push", "unreact", "read", "forward"} => r.by \in Users
Clean(r) ==
    /\ r.op \notin {"read", "delivered", "push", "forget"} => r.dirty = {}
    /\ r.op = "push" => r.dirty \subseteq r.todo
Requests == req \in [Workers -> Request] /\ \A w \in Workers : Shaped(req[w]) /\ Clean(req[w])
Values ==
    /\ doc \in [Messages -> Doc] /\ cache \in [Messages -> Doc]
    /\ requests \in 0..MaxRequests /\ faults \in 0..MaxFaults
    /\ expired \subseteq Messages /\ retracted \subseteq Messages
    /\ reworded \subseteq Messages /\ astray \subseteq Messages
    /\ crossed \subseteq Messages \X Users
Tidy == Requests /\ Values

\* Nobody has read or deleted a message before it is there.
Unread(m) ==
    /\ cache[m] = Missing
    /\ m \notin retracted
    /\ \A w \in Workers : req[w].op \in {"fill", "retract"} => m \notin req[w].todo
Born == \A m \in Messages : There(m) \/ (doc[m] = Missing /\ (m \in expired \/ Unread(m)))

\* A copy of m that was read and not overtaken is m, unless m has changed since and
\* the handler that changed it has yet to remove the copies.
Dirty(m) == \E v \in Workers : m \in req[v].dirty
Filling(w, m) == req[w].op = "fill" /\ m \in req[w].todo
FillsFresh ==
    \A w \in Workers, m \in Messages : Filling(w, m) =>
        req[w].overtaken \/ req[w].copy = doc[m] \/ Dirty(m) \/ m \in expired
CacheInv == Tidy /\ Born /\ CacheFresh /\ FillsFresh

\* Between the operations of an addition there is no reaction of the user, and no
\* other addition, unless two overlapped.
Pushing(w, m, u) == req[w].op = "push" /\ req[w].by = u /\ m \in req[w].todo
PushesAlone ==
    \A m \in Messages, u \in Users : <<m, u>> \notin crossed =>
        /\ \A v, w \in Workers : Pushing(v, m, u) /\ Pushing(w, m, u) => v = w
        /\ \A w \in Workers : Pushing(w, m, u) => doc[m].reactions[u] = 0
ReactionInv == Tidy /\ Born /\ OneReactionEach /\ PushesAlone

\* A deletion that will not write the text need not.
RetractsEmpty ==
    \A w \in Workers, m \in Messages :
        req[w].op = "retract" /\ m \in req[w].todo /\ req[w].copy.text = "empty" =>
            doc[m].text = "empty" \/ m \in reworded
RetractInv == Tidy /\ Born /\ RetractedIsEmpty /\ RetractsEmpty

-----------------------------------------------------------------------------
(* Documents and requests                                                  *)

\* No message is a document, and nothing to do a request.
LEMMA MissingIsDoc ==
    /\ Missing \in Doc /\ Missing.sender = None /\ Missing.text = "empty"
    /\ \A u \in Users : Missing.reactions[u] = 0
  BY DEF Missing, Doc, Texts

\* A worker that is idle has nothing to do.
LEMMA IdleIsRequest == Idle \in Request /\ Idle.op = "idle" /\ Idle.dirty = {} /\ Clean(Idle)
  BY MissingIsDoc DEF Idle, Request, Clean, Texts

\* What a request starts as: nothing written; a deletion has read a message.
Starts(r) ==
    /\ r \in Request /\ Shaped(r)
    /\ r.op \notin {"fill", "push", "forget"} /\ r.dirty = {}
    /\ r.op = "retract" => \E m \in Messages : r.todo = {m} /\ There(m) /\ r.copy = doc[m]

\* A request that asks, or has read, is one.
LEMMA AskingStarts ==
    ASSUME NEW op \in {"get", "read", "delivered", "pull", "unreact", "pin", "unpin"},
           NEW u \in Users \cup {None}, NEW S \in SUBSET Messages,
           op \notin {"read", "delivered"} => \E m \in Messages : S = {m},
           op \in {"pull", "unreact", "read"} => u \in Users
    PROVE  Starts(Asking(op, u, S))
  BY MissingIsDoc DEF Starts, Shaped, Asking, Idle, Request, Texts

\* What a request has read is the message as it is.
LEMMA HavingIs ==
    ASSUME NEW op \in {"fill", "edit", "delete", "retract", "forward"},
           NEW u \in Users \cup {None}, NEW m \in Messages, TypeOK
    PROVE  /\ Having(op, u, m) \in Request
           /\ Having(op, u, m).op = op /\ Having(op, u, m).by = u
           /\ Having(op, u, m).todo = {m} /\ Having(op, u, m).dirty = {}
           /\ Having(op, u, m).copy = doc[m] /\ ~Having(op, u, m).overtaken
  BY MissingIsDoc DEF Having, Asking, Idle, Request, Texts, TypeOK

\* A request that has read a message starts with it.
LEMMA HavingStarts ==
    ASSUME NEW op \in {"edit", "delete", "retract", "forward"},
           NEW u \in Users, NEW m \in Messages, TypeOK, There(m)
    PROVE  Starts(Having(op, u, m))
  BY HavingIs DEF Starts, Shaped

\* Editing asks with the new text.
LEMMA EditingStarts ==
    ASSUME NEW u \in Users, NEW m \in Messages, NEW text \in Texts, TypeOK
    PROVE  Starts([Having("edit", u, m) EXCEPT !.text = text])
  BY HavingIs DEF Starts, Shaped, Request

\* Somebody asks for something.
Asked == \E w \in Workers, r \in Request : Starts(r) /\ Begin(w, r)

\* What users ask for about a message is a request that starts.
LEMMA AskIsAsked ==
    ASSUME NEW w \in Workers, NEW u \in Users, Ask(w, u), TypeOK
    PROVE  Asked
  <1>1. ASSUME NEW m \in Messages, AddReaction(w, u, m) \/ RemoveReaction(w, u, m)
        PROVE  Asked
    <2>1. Starts(Asking("pull", u, {m})) /\ Starts(Asking("unreact", u, {m}))
      BY AskingStarts
    <2> QED
      BY <1>1, <2>1 DEF AddReaction, RemoveReaction, Asked, Starts
  <1>2. ASSUME NEW m \in Messages, ForwardMessage(w, u, m)
        PROVE  Asked
    BY <1>2, HavingStarts DEF ForwardMessage, Asked, Starts
  <1>3. ASSUME NEW m \in Messages, NEW text \in Texts, UpdateMessage(w, u, m, text)
        PROVE  Asked
    BY <1>3, EditingStarts DEF UpdateMessage, Asked, Starts
  <1>4. ASSUME NEW m \in Messages, NEW op \in {"delete", "retract"}, DeleteMessage(w, u, m, op)
        PROVE  Asked
    BY <1>4, HavingStarts DEF DeleteMessage, Asked, Starts
  <1>5. ASSUME NEW S \in SUBSET Messages, MarkAsRead(w, u, S) \/ MarkAsDelivered(w, u, S)
        PROVE  Asked
    <2>1. Starts(Asking("read", u, S)) /\ Starts(Asking("delivered", u, S))
      BY AskingStarts
    <2> QED
      BY <1>5, <2>1 DEF MarkAsRead, MarkAsDelivered, Asked, Starts
  <1> QED
    BY <1>1, <1>2, <1>3, <1>4, <1>5 DEF Ask

\* So are reading it through the cache and pinning it.
LEMMA LookIsAsked ==
    ASSUME NEW w \in Workers, NEW m \in Messages,
           GetMessage(w, m) \/ PinMessage(w, m) \/ UnpinMessage(w, m)
    PROVE  Asked
  <1>1. Starts(Asking("get", None, {m})) /\ Starts(Asking("pin", None, {m}))
            /\ Starts(Asking("unpin", None, {m}))
    BY AskingStarts
  <1> QED
    BY <1>1 DEF GetMessage, PinMessage, UnpinMessage, Asked, Starts

\* The steps.
Step ==
    \/ Asked
    \/ \E u \in Users, m \in Messages, text \in Texts \cup {"empty"} : SendMessage(u, m, text)
    \/ \E w \in Workers, m \in Messages : ForwardTo(w, m)
    \/ \E w \in Workers :
          Read(w) \/ Fill(w) \/ Save(w) \/ Mark(w) \/ Pull(w) \/ Apply(w) \/ Forget(w) \/ RequestFails(w)
    \/ \E m \in Messages : CopyExpires(m) \/ MessageExpires(m)
    \/ Crash

\* A step is one of these.
LEMMA Steps == TypeOK /\ Next => Step
  BY AskIsAsked, LookIsAsked DEF Next, Step

-----------------------------------------------------------------------------
(* Types                                                                   *)

\* What a worker goes on with keeps the requests' types.
Kept(r) == r \in Request /\ Shaped(r) /\ Clean(r)

\* The types of the specification are among these.
LEMMA TidyTyped == Tidy => TypeOK
  BY DEF Tidy, Requests, Values, Shaped, TypeOK

\* A worker that goes on with such a request keeps the types of all.
LEMMA GoTypes ==
    ASSUME Requests, NEW w \in Workers, NEW r, Kept(r), Go(w, r)
    PROVE  Requests'
  BY DEF Requests, Go, Kept, Shaped, Clean

\* So does one that ends.
LEMMA EndTypes ==
    ASSUME Requests, NEW w \in Workers, End(w)
    PROVE  Requests'
  BY GoTypes, IdleIsRequest DEF End, Kept, Shaped

\* Writing ends with the removal of the copies.
LEMMA WroteTypes ==
    ASSUME Requests, NEW w \in Workers, NEW m \in req[w].todo, Wrote(w, m),
           req[w].op \in {"edit", "delete", "retract", "read", "delivered",
                          "push", "unreact", "pin", "unpin"}
    PROVE  Requests'
  <1> DEFINE op == IF req[w].todo = {m} THEN "forget" ELSE req[w].op
             r == [req[w] EXCEPT !.op = op, !.todo = @ \ {m}, !.dirty = @ \cup {m}]
  <1>1. r \in Request /\ r.op = op /\ r.by = req[w].by /\ Shaped(req[w])
    BY DEF Requests, Request
  <1>2. Kept(r)
    <2>1. CASE req[w].todo = {m}
      BY <1>1, <2>1 DEF Kept, Shaped, Clean
    <2>2. CASE req[w].todo # {m}
      <3>1. req[w].op \in {"read", "delivered"}
        BY <1>1, <2>2 DEF Shaped
      <3> QED
        BY <1>1, <2>2, <3>1 DEF Kept, Shaped, Clean
    <2> QED
      BY <2>1, <2>2
  <1> HIDE DEF r
  <1>3. Go(w, r)
    BY DEF Wrote, WroteThen, r
  <1> QED
    BY <1>2, <1>3, GoTypes

\* A request that is overtaken keeps what it has.
LEMMA Overtaken ==
    ASSUME NEW S, NEW r \in Request, Shaped(r), Clean(r)
    PROVE  /\ Overtake(S, r) \in Request /\ Shaped(Overtake(S, r)) /\ Clean(Overtake(S, r))
           /\ Overtake(S, r).op = r.op /\ Overtake(S, r).by = r.by
           /\ Overtake(S, r).todo = r.todo /\ Overtake(S, r).dirty = r.dirty
           /\ Overtake(S, r).copy = r.copy
           /\ r.overtaken => Overtake(S, r).overtaken
           /\ r.op = "fill" /\ r.todo \subseteq S => Overtake(S, r).overtaken
  BY DEF Overtake, Request, Shaped, Clean

\* What is written is a document with the same sender, and reactions that only an
\* addition or a removal changes.
LEMMA SavedIsDoc ==
    ASSUME NEW r \in Request, NEW d \in Doc
    PROVE  /\ Saved(r, d) \in Doc
           /\ Saved(r, d).sender = d.sender /\ Saved(r, d).reactions = d.reactions
           /\ r.op = "delete" => Saved(r, d).text = d.text
           /\ r.op = "retract" =>
                Saved(r, d).text = IF r.copy.text = "empty" THEN d.text ELSE "empty"
  <1>1. Assigned(r.text, r.copy.text, d.text) \in Texts \cup {"empty"}
    BY DEF Assigned, Request, Doc
  <1>2. Assigned("empty", r.copy.text, d.text)
            = IF r.copy.text = "empty" THEN d.text ELSE "empty"
    BY DEF Assigned
  <1> HIDE DEF Assigned
  <1> QED
    BY <1>1, <1>2 DEF Saved, Doc

\* Marking leaves the sender, the reactions and the text alone.
LEMMA MarkedIsDoc ==
    ASSUME NEW op \in {"read", "delivered"}, NEW u \in Users \cup {None}, NEW d \in Doc,
           op = "read" => u \in Users
    PROVE  /\ Marked(op, u, d) \in Doc
           /\ Marked(op, u, d).sender = d.sender /\ Marked(op, u, d).reactions = d.reactions
           /\ Marked(op, u, d).text = d.text
  BY DEF Marked, Doc

\* One operation changes at most one user's reactions, or the pin.
LEMMA AppliedIsDoc ==
    ASSUME NEW op \in {"push", "unreact", "pin", "unpin"}, NEW u \in Users \cup {None},
           NEW d \in Doc, op \in {"push", "unreact"} => u \in Users
    PROVE  /\ Applied(op, u, d) \in Doc
           /\ Applied(op, u, d).sender = d.sender /\ Applied(op, u, d).text = d.text
           /\ \A v \in Users : Applied(op, u, d).reactions[v] =
                IF op = "push" /\ v = u THEN d.reactions[v] + 1
                ELSE IF op = "unreact" /\ v = u THEN 0
                ELSE d.reactions[v]
  <1>1. CASE op = "push"
    <2>1. d.reactions[u] + 1 \in Nat
      BY <1>1 DEF Doc
    <2>2. [d.reactions EXCEPT ![u] = @ + 1] \in [Users -> Nat]
      BY <1>1, <2>1 DEF Doc
    <2>3. Applied(op, u, d) = [d EXCEPT !.reactions = [d.reactions EXCEPT ![u] = @ + 1]]
      BY <1>1 DEF Applied, Doc
    <2> QED
      BY <1>1, <2>2, <2>3 DEF Doc
  <1>2. CASE op = "unreact"
    <2>1. [d.reactions EXCEPT ![u] = 0] \in [Users -> Nat]
      BY <1>2 DEF Doc
    <2>2. Applied(op, u, d) = [d EXCEPT !.reactions = [d.reactions EXCEPT ![u] = 0]]
      BY <1>2 DEF Applied, Doc
    <2> QED
      BY <1>2, <2>1, <2>2 DEF Doc
  <1>3. CASE op \in {"pin", "unpin"}
    <2>1. Applied(op, u, d) = [d EXCEPT !.pinned = (op = "pin")]
      BY <1>3 DEF Applied
    <2> QED
      BY <1>3, <2>1 DEF Doc
  <1> QED
    BY <1>1, <1>2, <1>3

\* A message that is sent has a sender and no reactions.
LEMMA SentIsDoc ==
    ASSUME NEW u \in Users, NEW text \in Texts \cup {"empty"}
    PROVE  /\ Sent(u, text) \in Doc /\ Sent(u, text).sender = u /\ u # None
           /\ \A v \in Users : Sent(u, text).reactions[v] = 0
  BY MissingIsDoc, NoneAssumption DEF Sent, Missing, Doc, Texts

\* What a write does to the documents.
LEMMA WriteIs ==
    ASSUME Tidy, NEW w \in Workers, Save(w) \/ Mark(w) \/ Apply(w)
    PROVE  /\ doc' \in [Messages -> Doc]
           /\ \A m \in Messages : doc'[m] # doc[m] => There(m) /\ m \in req[w].todo
           /\ \A m \in Messages : There(m)' <=> There(m)
           /\ \/ /\ End(w) /\ UNCHANGED doc /\ \A m \in req[w].todo : ~There(m)
                 /\ req[w].op \in {"edit", "delete", "retract", "push", "unreact", "pin", "unpin"}
              \/ \E m \in req[w].todo : Wrote(w, m) /\ \A n \in Messages \ {m} : doc'[n] = doc[n]
  <1> USE DEF Tidy, Requests, Values
  <1>1. CASE Save(w)
    <2>1. PICK m \in Messages : req[w].todo = {m}
      BY <1>1 DEF Save, Shaped
    <2>2. Saved(req[w], doc[m]) \in Doc /\ Saved(req[w], doc[m]).sender = doc[m].sender
      BY SavedIsDoc
    <2> QED
      BY <1>1, <2>1, <2>2 DEF Save, There
  <1>2. CASE Mark(w)
    <2>1. PICK m \in req[w].todo :
             /\ doc' = IF There(m) THEN [doc EXCEPT ![m] = Marked(req[w].op, req[w].by, @)] ELSE doc
             /\ Wrote(w, m)
      BY <1>2 DEF Mark
    <2>2. m \in Messages
      BY DEF Request
    <2>3. /\ Marked(req[w].op, req[w].by, doc[m]) \in Doc
          /\ Marked(req[w].op, req[w].by, doc[m]).sender = doc[m].sender
      BY <1>2, <2>2, MarkedIsDoc DEF Mark, Shaped, Request
    <2> QED
      BY <1>2, <2>1, <2>2, <2>3 DEF There
  <1>3. CASE Apply(w)
    <2>1. PICK m \in Messages : req[w].todo = {m}
      BY <1>3 DEF Apply, Shaped
    <2>2. CASE There(m)
      <3>1. doc' = [doc EXCEPT ![m] = Applied(req[w].op, req[w].by, @)] /\ Wrote(w, m)
        BY <1>3, <2>1, <2>2 DEF Apply
      <3>2. /\ Applied(req[w].op, req[w].by, doc[m]) \in Doc
            /\ Applied(req[w].op, req[w].by, doc[m]).sender = doc[m].sender
        <4>1. req[w].op \in {"push", "unreact", "pin", "unpin"} /\ Shaped(req[w])
          BY <1>3 DEF Apply
        <4>2. req[w].by \in Users \cup {None} /\ doc[m] \in Doc
          BY DEF Request
        <4>3. req[w].op \in {"push", "unreact"} => req[w].by \in Users
          BY <4>1 DEF Shaped
        <4> QED
          BY <4>1, <4>2, <4>3, AppliedIsDoc
      <3> QED
        BY <2>1, <2>2, <3>1, <3>2 DEF There
    <2>3. CASE ~There(m)
      BY <1>3, <2>1, <2>3 DEF Apply, There
    <2> QED
      BY <2>2, <2>3
  <1> QED
    BY <1>1, <1>2, <1>3

\* Sending and forwarding make a document of a message that was not there.
LEMMA SendIs ==
    ASSUME Tidy,
           \/ \E u \in Users, m \in Messages, text \in Texts \cup {"empty"} : SendMessage(u, m, text)
           \/ \E w \in Workers, m \in Messages : ForwardTo(w, m)
    PROVE  \E u \in Users, m \in Messages, text \in Texts \cup {"empty"} :
              Unused(m) /\ doc' = [doc EXCEPT ![m] = Sent(u, text)]
  <1>1. ASSUME NEW w \in Workers, NEW m \in Messages, ForwardTo(w, m)
        PROVE  req[w].by \in Users /\ req[w].copy.text \in Texts \cup {"empty"}
    BY <1>1 DEF ForwardTo, Tidy, Requests, Shaped, Request, Doc
  <1> QED
    BY <1>1 DEF SendMessage, ForwardTo

\* What the first operation of an addition does.
LEMMA PullIs ==
    ASSUME Tidy, NEW w \in Workers, Pull(w)
    PROVE  /\ doc' \in [Messages -> Doc] /\ crossed' \subseteq Messages \X Users
           /\ req[w].by \in Users
           /\ \E m \in Messages :
                /\ req[w].todo = {m}
                /\ Go(w, [req[w] EXCEPT !.op = "push", !.dirty = {m}])
                /\ crossed' = IF Overlaps(w, m) THEN crossed \cup {<<m, req[w].by>>}
                              ELSE crossed \ {<<m, req[w].by>>}
                /\ doc' = IF There(m) THEN [doc EXCEPT ![m] = Applied("unreact", req[w].by, @)]
                          ELSE doc
  <1>1. Shaped(req[w]) /\ req[w].op = "pull"
    BY DEF Pull, Tidy, Requests
  <1>2. PICK m \in Messages : req[w].todo = {m}
    BY <1>1 DEF Shaped
  <1>3. req[w].by \in Users
    BY <1>1 DEF Shaped
  <1>4. /\ crossed' = IF Overlaps(w, m) THEN crossed \cup {<<m, req[w].by>>}
                      ELSE crossed \ {<<m, req[w].by>>}
        /\ Go(w, [req[w] EXCEPT !.op = "push", !.dirty = {m}])
        /\ doc' = IF There(m) THEN [doc EXCEPT ![m].reactions[req[w].by] = 0] ELSE doc
    BY <1>2 DEF Pull
  <1>5. doc \in [Messages -> Doc] /\ crossed \subseteq Messages \X Users
    BY DEF Tidy, Values
  <1>6. Applied("unreact", req[w].by, doc[m]) \in Doc
    BY <1>3, <1>5, AppliedIsDoc
  <1>7. doc' = IF There(m) THEN [doc EXCEPT ![m] = Applied("unreact", req[w].by, @)] ELSE doc
    BY <1>4, <1>5 DEF Applied
  <1>8. doc' \in [Messages -> Doc]
    BY <1>5, <1>6, <1>7
  <1>9. crossed' \subseteq Messages \X Users
    BY <1>3, <1>4, <1>5
  <1> HIDE DEF Applied
  <1> QED
    BY <1>2, <1>3, <1>4, <1>7, <1>8, <1>9

\* Every step keeps the requests' types.
LEMMA RequestsStep == Tidy /\ Step => Requests'
  <1> SUFFICES ASSUME Tidy, Step PROVE Requests'
    OBVIOUS
  <1>0. Requests
    BY DEF Tidy
  <1>1. CASE Asked
    <2>1. PICK w \in Workers, r \in Request : Starts(r) /\ Begin(w, r)
      BY <1>1 DEF Asked
    <2> QED
      BY <1>0, <2>1, GoTypes DEF Begin, Go, Starts, Kept, Clean
  <1>2. CASE \E u \in Users, m \in Messages, text \in Texts \cup {"empty"} : SendMessage(u, m, text)
    BY <1>0, <1>2 DEF SendMessage, Requests, Shaped, Clean
  <1>3. CASE \E w \in Workers, m \in Messages : ForwardTo(w, m)
    <2>1. CASE UNCHANGED req
      BY <1>0, <2>1 DEF Requests
    <2> QED
      BY <1>0, <1>3, <2>1, EndTypes DEF ForwardTo
  <1>4. ASSUME NEW w \in Workers, Read(w)
        PROVE  Requests'
    <2>1. PICK m \in req[w].todo : IF There(m) THEN Go(w, Having("fill", None, m)) ELSE End(w)
      BY <1>4 DEF Read
    <2>2. m \in Messages
      BY <1>0 DEF Requests, Request
    <2>3. Kept(Having("fill", None, m))
      BY <2>2, HavingIs, TidyTyped DEF Kept, Shaped, Clean
    <2> QED
      BY <1>0, <2>1, <2>3, GoTypes, EndTypes
  <1>5. ASSUME NEW w \in Workers, Fill(w)
        PROVE  Requests'
    BY <1>0, <1>5, EndTypes DEF Fill
  <1>6. ASSUME NEW w \in Workers, Save(w) \/ Mark(w) \/ Apply(w)
        PROVE  Requests'
    <2>1. req[w].op \in {"edit", "delete", "retract", "read", "delivered",
                         "push", "unreact", "pin", "unpin"}
      BY <1>6 DEF Save, Mark, Apply
    <2> QED
      BY <1>0, <1>6, <2>1, WriteIs, WroteTypes, EndTypes
  <1>7. ASSUME NEW w \in Workers, Pull(w)
        PROVE  Requests'
    <2>1. PICK m \in Messages : req[w].todo = {m}
      BY <1>0, <1>7 DEF Pull, Requests, Shaped
    <2>2. Go(w, [req[w] EXCEPT !.op = "push", !.dirty = {m}])
      BY <1>7, <2>1 DEF Pull
    <2>3. req[w] \in Request /\ Shaped(req[w]) /\ req[w].op = "pull"
      BY <1>0, <1>7 DEF Pull, Requests
    <2> DEFINE r == [req[w] EXCEPT !.op = "push", !.dirty = {m}]
    <2>4. r \in Request
      BY <2>3 DEF Request
    <2>5. r.op = "push" /\ r.by = req[w].by /\ r.todo = {m} /\ r.dirty = {m}
      BY <2>1, <2>3 DEF Request
    <2>6. req[w].by \in Users
      BY <2>3 DEF Shaped
    <2>7. Go(w, r)
      BY <2>2
    <2> HIDE DEF r
    <2>8. Kept(r)
      BY <2>4, <2>5, <2>6 DEF Kept, Shaped, Clean
    <2> QED
      BY <1>0, <2>7, <2>8, GoTypes
  <1>8. ASSUME NEW w \in Workers, Forget(w)
        PROVE  Requests'
    <2>1. PICK m \in req[w].dirty :
             req' = [v \in Workers |->
                IF v # w THEN Overtake({m}, req[v])
                ELSE IF req[w].dirty = {m} THEN Idle ELSE [req[w] EXCEPT !.dirty = @ \ {m}]]
      BY <1>8 DEF Forget
    <2>2. Kept([req[w] EXCEPT !.dirty = @ \ {m}])
      <3> DEFINE r == [req[w] EXCEPT !.dirty = @ \ {m}]
      <3>1. req[w] \in Request /\ req[w].op = "forget"
        BY <1>0, <1>8 DEF Forget, Requests
      <3>2. r \in Request /\ r.op = "forget"
        BY <3>1 DEF Request
      <3> HIDE DEF r
      <3>3. Kept(r)
        BY <3>2 DEF Kept, Shaped, Clean
      <3> QED
        BY <3>3 DEF r
    <2>3. \A v \in Workers : Kept(Overtake({m}, req[v]))
      BY <1>0, Overtaken DEF Requests, Kept
    <2>4. Kept(Idle)
      BY IdleIsRequest DEF Kept, Shaped
    <2> QED
      BY <2>1, <2>2, <2>3, <2>4 DEF Requests, Kept
  <1>9. ASSUME NEW w \in Workers, RequestFails(w)
        PROVE  Requests'
    <2>1. \A v \in Workers : Kept(Overtake(req[w].dirty, req[v]))
      BY <1>0, Overtaken DEF Requests, Kept
    <2>2. Kept(Idle)
      BY IdleIsRequest DEF Kept, Shaped
    <2> QED
      BY <1>9, <2>1, <2>2 DEF RequestFails, Requests, Kept
  <1>10. CASE \E m \in Messages : CopyExpires(m) \/ MessageExpires(m)
    BY <1>0, <1>10 DEF CopyExpires, MessageExpires, Requests
  <1>11. CASE Crash
    BY <1>11, IdleIsRequest DEF Crash, Requests, Shaped
  <1> QED
    BY <1>1, <1>2, <1>3, <1>4, <1>5, <1>6, <1>7, <1>8, <1>9, <1>10, <1>11 DEF Step

\* Every step keeps the types.
LEMMA TidyStep == Tidy /\ Step => Tidy'
  <1> SUFFICES ASSUME Tidy, Step PROVE Tidy'
    OBVIOUS
  <1> USE DEF Tidy, Values
  <1>0. Requests'
    BY RequestsStep
  <1>1. CASE Asked
    BY <1>0, <1>1, BoundAssumption DEF Asked, Begin, NewRequest, history
  <1>2. CASE \/ \E u \in Users, m \in Messages, text \in Texts \cup {"empty"} : SendMessage(u, m, text)
             \/ \E w \in Workers, m \in Messages : ForwardTo(w, m)
    <2>1. doc' \in [Messages -> Doc]
      BY <1>2, SendIs, SentIsDoc
    <2> QED
      BY <1>0, <1>2, <2>1, BoundAssumption DEF SendMessage, ForwardTo, NewRequest, history
  <1>3. ASSUME NEW w \in Workers, Read(w)
        PROVE  Tidy'
    BY <1>0, <1>3 DEF Read, history
  <1>4. ASSUME NEW w \in Workers, Fill(w)
        PROVE  Tidy'
    BY <1>0, <1>4 DEF Fill, history, Requests, Request
  <1>5. ASSUME NEW w \in Workers, Save(w) \/ Mark(w) \/ Apply(w)
        PROVE  Tidy'
    <2>1. doc' \in [Messages -> Doc]
      BY <1>5, WriteIs
    <2> QED
      BY <1>0, <1>5, <2>1 DEF Save, Mark, Apply, history, Requests, Request
  <1>6. ASSUME NEW w \in Workers, Pull(w)
        PROVE  Tidy'
    <2>1. doc' \in [Messages -> Doc] /\ crossed' \subseteq Messages \X Users
      BY <1>6, PullIs
    <2> QED
      BY <1>0, <1>6, <2>1 DEF Pull
  <1>7. ASSUME NEW w \in Workers, Forget(w)
        PROVE  Tidy'
    BY <1>0, <1>7, MissingIsDoc DEF Forget, history
  <1>8. ASSUME NEW w \in Workers, RequestFails(w)
        PROVE  Tidy'
    BY <1>0, <1>8, BoundAssumption DEF RequestFails, Fault, history, Requests, Request
  <1>9. CASE \E m \in Messages : CopyExpires(m) \/ MessageExpires(m)
    BY <1>0, <1>9, MissingIsDoc, BoundAssumption DEF CopyExpires, MessageExpires, Fault, history
  <1>10. CASE Crash
    BY <1>0, <1>10, MissingIsDoc, BoundAssumption DEF Crash, Fault, history
  <1> QED
    BY <1>1, <1>2, <1>3, <1>4, <1>5, <1>6, <1>7, <1>8, <1>9, <1>10 DEF Step

\* The initial states have the types.
LEMMA TidyInit == Init => Tidy
  <1> SUFFICES ASSUME Init PROVE Tidy
    OBVIOUS
  <1>1. Requests
    BY IdleIsRequest DEF Init, Requests, Shaped
  <1> QED
    BY <1>1, MissingIsDoc, BoundAssumption DEF Init, Tidy, Values

\* A step that changes nothing keeps the types.
LEMMA TidyStutter == Tidy /\ UNCHANGED vars => Tidy'
  BY DEF vars, history, Tidy, Requests, Values

\* The variables keep their types, and no count of reactions goes below 0.
THEOREM TypeCorrect == Spec => []TypeOK
  <1>1. Tidy /\ [Next]_vars => Tidy'
    BY Steps, TidyStep, TidyStutter, TidyTyped
  <1> QED
    BY <1>1, TidyInit, TidyTyped, PTL DEF Spec

-----------------------------------------------------------------------------
(* Messages that are not there                                             *)

\* Who reads or deletes a message now has done so before, or found it.
NewReaders ==
    \A w \in Workers, m \in Messages :
        req'[w].op \in {"fill", "retract"} /\ m \in req'[w].todo =>
            There(m) \/ (req[w].op \in {"fill", "retract"} /\ m \in req[w].todo)

\* A worker that goes on reads or deletes what it did before, or what is there.
LEMMA GoReaders ==
    ASSUME Requests, NEW w \in Workers, NEW r, Go(w, r),
           r.op \in {"fill", "retract"} =>
              \A m \in r.todo : There(m) \/ (req[w].op \in {"fill", "retract"} /\ m \in req[w].todo)
    PROVE  NewReaders
  BY DEF Go, Requests, NewReaders

\* One that ends reads nothing.
LEMMA EndReaders ==
    ASSUME Requests, NEW w \in Workers, End(w)
    PROVE  NewReaders
  BY GoReaders, IdleIsRequest DEF End

\* One that has written reads nothing more.
LEMMA WroteReaders ==
    ASSUME Requests, NEW w \in Workers, NEW m, Wrote(w, m)
    PROVE  NewReaders
  <1> DEFINE op == IF req[w].todo = {m} THEN "forget" ELSE req[w].op
             r == [req[w] EXCEPT !.op = op, !.todo = @ \ {m}, !.dirty = @ \cup {m}]
  <1>1. r.op = op /\ r.todo \subseteq req[w].todo
    BY DEF Requests, Request
  <1>2. Go(w, r)
    BY DEF Wrote, WroteThen
  <1> HIDE DEF r
  <1> QED
    BY <1>1, <1>2, GoReaders

\* No step reads or deletes a message that is not there.
LEMMA ReadersStep == Tidy /\ Step => NewReaders
  <1> SUFFICES ASSUME Tidy, Step PROVE NewReaders
    OBVIOUS
  <1>0. Requests
    BY DEF Tidy
  <1>1. CASE Asked
    <2>1. PICK w \in Workers, r \in Request : Starts(r) /\ Begin(w, r)
      BY <1>1 DEF Asked
    <2>2. r.op \in {"fill", "retract"} => \A m \in r.todo : There(m)
      BY <2>1 DEF Starts
    <2> QED
      BY <1>0, <2>1, <2>2, GoReaders DEF Begin, Go
  <1>2. CASE UNCHANGED req
    BY <1>2 DEF NewReaders
  <1>3. CASE \E w \in Workers, m \in Messages : ForwardTo(w, m)
    BY <1>0, <1>2, <1>3, EndReaders DEF ForwardTo
  <1>4. ASSUME NEW w \in Workers, Read(w)
        PROVE  NewReaders
    <2>1. PICK m \in req[w].todo : IF There(m) THEN Go(w, Having("fill", None, m)) ELSE End(w)
      BY <1>4 DEF Read
    <2>2. m \in Messages
      BY <1>0 DEF Requests, Request
    <2> QED
      BY <1>0, <2>1, <2>2, HavingIs, TidyTyped, GoReaders, EndReaders
  <1>5. ASSUME NEW w \in Workers, Fill(w)
        PROVE  NewReaders
    BY <1>0, <1>5, EndReaders DEF Fill
  <1>6. ASSUME NEW w \in Workers, Save(w) \/ Mark(w) \/ Apply(w)
        PROVE  NewReaders
    BY <1>0, <1>6, WriteIs, WroteReaders, EndReaders
  <1>7. ASSUME NEW w \in Workers, Pull(w)
        PROVE  NewReaders
    <2>1. PICK m \in Messages : Go(w, [req[w] EXCEPT !.op = "push", !.dirty = {m}])
      BY <1>7, PullIs
    <2>2. [req[w] EXCEPT !.op = "push", !.dirty = {m}].op = "push"
      BY <1>0 DEF Requests, Request
    <2> QED
      BY <1>0, <2>1, <2>2, GoReaders
  <1>8. ASSUME NEW w \in Workers, Forget(w)
        PROVE  NewReaders
    <2>1. PICK m \in req[w].dirty :
             req' = [v \in Workers |->
                IF v # w THEN Overtake({m}, req[v])
                ELSE IF req[w].dirty = {m} THEN Idle ELSE [req[w] EXCEPT !.dirty = @ \ {m}]]
      BY <1>8 DEF Forget
    <2>2. \A v \in Workers : /\ Overtake({m}, req[v]).op = req[v].op
                            /\ Overtake({m}, req[v]).todo = req[v].todo
      BY <1>0, Overtaken DEF Requests
    <2>3. [req[w] EXCEPT !.dirty = @ \ {m}].op = "forget" /\ Idle.op = "idle"
      BY <1>0, <1>8, IdleIsRequest DEF Forget, Requests, Request
    <2> QED
      BY <2>1, <2>2, <2>3 DEF NewReaders
  <1>9. ASSUME NEW w \in Workers, RequestFails(w)
        PROVE  NewReaders
    <2>1. \A v \in Workers : /\ Overtake(req[w].dirty, req[v]).op = req[v].op
                            /\ Overtake(req[w].dirty, req[v]).todo = req[v].todo
      BY <1>0, Overtaken DEF Requests
    <2> QED
      BY <1>9, <2>1, IdleIsRequest DEF RequestFails, NewReaders
  <1>10. CASE Crash
    BY <1>10, IdleIsRequest DEF Crash, NewReaders
  <1> QED
    BY <1>1, <1>2, <1>3, <1>4, <1>5, <1>6, <1>7, <1>8, <1>9, <1>10
       DEF Step, SendMessage, CopyExpires, MessageExpires

\* Every step keeps Born: what was not there is not copied, nor deleted.
LEMMA BornStep == Tidy /\ Born /\ Step => Born'
  <1> SUFFICES ASSUME Tidy, Born, Step, NEW m \in Messages
               PROVE  (There(m) \/ (doc[m] = Missing /\ (m \in expired \/ Unread(m))))'
    BY DEF Born
  <1> DEFINE Gone == doc[m] = Missing /\ (m \in expired \/ Unread(m))
  <1>0. There(m) \/ Gone
    BY DEF Born
  <1>1. NewReaders /\ m \in DOMAIN doc /\ m \in DOMAIN cache
    BY ReadersStep DEF Tidy, Values
  <1>2. ASSUME There(m) => There(m)', doc'[m] = doc[m] \/ There(m),
               m \in expired => m \in expired', ~There(m) => m \notin retracted' \ retracted,
               cache'[m] = cache[m] \/ cache'[m] = Missing \/ There(m) \/ m \in expired
        PROVE  (There(m) \/ Gone)'
    <2>1. CASE There(m)
      BY <1>2, <2>1
    <2>2. CASE m \in expired /\ ~There(m)
      BY <1>0, <1>2, <2>2
    <2>3. CASE Unread(m) /\ ~There(m)
      <3>1. doc'[m] = Missing /\ (cache'[m] = Missing \/ m \in expired)
        BY <1>0, <1>2, <2>3 DEF Unread
      <3>2. \A w \in Workers : req'[w].op \in {"fill", "retract"} => m \notin req'[w].todo
        BY <1>1, <2>3 DEF NewReaders, Unread
      <3> QED
        BY <1>0, <1>2, <2>3, <3>1, <3>2 DEF Unread
    <2> QED
      BY <1>0, <2>1, <2>2, <2>3
  <1> HIDE DEF Gone
  <1>3. CASE \/ \E u \in Users, n \in Messages, text \in Texts \cup {"empty"} : SendMessage(u, n, text)
             \/ \E w \in Workers, n \in Messages : ForwardTo(w, n)
    <2>1. PICK u \in Users, n \in Messages, text \in Texts \cup {"empty"} :
             Unused(n) /\ doc' = [doc EXCEPT ![n] = Sent(u, text)]
      BY <1>3, SendIs
    <2>2. CASE n = m
      BY <1>1, <2>1, <2>2, SentIsDoc DEF There
    <2>3. CASE n # m
      <3>1. doc'[m] = doc[m]
        BY <1>1, <2>1, <2>3
      <3>2. cache' = cache /\ expired' = expired /\ retracted' = retracted
        BY <1>3 DEF SendMessage, ForwardTo, history
      <3>3. There(m)' <=> There(m)
        BY <3>1 DEF There
      <3> QED
        BY <1>2, <3>1, <3>2, <3>3 DEF Gone
    <2> QED
      BY <2>2, <2>3
  <1>4. ASSUME NEW w \in Workers, Fill(w)
        PROVE  (There(m) \/ Gone)'
    <2>1. PICK n \in req[w].todo : cache' = [cache EXCEPT ![n] = req[w].copy]
      BY <1>4 DEF Fill
    <2>2. n = m => There(m) \/ m \in expired
      BY <1>0, <1>4 DEF Fill, Gone, Unread
    <2> QED
      BY <1>1, <1>2, <1>4, <2>1, <2>2 DEF Fill, There, history
  <1>5. ASSUME NEW w \in Workers, Save(w) \/ Mark(w) \/ Apply(w)
        PROVE  (There(m) \/ Gone)'
    <2>1. (There(m)' <=> There(m)) /\ (doc'[m] # doc[m] => There(m))
      BY <1>5, WriteIs
    <2>2. ~There(m) => m \notin retracted' \ retracted
      BY <1>5 DEF Save, Mark, Apply, history
    <2> QED
      BY <1>2, <1>5, <2>1, <2>2 DEF Save, Mark, Apply
  <1>6. ASSUME NEW w \in Workers, Pull(w)
        PROVE  (There(m) \/ Gone)'
    <2>1. PICK n \in Messages :
             doc' = IF There(n) THEN [doc EXCEPT ![n] = Applied("unreact", req[w].by, @)] ELSE doc
      BY <1>6, PullIs
    <2>2. Applied("unreact", req[w].by, doc[n]).sender = doc[n].sender
      <3>1. req[w].by \in Users /\ doc[n] \in Doc
        BY <1>6, PullIs DEF Tidy, Values
      <3> QED
        BY <3>1, AppliedIsDoc
    <2> QED
      BY <1>1, <1>2, <1>6, <2>1, <2>2 DEF Pull, There
  <1>7. CASE Asked \/ (\E w \in Workers : Read(w) \/ RequestFails(w)) \/ Crash
    <2>1. doc' = doc /\ expired' = expired /\ retracted' = retracted
      BY <1>7 DEF Asked, Begin, Read, RequestFails, Crash, history
    <2>2. cache'[m] = cache[m] \/ cache'[m] = Missing
      BY <1>7 DEF Asked, Begin, Read, RequestFails, Crash
    <2>3. There(m)' <=> There(m)
      BY <2>1 DEF There
    <2> QED
      BY <1>2, <2>1, <2>2, <2>3 DEF Gone
  <1>8. CASE (\E w \in Workers : Forget(w)) \/ (\E n \in Messages : CopyExpires(n))
    <2>1. doc' = doc /\ expired' = expired /\ retracted' = retracted
      BY <1>8 DEF Forget, CopyExpires, history
    <2>2. cache'[m] = cache[m] \/ cache'[m] = Missing
      BY <1>1, <1>8 DEF Forget, CopyExpires
    <2>3. There(m)' <=> There(m)
      BY <2>1 DEF There
    <2> QED
      BY <1>2, <2>1, <2>2, <2>3 DEF Gone
  <1>9. ASSUME NEW n \in Messages, MessageExpires(n)
        PROVE  (There(m) \/ Gone)'
    <2>1. CASE n = m
      BY <1>1, <1>9, <2>1 DEF MessageExpires, Gone
    <2>2. CASE n # m
      BY <1>2, <1>9, <2>2 DEF MessageExpires, There, history
    <2> QED
      BY <2>1, <2>2
  <1> QED
    BY <1>3, <1>4, <1>5, <1>6, <1>7, <1>8, <1>9 DEF Step, Gone

\* At first no message is there, and nobody has read any.
LEMMA BornInit == Init => Born
  BY IdleIsRequest DEF Init, Born, Unread

\* A step that changes nothing keeps Born.
LEMMA BornStutter == Born /\ UNCHANGED vars => Born'
  BY DEF vars, history, Born, There, Unread

-----------------------------------------------------------------------------
(* The cache                                                               *)

\* CacheFresh and FillsFresh, for one message.
Fresh(m) ==
    cache[m] # Missing => cache[m] = doc[m] \/ Dirty(m) \/ m \in astray \cup expired
FillFresh(m) ==
    \A w \in Workers : Filling(w, m) =>
        req[w].overtaken \/ req[w].copy = doc[m] \/ Dirty(m) \/ m \in expired

\* They say the same of all messages.
LEMMA FreshIs == CacheFresh /\ FillsFresh <=> \A m \in Messages : Fresh(m) /\ FillFresh(m)
  BY DEF CacheFresh, FillsFresh, Fresh, FillFresh, Dirty

\* A copy of m that is to be stored was to be stored before, or has been read now.
SameFills(m) ==
    \A w \in Workers : Filling(w, m)' =>
        \/ req'[w].copy = doc[m]
        \/ Filling(w, m) /\ req'[w].copy = req[w].copy /\ (req[w].overtaken => req'[w].overtaken)

\* A step keeps them for a message that it leaves alone, if whoever is to remove its
\* copies still is.
LEMMA CacheFrame ==
    ASSUME NEW m \in Messages, Fresh(m), FillFresh(m), SameFills(m), doc'[m] = doc[m],
           cache'[m] = Missing \/ (cache'[m] = cache[m] /\ (m \in astray => m \in astray')),
           Dirty(m) => Dirty(m)', m \in expired => m \in expired'
    PROVE  Fresh(m)' /\ FillFresh(m)'
  BY DEF Fresh, FillFresh, SameFills

\* It does for a message that is to be removed from the cache, or has expired.
LEMMA CacheDirty ==
    ASSUME NEW m \in Messages, Dirty(m)' \/ m \in expired'
    PROVE  Fresh(m)' /\ FillFresh(m)'
  BY DEF Fresh, FillFresh

\* It does for one that nobody has read.
LEMMA CacheUnread ==
    ASSUME NEW m \in Messages, Unread(m), NewReaders, cache'[m] = cache[m], ~There(m)
    PROVE  Fresh(m)' /\ FillFresh(m)'
  BY DEF Fresh, FillFresh, Unread, NewReaders, Filling

\* What a worker goes on with, if it is not a copy, leaves the copies alone.
LEMMA GoFills ==
    ASSUME Requests, NEW w \in Workers, NEW r, Go(w, r), NEW m \in Messages,
           r.op # "fill" \/ r.copy = doc[m] \/ m \notin r.todo
    PROVE  SameFills(m)
  BY DEF Go, Requests, SameFills, Filling

\* Nor does it forget what it has changed, if it still has it.
LEMMA GoDirty ==
    ASSUME Requests, NEW w \in Workers, NEW r, Go(w, r), NEW m \in Messages,
           m \in req[w].dirty => m \in r.dirty
    PROVE  Dirty(m) => Dirty(m)'
  BY DEF Go, Requests, Dirty

\* Ending leaves the copies alone, and forgets what the worker has changed.
LEMMA EndFills ==
    ASSUME Requests, NEW w \in Workers, End(w), NEW m \in Messages
    PROVE  SameFills(m) /\ (m \notin req[w].dirty => (Dirty(m) => Dirty(m)'))
  <1>1. SameFills(m)
    BY GoFills, IdleIsRequest DEF End
  <1>2. m \notin req[w].dirty => (Dirty(m) => Dirty(m)')
    BY GoDirty DEF End
  <1> QED
    BY <1>1, <1>2

\* Writing n makes its copies ones to be removed.
LEMMA WroteCache ==
    ASSUME Requests, NEW w \in Workers, NEW n, Wrote(w, n), NEW m \in Messages, req[w].op # "fill"
    PROVE  SameFills(m) /\ (Dirty(m) => Dirty(m)') /\ Dirty(n)'
  <1> DEFINE op == IF req[w].todo = {n} THEN "forget" ELSE req[w].op
             r == [req[w] EXCEPT !.op = op, !.todo = @ \ {n}, !.dirty = @ \cup {n}]
  <1>1. r.op # "fill" /\ r.dirty = req[w].dirty \cup {n}
    BY DEF Requests, Request
  <1>2. Go(w, r)
    BY DEF Wrote, WroteThen
  <1> HIDE DEF r
  <1>3. SameFills(m)
    BY <1>1, <1>2, GoFills
  <1>4. Dirty(m) => Dirty(m)'
    BY <1>1, <1>2, GoDirty
  <1>5. Dirty(n)'
    BY <1>1, <1>2 DEF Go, Dirty, Requests
  <1> QED
    BY <1>3, <1>4, <1>5

\* Requests that are overtaken keep what they have read and written.
LEMMA OvertakeFills ==
    ASSUME Requests, NEW w \in Workers, NEW S, NEW r \in Request, r.op # "fill",
           req' = [v \in Workers |-> IF v = w THEN r ELSE Overtake(S, req[v])],
           NEW m \in Messages
    PROVE  /\ SameFills(m)
           /\ (m \in req[w].dirty => m \in r.dirty) => (Dirty(m) => Dirty(m)')
           /\ m \in S => \A v \in Workers : Filling(v, m)' => req'[v].overtaken
  <1>1. \A v \in Workers \ {w} :
           /\ req'[v].op = req[v].op /\ req'[v].todo = req[v].todo
           /\ req'[v].dirty = req[v].dirty /\ req'[v].copy = req[v].copy
           /\ req[v].overtaken => req'[v].overtaken
           /\ req[v].op = "fill" /\ req[v].todo \subseteq S => req'[v].overtaken
    BY Overtaken DEF Requests
  <1>2. req'[w] = r
    OBVIOUS
  <1>3. \A v \in Workers : Filling(v, m) => req[v].todo = {m}
    BY DEF Filling, Requests, Shaped
  <1>4. SameFills(m)
    BY <1>1, <1>2 DEF SameFills, Filling
  <1>5. (m \in req[w].dirty => m \in r.dirty) => (Dirty(m) => Dirty(m)')
    BY <1>1, <1>2 DEF Dirty
  <1>6. m \in S => \A v \in Workers : Filling(v, m)' => req'[v].overtaken
    BY <1>1, <1>2, <1>3 DEF Filling
  <1> QED
    BY <1>4, <1>5, <1>6

\* Every step keeps CacheFresh and FillsFresh.
LEMMA CacheStep == CacheInv /\ Step => (CacheFresh /\ FillsFresh)'
  <1> SUFFICES ASSUME CacheInv, Step, NEW m \in Messages PROVE Fresh(m)' /\ FillFresh(m)'
    BY DEF CacheFresh, FillsFresh, Fresh, FillFresh, Dirty
  <1>1. Fresh(m) /\ FillFresh(m) /\ Tidy /\ Requests /\ NewReaders
    BY FreshIs, ReadersStep DEF CacheInv, Tidy
  <1>2. m \in DOMAIN doc /\ m \in DOMAIN cache
    BY <1>1 DEF Tidy, Values
  <1>3. There(m) \/ m \in expired \/ Unread(m)
    BY DEF CacheInv, Born
  <1>4. CASE Asked
    <2>1. PICK w \in Workers, r \in Request : Starts(r) /\ Begin(w, r)
      BY <1>4 DEF Asked
    <2>2. Go(w, r) /\ req[w].dirty = {} /\ r.op # "fill"
      BY <2>1, IdleIsRequest DEF Begin, Go, Starts
    <2>3. SameFills(m) /\ (Dirty(m) => Dirty(m)')
      BY <1>1, <2>2, GoFills, GoDirty
    <2>4. doc' = doc /\ cache' = cache /\ astray' = astray /\ expired' = expired
      BY <2>1 DEF Begin, history
    <2> QED
      BY <1>1, <2>3, <2>4, CacheFrame
  <1>5. CASE \/ \E u \in Users, n \in Messages, text \in Texts \cup {"empty"} : SendMessage(u, n, text)
             \/ \E w \in Workers, n \in Messages : ForwardTo(w, n)
    <2>1. PICK u \in Users, n \in Messages, text \in Texts \cup {"empty"} :
             Unused(n) /\ doc' = [doc EXCEPT ![n] = Sent(u, text)]
      BY <1>1, <1>5, SendIs
    <2>2. cache' = cache /\ astray' = astray /\ expired' = expired
      BY <1>5 DEF SendMessage, ForwardTo, history
    <2>3. CASE n = m
      BY <1>1, <1>3, <2>1, <2>2, <2>3, CacheUnread DEF Unused
    <2>4. CASE n # m
      <3>1. SameFills(m) /\ (Dirty(m) => Dirty(m)')
        <4>1. CASE UNCHANGED req
          BY <4>1 DEF SameFills, Filling, Dirty
        <4>2. ASSUME NEW w \in Workers, End(w), req[w].op = "forward"
              PROVE  SameFills(m) /\ (Dirty(m) => Dirty(m)')
          BY <1>1, <4>2, EndFills DEF Requests, Clean
        <4> QED
          BY <1>5, <4>1, <4>2 DEF SendMessage, ForwardTo
      <3> QED
        BY <1>1, <2>1, <2>2, <2>4, <3>1, CacheFrame DEF Tidy, Values
    <2> QED
      BY <2>3, <2>4
  <1>6. ASSUME NEW w \in Workers, Read(w)
        PROVE  Fresh(m)' /\ FillFresh(m)'
    <2>1. PICK n \in req[w].todo : IF There(n) THEN Go(w, Having("fill", None, n)) ELSE End(w)
      BY <1>6 DEF Read
    <2>2. n \in Messages /\ req[w].dirty = {}
      BY <1>1, <1>6 DEF Read, Requests, Request, Clean
    <2>3. /\ Having("fill", None, n).dirty = {} /\ Having("fill", None, n).todo = {n}
          /\ Having("fill", None, n).copy = doc[n]
      BY <1>1, <2>2, HavingIs, TidyTyped
    <2>4. SameFills(m) /\ (Dirty(m) => Dirty(m)')
      <3>1. CASE There(n)
        BY <1>1, <2>1, <2>2, <2>3, <3>1, GoFills, GoDirty
      <3>2. CASE ~There(n)
        BY <1>1, <2>1, <2>2, <3>2, EndFills
      <3> QED
        BY <3>1, <3>2
    <2>5. doc' = doc /\ cache' = cache /\ astray' = astray /\ expired' = expired
      BY <1>6 DEF Read, history
    <2> QED
      BY <1>1, <2>4, <2>5, CacheFrame
  <1>7. ASSUME NEW w \in Workers, Fill(w)
        PROVE  Fresh(m)' /\ FillFresh(m)'
    <2>1. PICK n \in Messages : req[w].todo = {n}
      BY <1>1, <1>7 DEF Fill, Requests, Shaped
    <2>2. /\ cache' = [cache EXCEPT ![n] = req[w].copy]
          /\ astray' = IF req[w].overtaken THEN astray \cup {n} ELSE astray \ {n}
          /\ doc' = doc /\ expired' = expired /\ End(w) /\ req[w].op = "fill"
      BY <1>7, <2>1 DEF Fill, history
    <2>3. SameFills(m) /\ (Dirty(m) => Dirty(m)')
      BY <1>1, <2>2, EndFills DEF Requests, Clean
    <2>4. CASE n # m
      BY <1>1, <1>2, <2>2, <2>3, <2>4, CacheFrame
    <2>5. CASE n = m
      <3>1. FillFresh(m)'
        BY <1>1, <2>2, <2>3 DEF FillFresh, SameFills
      <3>2. req[w].overtaken \/ req[w].copy = doc[m] \/ Dirty(m) \/ m \in expired
        BY <1>1, <2>1, <2>2, <2>5 DEF FillFresh, Filling
      <3>3. Fresh(m)'
        BY <1>2, <2>2, <2>3, <2>5, <3>2 DEF Fresh
      <3> QED
        BY <3>1, <3>3
    <2> QED
      BY <2>4, <2>5
  <1>8. ASSUME NEW w \in Workers, Save(w) \/ Mark(w) \/ Apply(w)
        PROVE  Fresh(m)' /\ FillFresh(m)'
    <2>1. cache' = cache /\ astray' = astray /\ expired' = expired /\ req[w].op # "fill"
      BY <1>8 DEF Save, Mark, Apply, history
    <2>2. CASE /\ End(w) /\ UNCHANGED doc /\ \A n \in req[w].todo : ~There(n)
               /\ req[w].op \in {"edit", "delete", "retract", "push", "unreact", "pin", "unpin"}
      <3>1. req[w].dirty \subseteq req[w].todo
        BY <1>1, <2>2 DEF Requests, Clean
      <3>2. CASE m \in req[w].dirty
        BY <1>1, <1>3, <2>1, <2>2, <3>1, <3>2, CacheUnread, CacheDirty
      <3>3. CASE m \notin req[w].dirty
        BY <1>1, <2>1, <2>2, <3>3, EndFills, CacheFrame
      <3> QED
        BY <3>2, <3>3
    <2>3. ASSUME NEW n \in req[w].todo, Wrote(w, n), \A k \in Messages \ {n} : doc'[k] = doc[k]
          PROVE  Fresh(m)' /\ FillFresh(m)'
      <3>1. SameFills(m) /\ (Dirty(m) => Dirty(m)') /\ Dirty(n)'
        BY <1>1, <2>1, <2>3, WroteCache
      <3>2. CASE n = m
        BY <3>1, <3>2, CacheDirty
      <3>3. CASE n # m
        BY <1>1, <2>1, <2>3, <3>1, <3>3, CacheFrame
      <3> QED
        BY <3>2, <3>3
    <2> QED
      BY <1>1, <1>8, <2>2, <2>3, WriteIs
  <1>9. ASSUME NEW w \in Workers, Pull(w)
        PROVE  Fresh(m)' /\ FillFresh(m)'
    <2>1. PICK n \in Messages :
             /\ Go(w, [req[w] EXCEPT !.op = "push", !.dirty = {n}])
             /\ doc' = IF There(n) THEN [doc EXCEPT ![n] = Applied("unreact", req[w].by, @)] ELSE doc
      BY <1>1, <1>9, PullIs
    <2> DEFINE r == [req[w] EXCEPT !.op = "push", !.dirty = {n}]
    <2>2. r.op = "push" /\ r.dirty = {n} /\ req[w].dirty = {}
      BY <1>1, <1>9 DEF Pull, Requests, Request, Clean
    <2> HIDE DEF r
    <2>3. Go(w, r)
      BY <2>1 DEF r
    <2>4. SameFills(m) /\ (Dirty(m) => Dirty(m)')
      BY <1>1, <2>2, <2>3, GoFills, GoDirty
    <2>5. Dirty(n)'
      BY <1>1, <2>2, <2>3 DEF Go, Dirty, Requests
    <2>6. cache' = cache /\ astray' = astray /\ expired' = expired
      BY <1>9 DEF Pull
    <2>7. CASE n = m
      BY <2>5, <2>7, CacheDirty
    <2>8. CASE n # m
      BY <1>1, <1>2, <2>1, <2>4, <2>6, <2>8, CacheFrame
    <2> QED
      BY <2>7, <2>8
  <1>10. ASSUME NEW w \in Workers, Forget(w)
         PROVE  Fresh(m)' /\ FillFresh(m)'
    <2>1. PICK n \in req[w].dirty :
             /\ cache' = [cache EXCEPT ![n] = Missing] /\ astray' = astray \ {n}
             /\ doc' = doc /\ expired' = expired
             /\ req' = [v \in Workers |->
                   IF v # w THEN Overtake({n}, req[v])
                   ELSE IF req[w].dirty = {n} THEN Idle ELSE [req[w] EXCEPT !.dirty = @ \ {n}]]
      BY <1>10 DEF Forget, history
    <2> DEFINE r == IF req[w].dirty = {n} THEN Idle ELSE [req[w] EXCEPT !.dirty = @ \ {n}]
    <2>2. r \in Request /\ r.op # "fill" /\ r.dirty = req[w].dirty \ {n}
      BY <1>1, <1>10, IdleIsRequest DEF Forget, Requests, Request
    <2> HIDE DEF r
    <2>3. req' = [v \in Workers |-> IF v = w THEN r ELSE Overtake({n}, req[v])]
      BY <2>1 DEF r
    <2>4. /\ SameFills(m)
          /\ n # m => (Dirty(m) => Dirty(m)')
          /\ n = m => \A v \in Workers : Filling(v, m)' => req'[v].overtaken
      BY <1>1, <2>2, <2>3, OvertakeFills
    <2>5. CASE n = m
      BY <1>2, <2>1, <2>4, <2>5 DEF Fresh, FillFresh
    <2>6. CASE n # m
      BY <1>1, <1>2, <2>1, <2>4, <2>6, CacheFrame
    <2> QED
      BY <2>5, <2>6
  <1>11. ASSUME NEW w \in Workers, RequestFails(w)
         PROVE  Fresh(m)' /\ FillFresh(m)'
    <2>1. /\ req' = [v \in Workers |-> IF v = w THEN Idle ELSE Overtake(req[w].dirty, req[v])]
          /\ astray' = astray \cup req[w].dirty
          /\ doc' = doc /\ cache' = cache /\ expired' = expired
      BY <1>11 DEF RequestFails, history
    <2>2. /\ SameFills(m)
          /\ m \notin req[w].dirty => (Dirty(m) => Dirty(m)')
          /\ m \in req[w].dirty => \A v \in Workers : Filling(v, m)' => req'[v].overtaken
      BY <1>1, <2>1, OvertakeFills, IdleIsRequest
    <2>3. CASE m \in req[w].dirty
      BY <2>1, <2>2, <2>3 DEF Fresh, FillFresh
    <2>4. CASE m \notin req[w].dirty
      BY <1>1, <2>1, <2>2, <2>4, CacheFrame
    <2> QED
      BY <2>3, <2>4
  <1>12. ASSUME NEW n \in Messages, CopyExpires(n)
         PROVE  Fresh(m)' /\ FillFresh(m)'
    <2>1. /\ cache' = [cache EXCEPT ![n] = Missing] /\ astray' = astray \ {n}
          /\ doc' = doc /\ expired' = expired /\ req' = req
      BY <1>12 DEF CopyExpires, history
    <2>2. SameFills(m) /\ (Dirty(m) => Dirty(m)')
      BY <2>1 DEF SameFills, Filling, Dirty
    <2> QED
      BY <1>1, <1>2, <2>1, <2>2, CacheFrame
  <1>13. ASSUME NEW n \in Messages, MessageExpires(n)
         PROVE  Fresh(m)' /\ FillFresh(m)'
    <2>1. /\ doc' = [doc EXCEPT ![n] = Missing] /\ expired' = expired \cup {n}
          /\ cache' = cache /\ req' = req /\ astray' = astray
      BY <1>13 DEF MessageExpires, history
    <2>2. CASE n = m
      BY <2>1, <2>2, CacheDirty
    <2>3. CASE n # m
      <3>1. SameFills(m) /\ (Dirty(m) => Dirty(m)')
        BY <2>1 DEF SameFills, Filling, Dirty
      <3> QED
        BY <1>1, <1>2, <2>1, <2>3, <3>1, CacheFrame
    <2> QED
      BY <2>2, <2>3
  <1>14. CASE Crash
    BY <1>14, IdleIsRequest DEF Crash, Fresh, FillFresh, Filling
  <1> QED
    BY <1>4, <1>5, <1>6, <1>7, <1>8, <1>9, <1>10, <1>11, <1>12, <1>13, <1>14 DEF Step

\* A copy in the cache is the message as it is, unless its removal is still to come or
\* was missed, or the message has expired.
THEOREM CopiesFresh == Spec => []CacheFresh
  <1>1. Init => CacheInv
    BY TidyInit, BornInit, IdleIsRequest DEF CacheInv, Init, CacheFresh, FillsFresh, Filling
  <1>2. CacheInv /\ [Next]_vars => CacheInv'
    <2>1. CacheInv /\ Step => CacheInv'
      BY TidyStep, BornStep, CacheStep DEF CacheInv
    <2>2. CacheInv /\ UNCHANGED vars => CacheInv'
      BY TidyStutter, BornStutter
         DEF CacheInv, vars, history, CacheFresh, FillsFresh, Filling, Dirty
    <2> QED
      BY <2>1, <2>2, Steps, TidyTyped DEF CacheInv
  <1>3. CacheInv => CacheFresh
    BY DEF CacheInv
  <1> QED
    BY <1>1, <1>2, <1>3, PTL DEF Spec

-----------------------------------------------------------------------------
(* Reactions                                                               *)

\* Who is between the operations of an addition now was so before, or a step of its
\* own has brought it there.
NewPushes ==
    \A w \in Workers, m \in Messages, u \in Users :
        Pushing(w, m, u)' => Pushing(w, m, u)

\* Only the first operation of an addition leads between the two.
LEMMA GoPushes ==
    ASSUME Requests, NEW w \in Workers, NEW r, Go(w, r), r.op # "push"
    PROVE  NewPushes
  BY DEF Go, Requests, NewPushes, Pushing

\* A worker that has written its only message is not between two operations.
LEMMA WrotePushes ==
    ASSUME Requests, NEW w \in Workers, NEW m, Wrote(w, m)
    PROVE  /\ NewPushes
           /\ req[w].todo = {m} => \A n \in Messages, u \in Users : ~Pushing(w, n, u)'
  <1> DEFINE op == IF req[w].todo = {m} THEN "forget" ELSE req[w].op
             r == [req[w] EXCEPT !.op = op, !.todo = @ \ {m}, !.dirty = @ \cup {m}]
  <1>1. r.op = op /\ r.todo \subseteq req[w].todo /\ r.by = req[w].by
    BY DEF Requests, Request
  <1>2. Go(w, r)
    BY DEF Wrote, WroteThen
  <1> HIDE DEF r
  <1> QED
    BY <1>1, <1>2 DEF Go, Requests, NewPushes, Pushing

\* Requests that are overtaken stay where they are.
LEMMA OvertakePushes ==
    ASSUME Requests, NEW w \in Workers, NEW S, NEW r, r.op # "push",
           req' = [v \in Workers |-> IF v = w THEN r ELSE Overtake(S, req[v])]
    PROVE  NewPushes
  <1>1. \A v \in Workers :
           /\ Overtake(S, req[v]).op = req[v].op /\ Overtake(S, req[v]).by = req[v].by
           /\ Overtake(S, req[v]).todo = req[v].todo
    BY Overtaken DEF Requests
  <1> QED
    BY <1>1 DEF NewPushes, Pushing

\* Every step but the first operation of an addition brings nobody between the two.
LEMMA PushesStep == Tidy /\ Step => NewPushes \/ \E w \in Workers : Pull(w)
  <1> SUFFICES ASSUME Tidy, Step, \A w \in Workers : ~Pull(w) PROVE NewPushes
    OBVIOUS
  <1>0. Requests
    BY DEF Tidy
  <1>1. CASE Asked
    BY <1>0, <1>1, GoPushes DEF Asked, Starts, Begin, Go
  <1>2. CASE UNCHANGED req
    BY <1>2 DEF NewPushes, Pushing
  <1>3. ASSUME NEW w \in Workers, End(w)
        PROVE  NewPushes
    BY <1>0, <1>3, GoPushes, IdleIsRequest DEF End
  <1>4. CASE \E w \in Workers, m \in Messages : ForwardTo(w, m)
    BY <1>2, <1>3, <1>4 DEF ForwardTo
  <1>5. ASSUME NEW w \in Workers, Read(w)
        PROVE  NewPushes
    <2>1. PICK m \in req[w].todo : IF There(m) THEN Go(w, Having("fill", None, m)) ELSE End(w)
      BY <1>5 DEF Read
    <2>2. m \in Messages
      BY <1>0 DEF Requests, Request
    <2>3. Having("fill", None, m).op = "fill"
      BY <2>2, HavingIs, TidyTyped
    <2> QED
      BY <1>0, <1>3, <2>1, <2>3, GoPushes
  <1>6. ASSUME NEW w \in Workers, Save(w) \/ Mark(w) \/ Apply(w)
        PROVE  NewPushes
    BY <1>0, <1>3, <1>6, WriteIs, WrotePushes
  <1>7. ASSUME NEW w \in Workers, Forget(w)
        PROVE  NewPushes
    <2>1. PICK n \in req[w].dirty :
             req' = [v \in Workers |->
                   IF v # w THEN Overtake({n}, req[v])
                   ELSE IF req[w].dirty = {n} THEN Idle ELSE [req[w] EXCEPT !.dirty = @ \ {n}]]
      BY <1>7 DEF Forget
    <2> DEFINE r == IF req[w].dirty = {n} THEN Idle ELSE [req[w] EXCEPT !.dirty = @ \ {n}]
    <2>2. r.op # "push"
      BY <1>0, <1>7, IdleIsRequest DEF Forget, Requests, Request
    <2> HIDE DEF r
    <2>3. req' = [v \in Workers |-> IF v = w THEN r ELSE Overtake({n}, req[v])]
      BY <2>1 DEF r
    <2> QED
      BY <1>0, <2>2, <2>3, OvertakePushes
  <1>8. ASSUME NEW w \in Workers, RequestFails(w)
        PROVE  NewPushes
    BY <1>0, <1>8, OvertakePushes, IdleIsRequest DEF RequestFails
  <1>9. CASE Crash
    BY <1>9, IdleIsRequest DEF Crash, NewPushes, Pushing
  <1> QED
    BY <1>1, <1>2, <1>3, <1>4, <1>5, <1>6, <1>7, <1>8, <1>9
       DEF Step, SendMessage, CopyExpires, MessageExpires, Fill

\* OneReactionEach and PushesAlone, for one message and user.
One(m, u) == doc[m].reactions[u] <= 1 \/ <<m, u>> \in crossed
Alone(m, u) ==
    <<m, u>> \notin crossed =>
        /\ \A v, w \in Workers : Pushing(v, m, u) /\ Pushing(w, m, u) => v = w
        /\ \A w \in Workers : Pushing(w, m, u) => doc[m].reactions[u] = 0

\* A step keeps them if it adds no reaction and no addition.
LEMMA ReactionFrame ==
    ASSUME NEW m \in Messages, NEW u \in Users, One(m, u), Alone(m, u),
           crossed' = crossed, NewPushes,
           doc'[m].reactions[u] = doc[m].reactions[u] \/ doc'[m].reactions[u] = 0
    PROVE  One(m, u)' /\ Alone(m, u)'
  BY DEF One, Alone, NewPushes

\* Every step keeps OneReactionEach and PushesAlone.
LEMMA ReactionStep == ReactionInv /\ Step => (OneReactionEach /\ PushesAlone)'
  <1> SUFFICES ASSUME ReactionInv, Step, NEW m \in Messages, NEW u \in Users
               PROVE  One(m, u)' /\ Alone(m, u)'
    BY DEF OneReactionEach, PushesAlone, One, Alone
  <1>1. /\ One(m, u) /\ Alone(m, u) /\ Tidy /\ Requests
        /\ doc \in [Messages -> Doc]
        /\ There(m) \/ doc[m] = Missing
    BY DEF ReactionInv, Tidy, Values, Born, OneReactionEach, PushesAlone, One, Alone
  <1>2. NewPushes \/ \E w \in Workers : Pull(w)
    BY <1>1, PushesStep
  <1>3. ASSUME crossed' = crossed, NewPushes,
               doc'[m].reactions[u] = doc[m].reactions[u] \/ doc'[m].reactions[u] = 0
        PROVE  One(m, u)' /\ Alone(m, u)'
    BY <1>1, <1>3, ReactionFrame
  <1>4. ASSUME NEW w \in Workers, Pull(w)
        PROVE  One(m, u)' /\ Alone(m, u)'
    <2>1. PICK n \in Messages :
             /\ req[w].todo = {n}
             /\ Go(w, [req[w] EXCEPT !.op = "push", !.dirty = {n}])
             /\ crossed' = IF Overlaps(w, n) THEN crossed \cup {<<n, req[w].by>>}
                           ELSE crossed \ {<<n, req[w].by>>}
             /\ doc' = IF There(n) THEN [doc EXCEPT ![n] = Applied("unreact", req[w].by, @)] ELSE doc
      BY <1>1, <1>4, PullIs
    <2>2. req[w].by \in Users
      BY <1>1, <1>4, PullIs
    <2>3. /\ \A v \in Workers \ {w} : req'[v] = req[v]
          /\ req'[w].by = req[w].by /\ req'[w].todo = {n}
      BY <1>1, <2>1 DEF Go, Requests, Request
    <2>4. \A v \in Users : Applied("unreact", req[w].by, doc[n]).reactions[v]
                            = IF v = req[w].by THEN 0 ELSE doc[n].reactions[v]
      <3>1. doc[n] \in Doc
        BY <1>1
      <3> QED
        BY <2>2, <3>1, AppliedIsDoc
    <2>5. CASE n = m /\ req[w].by = u
      <3>1. CASE Overlaps(w, n)
        BY <2>1, <2>5, <3>1 DEF One, Alone
      <3>2. CASE ~Overlaps(w, n)
        <4>1. doc'[m].reactions[u] = 0
          BY <1>1, <2>1, <2>4, <2>5, MissingIsDoc
        <4>2. \A v \in Workers \ {w} : ~Pushing(v, m, u)'
          BY <2>3, <2>5, <3>2 DEF Overlaps, Pushing
        <4> QED
          BY <4>1, <4>2 DEF One, Alone
      <3> QED
        BY <3>1, <3>2
    <2>6. CASE ~(n = m /\ req[w].by = u)
      <3>1. doc'[m].reactions[u] = doc[m].reactions[u]
        BY <1>1, <2>1, <2>4, <2>6
      <3>2. <<m, u>> \in crossed' <=> <<m, u>> \in crossed
        BY <2>1, <2>6
      <3>3. \A v \in Workers : Pushing(v, m, u)' => Pushing(v, m, u)
        BY <2>3, <2>6 DEF Pushing
      <3> QED
        BY <1>1, <3>1, <3>2, <3>3 DEF One, Alone
    <2> QED
      BY <2>5, <2>6
  <1>5. ASSUME NEW w \in Workers, Apply(w)
        PROVE  One(m, u)' /\ Alone(m, u)'
    <2>1. req[w].op \in {"push", "unreact", "pin", "unpin"} /\ Shaped(req[w]) /\ crossed' = crossed
      BY <1>1, <1>5 DEF Apply, Requests, history
    <2>2. PICK n \in Messages : req[w].todo = {n}
      BY <2>1 DEF Shaped
    <2>3. CASE There(n)
      <3>1. doc' = [doc EXCEPT ![n] = Applied(req[w].op, req[w].by, @)] /\ Wrote(w, n)
        BY <1>5, <2>2, <2>3 DEF Apply
      <3>2. /\ req[w].by \in Users \cup {None} /\ doc[n] \in Doc
            /\ req[w].op \in {"push", "unreact"} => req[w].by \in Users
        BY <1>1, <2>1 DEF Requests, Request, Shaped
      <3>3. \A v \in Users : Applied(req[w].op, req[w].by, doc[n]).reactions[v] =
                IF req[w].op = "push" /\ v = req[w].by THEN doc[n].reactions[v] + 1
                ELSE IF req[w].op = "unreact" /\ v = req[w].by THEN 0
                ELSE doc[n].reactions[v]
        BY <2>1, <3>2, AppliedIsDoc
      <3>4. NewPushes /\ ~Pushing(w, m, u)'
        BY <1>1, <2>2, <3>1, WrotePushes
      <3>5. CASE Pushing(w, m, u) /\ <<m, u>> \notin crossed
        <4>1. n = m /\ req[w].op = "push" /\ req[w].by = u
          BY <2>2, <3>5 DEF Pushing
        <4>2. doc[m].reactions[u] = 0
          BY <1>1, <3>5 DEF Alone
        <4>3. doc'[m].reactions[u] = 1
          BY <1>1, <3>1, <3>3, <4>1, <4>2
        <4>4. \A v \in Workers : ~Pushing(v, m, u)'
          BY <1>1, <3>4, <3>5 DEF Alone, NewPushes
        <4> QED
          BY <4>3, <4>4 DEF One, Alone
      <3>6. CASE <<m, u>> \in crossed
        BY <2>1, <3>6 DEF One, Alone
      <3>7. CASE ~Pushing(w, m, u)
        <4>1. n # m \/ req[w].op # "push" \/ req[w].by # u
          BY <2>2, <3>7 DEF Pushing
        <4>2. doc'[m].reactions[u] = doc[m].reactions[u] \/ doc'[m].reactions[u] = 0
          BY <1>1, <3>1, <3>3, <4>1
        <4> QED
          BY <1>3, <2>1, <3>4, <4>2
      <3> QED
        BY <3>5, <3>6, <3>7
    <2>4. CASE ~There(n)
      <3>1. End(w) /\ doc' = doc
        BY <1>5, <2>2, <2>4 DEF Apply
      <3>2. NewPushes
        BY <1>1, <3>1, GoPushes, IdleIsRequest DEF End
      <3> QED
        BY <1>3, <2>1, <3>1, <3>2
    <2> QED
      BY <2>3, <2>4
  <1>6. ASSUME NEW w \in Workers, Save(w), NewPushes
        PROVE  One(m, u)' /\ Alone(m, u)'
    <2>1. PICK n \in Messages : req[w].todo = {n}
      BY <1>1, <1>6 DEF Save, Requests, Shaped
    <2>2. Saved(req[w], doc[n]).reactions = doc[n].reactions
      BY <1>1, SavedIsDoc DEF Requests
    <2>3. doc'[m].reactions = doc[m].reactions
      BY <1>1, <1>6, <2>1, <2>2 DEF Save
    <2>4. crossed' = crossed
      BY <1>6 DEF Save
    <2> QED
      BY <1>3, <1>6, <2>3, <2>4
  <1>7. ASSUME NEW w \in Workers, Mark(w), NewPushes
        PROVE  One(m, u)' /\ Alone(m, u)'
    <2>1. PICK n \in req[w].todo :
             doc' = IF There(n) THEN [doc EXCEPT ![n] = Marked(req[w].op, req[w].by, @)] ELSE doc
      BY <1>7 DEF Mark
    <2>2. /\ n \in Messages /\ req[w].by \in Users \cup {None} /\ doc[n] \in Doc
          /\ req[w].op \in {"read", "delivered"} /\ (req[w].op = "read" => req[w].by \in Users)
      BY <1>1, <1>7 DEF Mark, Requests, Request, Shaped
    <2>3. Marked(req[w].op, req[w].by, doc[n]).reactions = doc[n].reactions
      BY <2>2, MarkedIsDoc
    <2>4. doc'[m].reactions = doc[m].reactions /\ crossed' = crossed
      BY <1>1, <1>7, <2>1, <2>2, <2>3 DEF Mark, history
    <2> QED
      BY <1>3, <1>7, <2>4
  <1>8. ASSUME NewPushes,
               \/ \E v \in Users, n \in Messages, text \in Texts \cup {"empty"} : SendMessage(v, n, text)
               \/ \E w \in Workers, n \in Messages : ForwardTo(w, n)
        PROVE  One(m, u)' /\ Alone(m, u)'
    <2>1. PICK v \in Users, n \in Messages, text \in Texts \cup {"empty"} :
             Unused(n) /\ doc' = [doc EXCEPT ![n] = Sent(v, text)]
      BY <1>1, <1>8, SendIs
    <2>2. crossed' = crossed
      BY <1>8 DEF SendMessage, ForwardTo, history
    <2>3. doc'[m].reactions[u] = doc[m].reactions[u] \/ doc'[m].reactions[u] = 0
      BY <1>1, <2>1, SentIsDoc
    <2> QED
      BY <1>3, <1>8, <2>2, <2>3
  <1>9. ASSUME NEW n \in Messages, MessageExpires(n), NewPushes
        PROVE  One(m, u)' /\ Alone(m, u)'
    <2>1. doc'[m].reactions[u] = doc[m].reactions[u] \/ doc'[m].reactions[u] = 0
      BY <1>1, <1>9, MissingIsDoc DEF MessageExpires
    <2> QED
      BY <1>3, <1>9, <2>1 DEF MessageExpires, history
  <1>10. ASSUME NewPushes,
                \/ Asked \/ Crash \/ \E n \in Messages : CopyExpires(n)
                \/ \E w \in Workers : Read(w) \/ Fill(w) \/ Forget(w) \/ RequestFails(w)
         PROVE  One(m, u)' /\ Alone(m, u)'
    <2>1. doc' = doc /\ crossed' = crossed
      BY <1>10 DEF Asked, Begin, Crash, CopyExpires, Read, Fill, Forget, RequestFails, history
    <2> QED
      BY <1>3, <1>10, <2>1
  <1> QED
    BY <1>2, <1>4, <1>5, <1>6, <1>7, <1>8, <1>9, <1>10 DEF Step

\* A user has two reactions to a message only after two additions overlapped.
THEOREM ReactionsAreSingle == Spec => []OneReactionEach
  <1>1. Init => ReactionInv
    BY TidyInit, BornInit, IdleIsRequest, MissingIsDoc
       DEF ReactionInv, Init, OneReactionEach, PushesAlone, Pushing
  <1>2. ReactionInv /\ [Next]_vars => ReactionInv'
    <2>1. ReactionInv /\ Step => ReactionInv'
      BY TidyStep, BornStep, ReactionStep DEF ReactionInv
    <2>2. ReactionInv /\ UNCHANGED vars => ReactionInv'
      BY TidyStutter, BornStutter
         DEF ReactionInv, vars, history, OneReactionEach, PushesAlone, Pushing
    <2> QED
      BY <2>1, <2>2, Steps, TidyTyped DEF ReactionInv
  <1>3. ReactionInv => OneReactionEach
    BY DEF ReactionInv
  <1> QED
    BY <1>1, <1>2, <1>3, PTL DEF Spec

-----------------------------------------------------------------------------
(* Deletion for everyone                                                   *)

\* Who is about to delete m for everyone was so before, with what it has read.
Retracting(w, m) == req[w].op = "retract" /\ m \in req[w].todo
KeepRetracts ==
    \A w \in Workers, m \in Messages :
        Retracting(w, m)' => Retracting(w, m) /\ req'[w].copy = req[w].copy

\* A worker that goes on with another request deletes nothing.
LEMMA GoRetracts ==
    ASSUME Requests, NEW w \in Workers, NEW r, Go(w, r), r.op # "retract"
    PROVE  KeepRetracts
  BY DEF Go, Requests, KeepRetracts, Retracting

\* One that has written may go on deleting, with what it has read.
LEMMA WroteRetracts ==
    ASSUME Requests, NEW w \in Workers, NEW m, Wrote(w, m)
    PROVE  KeepRetracts
  <1> DEFINE op == IF req[w].todo = {m} THEN "forget" ELSE req[w].op
             r == [req[w] EXCEPT !.op = op, !.todo = @ \ {m}, !.dirty = @ \cup {m}]
  <1>1. r.op = op /\ r.todo \subseteq req[w].todo /\ r.copy = req[w].copy
    BY DEF Requests, Request
  <1>2. Go(w, r)
    BY DEF Wrote, WroteThen
  <1> HIDE DEF r
  <1> QED
    BY <1>1, <1>2 DEF Go, Requests, KeepRetracts, Retracting

\* Requests that are overtaken keep what they have read.
LEMMA OvertakeRetracts ==
    ASSUME Requests, NEW w \in Workers, NEW S, NEW r, r.op # "retract",
           req' = [v \in Workers |-> IF v = w THEN r ELSE Overtake(S, req[v])]
    PROVE  KeepRetracts
  <1>1. \A v \in Workers :
           /\ Overtake(S, req[v]).op = req[v].op /\ Overtake(S, req[v]).copy = req[v].copy
           /\ Overtake(S, req[v]).todo = req[v].todo
    BY Overtaken DEF Requests
  <1> QED
    BY <1>1 DEF KeepRetracts, Retracting

\* Every step but a request keeps what deletions have read.
LEMMA RetractsStep == Tidy /\ Step => KeepRetracts \/ Asked
  <1> SUFFICES ASSUME Tidy, Step, ~Asked PROVE KeepRetracts
    OBVIOUS
  <1>0. Requests
    BY DEF Tidy
  <1>1. ASSUME NEW w \in Workers, End(w)
        PROVE  KeepRetracts
    BY <1>0, <1>1, GoRetracts, IdleIsRequest DEF End
  <1>2. CASE UNCHANGED req
    BY <1>2 DEF KeepRetracts, Retracting
  <1>3. CASE \E w \in Workers, m \in Messages : ForwardTo(w, m)
    BY <1>1, <1>2, <1>3 DEF ForwardTo
  <1>4. ASSUME NEW w \in Workers, Read(w)
        PROVE  KeepRetracts
    <2>1. PICK m \in req[w].todo : IF There(m) THEN Go(w, Having("fill", None, m)) ELSE End(w)
      BY <1>4 DEF Read
    <2>2. m \in Messages
      BY <1>0 DEF Requests, Request
    <2>3. Having("fill", None, m).op = "fill"
      BY <2>2, HavingIs, TidyTyped
    <2> QED
      BY <1>0, <1>1, <2>1, <2>3, GoRetracts
  <1>5. ASSUME NEW w \in Workers, Save(w) \/ Mark(w) \/ Apply(w)
        PROVE  KeepRetracts
    BY <1>0, <1>1, <1>5, WriteIs, WroteRetracts
  <1>6. ASSUME NEW w \in Workers, Pull(w)
        PROVE  KeepRetracts
    <2>1. PICK m \in Messages : Go(w, [req[w] EXCEPT !.op = "push", !.dirty = {m}])
      BY <1>6, PullIs
    <2>2. [req[w] EXCEPT !.op = "push", !.dirty = {m}].op = "push"
      BY <1>0 DEF Requests, Request
    <2> QED
      BY <1>0, <2>1, <2>2, GoRetracts
  <1>7. ASSUME NEW w \in Workers, Forget(w)
        PROVE  KeepRetracts
    <2>1. PICK n \in req[w].dirty :
             req' = [v \in Workers |->
                   IF v # w THEN Overtake({n}, req[v])
                   ELSE IF req[w].dirty = {n} THEN Idle ELSE [req[w] EXCEPT !.dirty = @ \ {n}]]
      BY <1>7 DEF Forget
    <2> DEFINE r == IF req[w].dirty = {n} THEN Idle ELSE [req[w] EXCEPT !.dirty = @ \ {n}]
    <2>2. r.op # "retract"
      BY <1>0, <1>7, IdleIsRequest DEF Forget, Requests, Request
    <2> HIDE DEF r
    <2>3. req' = [v \in Workers |-> IF v = w THEN r ELSE Overtake({n}, req[v])]
      BY <2>1 DEF r
    <2> QED
      BY <1>0, <2>2, <2>3, OvertakeRetracts
  <1>8. ASSUME NEW w \in Workers, RequestFails(w)
        PROVE  KeepRetracts
    BY <1>0, <1>8, OvertakeRetracts, IdleIsRequest DEF RequestFails
  <1>9. CASE Crash
    BY <1>9, IdleIsRequest DEF Crash, KeepRetracts, Retracting
  <1> QED
    BY <1>1, <1>2, <1>3, <1>4, <1>5, <1>6, <1>7, <1>8, <1>9
       DEF Step, SendMessage, CopyExpires, MessageExpires, Fill

\* RetractedIsEmpty and RetractsEmpty, for one message.
Emptied(m) == doc[m].text = "empty" \/ m \in reworded
Retracted(m) ==
    /\ m \in retracted => Emptied(m)
    /\ \A w \in Workers : Retracting(w, m) /\ req[w].copy.text = "empty" => Emptied(m)

\* A step keeps them if it leaves the text of the message alone, or empties it.
LEMMA RetractFrame ==
    ASSUME NEW m \in Messages, Retracted(m), KeepRetracts,
           m \in retracted' => m \in retracted, m \in reworded => m \in reworded',
           doc'[m].text = doc[m].text \/ doc'[m].text = "empty"
    PROVE  Retracted(m)'
  BY DEF Retracted, Emptied, KeepRetracts

\* Every step keeps RetractedIsEmpty and RetractsEmpty.
LEMMA RetractStep == RetractInv /\ Step => (RetractedIsEmpty /\ RetractsEmpty)'
  <1>0. Tidy' /\ (\A m \in Messages : Retracted(m)') => (RetractedIsEmpty /\ RetractsEmpty)'
    BY DEF RetractedIsEmpty, RetractsEmpty, Retracted, Emptied, Retracting, Tidy, Values
  <1> SUFFICES ASSUME RetractInv, Step, NEW m \in Messages
               PROVE  Retracted(m)'
    BY <1>0, TidyStep DEF RetractInv
  <1>1. /\ Tidy /\ Requests /\ NewReaders
        /\ doc \in [Messages -> Doc]
        /\ There(m) \/ m \in expired \/ Unread(m)
    BY ReadersStep DEF RetractInv, Tidy, Values, Born
  <1>2. Retracted(m)
    BY <1>1 DEF RetractInv, RetractedIsEmpty, RetractsEmpty, Retracted, Emptied, Retracting
  <1>3. ASSUME KeepRetracts, retracted' = retracted, reworded' = reworded,
               doc'[m].text = doc[m].text \/ doc'[m].text = "empty"
        PROVE  Retracted(m)'
    BY <1>2, <1>3, RetractFrame
  <1>4. CASE Asked
    <2>1. PICK w \in Workers, r \in Request : Starts(r) /\ Begin(w, r)
      BY <1>4 DEF Asked
    <2>2. /\ doc' = doc /\ retracted' = retracted /\ reworded' = reworded
          /\ req' = [req EXCEPT ![w] = r]
      BY <2>1 DEF Begin, history
    <2>3. r.op = "retract" /\ m \in r.todo => r.copy = doc[m]
      BY <2>1 DEF Starts
    <2> QED
      BY <1>1, <1>2, <2>2, <2>3 DEF Retracted, Emptied, Retracting, Requests
  <1>5. ASSUME NEW w \in Workers, Save(w), KeepRetracts
        PROVE  Retracted(m)'
    <2> DEFINE r == req[w]
    <2>1. PICK n \in Messages : r.todo = {n}
      BY <1>1, <1>5 DEF Save, Requests, Shaped
    <2>2. CASE ~There(n)
      BY <1>3, <1>5, <2>1, <2>2 DEF Save
    <2>3. CASE There(n)
      <3>1. /\ doc' = [doc EXCEPT ![n] = Saved(r, @)]
            /\ retracted' = IF r.op = "retract" THEN retracted \cup {n} ELSE retracted
            /\ reworded' =
                 IF r.op = "edit" /\ (n \in retracted \/ \E v \in Workers :
                                         req[v].op = "retract" /\ n \in req[v].todo)
                   THEN reworded \cup {n}
                 ELSE IF r.op = "retract" /\ r.copy.text # "empty" THEN reworded \ {n}
                 ELSE reworded
            /\ r.op \in {"edit", "delete", "retract"}
        BY <1>5, <2>1, <2>3 DEF Save
      <3>2. /\ r.op = "delete" => Saved(r, doc[n]).text = doc[n].text
            /\ r.op = "retract" =>
                 Saved(r, doc[n]).text = IF r.copy.text = "empty" THEN doc[n].text ELSE "empty"
        BY <1>1, SavedIsDoc DEF Requests
      <3>3. CASE n # m
        <4>1. /\ m \in retracted' => m \in retracted
              /\ m \in reworded => m \in reworded'
              /\ doc'[m] = doc[m]
          BY <1>1, <3>1, <3>3
        <4> QED
          BY <1>2, <1>5, <4>1, RetractFrame
      <3>4. CASE n = m /\ r.op = "edit"
        BY <1>5, <3>1, <3>4 DEF Retracted, Emptied, Retracting, KeepRetracts
      <3>5. CASE n = m /\ r.op = "delete"
        BY <1>1, <1>3, <1>5, <3>1, <3>2, <3>5
      <3>6. CASE n = m /\ r.op = "retract"
        <4>1. Emptied(m)'
          <5>1. CASE r.copy.text = "empty"
            <6>1. Emptied(m)
              BY <1>2, <2>1, <3>6, <5>1 DEF Retracted, Retracting
            <6>2. doc'[m].text = doc[m].text /\ reworded' = reworded
              BY <1>1, <3>1, <3>2, <3>6, <5>1
            <6> QED
              BY <6>1, <6>2 DEF Emptied
          <5>2. CASE r.copy.text # "empty"
            BY <1>1, <3>1, <3>2, <3>6, <5>2 DEF Emptied
          <5> QED
            BY <5>1, <5>2
        <4> QED
          BY <4>1 DEF Retracted
      <3> QED
        BY <3>1, <3>3, <3>4, <3>5, <3>6
    <2> QED
      BY <2>2, <2>3
  <1>6. ASSUME KeepRetracts,
               \/ \E u \in Users, n \in Messages, text \in Texts \cup {"empty"} : SendMessage(u, n, text)
               \/ \E w \in Workers, n \in Messages : ForwardTo(w, n)
        PROVE  Retracted(m)'
    <2>1. PICK u \in Users, n \in Messages, text \in Texts \cup {"empty"} :
             Unused(n) /\ doc' = [doc EXCEPT ![n] = Sent(u, text)]
      BY <1>1, <1>6, SendIs
    <2>2. retracted' = retracted /\ reworded' = reworded
      BY <1>6 DEF SendMessage, ForwardTo, history
    <2>3. CASE n # m
      BY <1>1, <1>3, <1>6, <2>1, <2>2, <2>3
    <2>4. CASE n = m
      <3>1. Unread(m)
        BY <1>1, <2>1, <2>4 DEF Unused
      <3> QED
        BY <1>6, <2>2, <3>1 DEF Retracted, Retracting, Unread, KeepRetracts
    <2> QED
      BY <2>3, <2>4
  <1>7. ASSUME NEW w \in Workers, Mark(w), KeepRetracts
        PROVE  Retracted(m)'
    <2>1. PICK n \in req[w].todo :
             doc' = IF There(n) THEN [doc EXCEPT ![n] = Marked(req[w].op, req[w].by, @)] ELSE doc
      BY <1>7 DEF Mark
    <2>2. /\ n \in Messages /\ req[w].by \in Users \cup {None} /\ doc[n] \in Doc
          /\ req[w].op \in {"read", "delivered"} /\ (req[w].op = "read" => req[w].by \in Users)
      BY <1>1, <1>7 DEF Mark, Requests, Request, Shaped
    <2>3. Marked(req[w].op, req[w].by, doc[n]).text = doc[n].text
      BY <2>2, MarkedIsDoc
    <2>4. doc'[m].text = doc[m].text /\ retracted' = retracted /\ reworded' = reworded
      BY <1>1, <1>7, <2>1, <2>2, <2>3 DEF Mark, history
    <2> QED
      BY <1>3, <1>7, <2>4
  <1>8. ASSUME NEW w \in Workers, Apply(w), KeepRetracts
        PROVE  Retracted(m)'
    <2>1. /\ req[w].op \in {"push", "unreact", "pin", "unpin"} /\ Shaped(req[w])
          /\ retracted' = retracted /\ reworded' = reworded
      BY <1>1, <1>8 DEF Apply, Requests, history
    <2>2. PICK n \in Messages : req[w].todo = {n}
      BY <2>1 DEF Shaped
    <2>3. /\ req[w].by \in Users \cup {None} /\ doc[n] \in Doc
          /\ req[w].op \in {"push", "unreact"} => req[w].by \in Users
      BY <1>1, <2>1 DEF Requests, Request, Shaped
    <2>4. Applied(req[w].op, req[w].by, doc[n]).text = doc[n].text
      BY <2>1, <2>3, AppliedIsDoc
    <2>5. doc'[m].text = doc[m].text
      BY <1>1, <1>8, <2>2, <2>4 DEF Apply
    <2> QED
      BY <1>3, <1>8, <2>1, <2>5
  <1>9. ASSUME NEW w \in Workers, Pull(w), KeepRetracts
        PROVE  Retracted(m)'
    <2>1. PICK n \in Messages :
             doc' = IF There(n) THEN [doc EXCEPT ![n] = Applied("unreact", req[w].by, @)] ELSE doc
      BY <1>1, <1>9, PullIs
    <2>2. req[w].by \in Users /\ doc[n] \in Doc
      BY <1>1, <1>9, PullIs
    <2>3. Applied("unreact", req[w].by, doc[n]).text = doc[n].text
      BY <2>2, AppliedIsDoc
    <2>4. doc'[m].text = doc[m].text /\ retracted' = retracted /\ reworded' = reworded
      BY <1>1, <1>9, <2>1, <2>3 DEF Pull
    <2> QED
      BY <1>3, <1>9, <2>4
  <1>10. ASSUME NEW n \in Messages, MessageExpires(n), KeepRetracts
         PROVE  Retracted(m)'
    <2>1. doc'[m].text = doc[m].text \/ doc'[m].text = "empty"
      BY <1>1, <1>10, MissingIsDoc DEF MessageExpires
    <2> QED
      BY <1>3, <1>10, <2>1 DEF MessageExpires, history
  <1>11. ASSUME KeepRetracts,
                \/ Crash \/ \E n \in Messages : CopyExpires(n)
                \/ \E w \in Workers : Read(w) \/ Fill(w) \/ Forget(w) \/ RequestFails(w)
         PROVE  Retracted(m)'
    <2>1. doc' = doc /\ retracted' = retracted /\ reworded' = reworded
      BY <1>11 DEF Crash, CopyExpires, Read, Fill, Forget, RequestFails, history
    <2> QED
      BY <1>3, <1>11, <2>1
  <1>12. KeepRetracts \/ Asked
    BY <1>1, RetractsStep
  <1> QED
    BY <1>4, <1>5, <1>6, <1>7, <1>8, <1>9, <1>10, <1>11, <1>12 DEF Step

\* A message that was deleted for everyone has no text, unless an edit was saved after
\* the deletion had read the message.
THEOREM RetractedAreEmpty == Spec => []RetractedIsEmpty
  <1>1. Init => RetractInv
    BY TidyInit, BornInit, IdleIsRequest DEF RetractInv, Init, RetractedIsEmpty, RetractsEmpty
  <1>2. RetractInv /\ [Next]_vars => RetractInv'
    <2>1. RetractInv /\ Step => RetractInv'
      BY TidyStep, BornStep, RetractStep DEF RetractInv
    <2>2. RetractInv /\ UNCHANGED vars => RetractInv'
      BY TidyStutter, BornStutter
         DEF RetractInv, vars, history, RetractedIsEmpty, RetractsEmpty
    <2> QED
      BY <2>1, <2>2, Steps, TidyTyped DEF RetractInv
  <1>3. RetractInv => RetractedIsEmpty
    BY DEF RetractInv
  <1> QED
    BY <1>1, <1>2, <1>3, PTL DEF Spec

-----------------------------------------------------------------------------
(* What becomes of one message                                             *)

Savings == {"edit", "delete", "retract"}
Marks == {"read", "delivered"}
Touches == {"push", "unreact", "pin", "unpin"}

\* What a step may make of the document of m: nothing, a new message, one that has
\* expired, or the work of one save, mark or operation.
NewDoc(m) == ~There(m) /\ \E u \in Users, text \in Texts \cup {"empty"} : doc'[m] = Sent(u, text)
SavedDoc(m) == \E r \in Request : r.op \in Savings /\ doc'[m] = Saved(r, doc[m])
MarkedDoc(m) == \E op \in Marks, u \in Users \cup {None} :
    (op = "read" => u \in Users) /\ doc'[m] = Marked(op, u, doc[m])
TouchedDoc(m) == \E op \in Touches, u \in Users \cup {None} :
    (op \in {"push", "unreact"} => u \in Users) /\ doc'[m] = Applied(op, u, doc[m])
Becomes(m) ==
    \/ doc'[m] = doc[m] \/ NewDoc(m)
    \/ There(m) /\ (doc'[m] = Missing \/ SavedDoc(m) \/ MarkedDoc(m) \/ TouchedDoc(m))

\* Every step does one of these to each message.
LEMMA StepBecomes ==
    ASSUME Tidy, Step, NEW m \in Messages
    PROVE  Becomes(m)
  <1>0. /\ doc \in [Messages -> Doc] /\ req \in [Workers -> Request]
        /\ \A w \in Workers : Shaped(req[w])
    BY DEF Tidy, Values, Requests
  <1>1. CASE \/ \E u \in Users, n \in Messages, text \in Texts \cup {"empty"} : SendMessage(u, n, text)
             \/ \E w \in Workers, n \in Messages : ForwardTo(w, n)
    <2>1. PICK u \in Users, n \in Messages, text \in Texts \cup {"empty"} :
             Unused(n) /\ doc' = [doc EXCEPT ![n] = Sent(u, text)]
      BY <1>1, SendIs
    <2>2. CASE n = m
      BY <1>0, <2>1, <2>2 DEF Becomes, NewDoc, Unused
    <2>3. CASE n # m
      BY <1>0, <2>1, <2>3 DEF Becomes
    <2> QED
      BY <2>2, <2>3
  <1>2. ASSUME NEW w \in Workers, Save(w) PROVE Becomes(m)
    <2>1. PICK n \in req[w].todo :
             IF There(n) THEN doc' = [doc EXCEPT ![n] = Saved(req[w], @)] ELSE UNCHANGED doc
      BY <1>2 DEF Save
    <2>2. CASE There(n) /\ n = m
      <3>1. doc'[m] = Saved(req[w], doc[m]) /\ req[w] \in Request /\ req[w].op \in Savings
        BY <1>0, <1>2, <2>1, <2>2 DEF Save, Savings
      <3> QED
        BY <2>2, <3>1 DEF Becomes, SavedDoc
    <2>3. CASE ~(There(n) /\ n = m)
      BY <1>0, <2>1, <2>3 DEF Becomes
    <2> QED
      BY <2>2, <2>3
  <1>3. ASSUME NEW w \in Workers, Mark(w) PROVE Becomes(m)
    <2>1. PICK n \in req[w].todo :
             doc' = IF There(n) THEN [doc EXCEPT ![n] = Marked(req[w].op, req[w].by, @)] ELSE doc
      BY <1>3 DEF Mark
    <2>2. CASE There(n) /\ n = m
      <3>1. doc'[m] = Marked(req[w].op, req[w].by, doc[m])
        BY <1>0, <2>1, <2>2
      <3>2. /\ req[w].op \in Marks /\ req[w].by \in Users \cup {None}
            /\ req[w].op = "read" => req[w].by \in Users
        BY <1>0, <1>3 DEF Mark, Marks, Request, Shaped
      <3> QED
        BY <2>2, <3>1, <3>2 DEF Becomes, MarkedDoc
    <2>3. CASE ~(There(n) /\ n = m)
      BY <1>0, <2>1, <2>3 DEF Becomes
    <2> QED
      BY <2>2, <2>3
  <1>4. ASSUME NEW w \in Workers, Apply(w) PROVE Becomes(m)
    <2>1. PICK n \in req[w].todo :
             IF There(n) THEN doc' = [doc EXCEPT ![n] = Applied(req[w].op, req[w].by, @)]
             ELSE UNCHANGED doc
      BY <1>4 DEF Apply
    <2>2. CASE There(n) /\ n = m
      <3>1. doc'[m] = Applied(req[w].op, req[w].by, doc[m])
        BY <1>0, <2>1, <2>2
      <3>2. /\ req[w].op \in Touches /\ req[w].by \in Users \cup {None}
            /\ req[w].op \in {"push", "unreact"} => req[w].by \in Users
        BY <1>0, <1>4 DEF Apply, Touches, Request, Shaped
      <3> QED
        BY <2>2, <3>1, <3>2 DEF Becomes, TouchedDoc
    <2>3. CASE ~(There(n) /\ n = m)
      BY <1>0, <2>1, <2>3 DEF Becomes
    <2> QED
      BY <2>2, <2>3
  <1>5. ASSUME NEW w \in Workers, Pull(w) PROVE Becomes(m)
    <2>1. PICK n \in Messages :
             doc' = IF There(n) THEN [doc EXCEPT ![n] = Applied("unreact", req[w].by, @)] ELSE doc
      BY <1>5, PullIs
    <2>2. CASE There(n) /\ n = m
      <3>1. doc'[m] = Applied("unreact", req[w].by, doc[m]) /\ req[w].by \in Users
        BY <1>0, <1>5, <2>1, <2>2, PullIs
      <3> QED
        BY <2>2, <3>1 DEF Becomes, TouchedDoc, Touches
    <2>3. CASE ~(There(n) /\ n = m)
      BY <1>0, <2>1, <2>3 DEF Becomes
    <2> QED
      BY <2>2, <2>3
  <1>6. ASSUME NEW n \in Messages, MessageExpires(n) PROVE Becomes(m)
    BY <1>0, <1>6 DEF MessageExpires, Becomes
  <1>7. CASE \/ Asked \/ Crash \/ \E n \in Messages : CopyExpires(n)
             \/ \E w \in Workers : Read(w) \/ Fill(w) \/ Forget(w) \/ RequestFails(w)
    BY <1>7 DEF Asked, Begin, Crash, CopyExpires, Read, Fill, Forget, RequestFails, Becomes
  <1> QED
    BY <1>1, <1>2, <1>3, <1>4, <1>5, <1>6, <1>7 DEF Step

\* While a message is there its sender stays, who has read it has read it, what is
\* deleted stays deleted, and its status only goes forward.
Rank(s) == CASE s = "sent" -> 0 [] s = "delivered" -> 1 [] s = "read" -> 2
Onward(c, d) ==
    /\ d.sender = c.sender
    /\ c.readers \subseteq d.readers
    /\ c.deleted => d.deleted
    /\ Rank(c.status) <= Rank(d.status)
MessagesProgress == [][\A m \in Messages : There(m) /\ There(m)' => Onward(doc[m], doc'[m])]_vars

\* What saving, marking and the single operations do to a document.
LEMMA SavedOnward ==
    ASSUME NEW d \in Doc, NEW r \in Request, r.op \in Savings
    PROVE  /\ Onward(d, Saved(r, d))
           /\ Saved(r, d).status = d.status /\ Saved(r, d).readers = d.readers
  BY DEF Saved, Savings, Doc, Onward, Rank

\* A mark keeps a document onward: it leaves it as it is, or records a reader or a delivery.
LEMMA MarkedOnward ==
    ASSUME NEW d \in Doc, NEW op \in Marks, NEW u \in Users \cup {None}
    PROVE  /\ Onward(d, Marked(op, u, d))
           /\ \/ Marked(op, u, d) = d
              \/ /\ Marked(op, u, d).status = "read" /\ Marked(op, u, d).readers = d.readers \cup {u}
                 /\ u \notin d.readers
              \/ /\ d.status = "sent" /\ Marked(op, u, d).status = "delivered"
                 /\ Marked(op, u, d).readers = d.readers
  BY DEF Marked, Marks, Doc, Onward, Rank

\* Reactions and pins touch neither status nor readers.
LEMMA AppliedOnward ==
    ASSUME NEW d \in Doc, NEW op \in Touches, NEW u \in Users \cup {None}
    PROVE  /\ Onward(d, Applied(op, u, d))
           /\ Applied(op, u, d).status = d.status /\ Applied(op, u, d).readers = d.readers
  BY DEF Applied, Touches, Doc, Onward, Rank

\* Edits, deletions, marks and reactions that overlap, in any number, write single
\* fields into the document that is there: none takes back what another has recorded.
THEOREM Progress == Spec => MessagesProgress
  <1>1. ASSUME Tidy, Step, NEW m \in Messages, There(m), There(m)'
        PROVE  Onward(doc[m], doc'[m])
    <2>0. doc[m] \in Doc
      BY <1>1 DEF Tidy, Values
    <2>1. CASE doc'[m] = doc[m]
      BY <2>0, <2>1 DEF Onward, Doc, Rank
    <2>2. doc'[m] # Missing
      BY <1>1, MissingIsDoc DEF There
    <2> QED
      BY <1>1, <2>0, <2>1, <2>2, StepBecomes, SavedOnward, MarkedOnward, AppliedOnward
        DEF Becomes, NewDoc, SavedDoc, MarkedDoc, TouchedDoc
  <1>2. Tidy /\ [Next]_vars =>
          [\A m \in Messages : There(m) /\ There(m)' => Onward(doc[m], doc'[m])]_vars
    BY <1>1, Steps, TidyTyped
  <1>3. Tidy /\ [Next]_vars => Tidy'
    BY Steps, TidyStep, TidyStutter, TidyTyped
  <1> QED
    BY <1>2, <1>3, TidyInit, PTL DEF Spec, MessagesProgress

\* The status says "read" exactly if somebody beside the sender has read the message,
\* and the sender always has.
StatusIsTrue ==
    \A m \in Messages : There(m) =>
        /\ doc[m].sender \in doc[m].readers
        /\ doc[m].status = "read" <=> doc[m].readers # {doc[m].sender}

\* The status and the receipts are written by requests that overlap, yet agree: each
\* update writes both, and "delivered" is written over "sent" only.
THEOREM StatusAgrees == Spec => []StatusIsTrue
  <1>1. Init => StatusIsTrue
    BY MissingIsDoc DEF Init, StatusIsTrue, There
  <1>2. ASSUME Tidy, StatusIsTrue, Step, NEW m \in Messages, There(m)'
        PROVE  /\ doc'[m].sender \in doc'[m].readers
               /\ doc'[m].status = "read" <=> doc'[m].readers # {doc'[m].sender}
    <2>0. doc[m] \in Doc
      BY <1>2 DEF Tidy, Values
    <2>1. ASSUME doc'[m] = doc[m]
          PROVE  There(m)
      BY <1>2, <2>1 DEF There
    <2>2. doc'[m] # Missing
      BY <1>2, MissingIsDoc DEF There
    <2>3. CASE There(m)
      <3>1. /\ doc[m].sender \in doc[m].readers
            /\ doc[m].status = "read" <=> doc[m].readers # {doc[m].sender}
        BY <1>2, <2>3 DEF StatusIsTrue
      <3>2. doc'[m] = doc[m] \/ SavedDoc(m) \/ MarkedDoc(m) \/ TouchedDoc(m)
        BY <1>2, <2>2, <2>3, StepBecomes DEF Becomes, NewDoc
      <3>3. doc'[m].sender = doc[m].sender
        BY <2>0, <3>2, SavedOnward, MarkedOnward, AppliedOnward
          DEF SavedDoc, MarkedDoc, TouchedDoc, Onward
      <3>4. \/ doc'[m].status = doc[m].status /\ doc'[m].readers = doc[m].readers
            \/ \E u : /\ doc'[m].status = "read" /\ doc'[m].readers = doc[m].readers \cup {u}
                      /\ u \notin doc[m].readers
            \/ /\ doc[m].status = "sent" /\ doc'[m].status = "delivered"
               /\ doc'[m].readers = doc[m].readers
        BY <2>0, <3>2, SavedOnward, MarkedOnward, AppliedOnward DEF SavedDoc, MarkedDoc, TouchedDoc
      <3> QED
        BY <3>1, <3>3, <3>4
    <2>4. CASE ~There(m)
      <3>1. PICK u \in Users, text \in Texts \cup {"empty"} : doc'[m] = Sent(u, text)
        BY <1>2, <2>1, <2>4, StepBecomes DEF Becomes, NewDoc
      <3> QED
        BY <3>1 DEF Sent, Missing
    <2> QED
      BY <2>3, <2>4
  <1>3. Tidy /\ StatusIsTrue /\ [Next]_vars => StatusIsTrue'
    <2>1. CASE UNCHANGED vars
      BY <2>1 DEF vars, StatusIsTrue, There
    <2>2. ASSUME Tidy, StatusIsTrue, Next PROVE StatusIsTrue'
      BY <1>2, <2>2, Steps, TidyTyped DEF StatusIsTrue
    <2> QED
      BY <2>1, <2>2
  <1>4. Tidy /\ [Next]_vars => Tidy'
    BY Steps, TidyStep, TidyStutter, TidyTyped
  <1> QED
    BY <1>1, <1>3, <1>4, TidyInit, PTL DEF Spec

-----------------------------------------------------------------------------
(* Requests that do not overlap                                            *)

\* What the request of w is about: what it has yet to write, and what it has written
\* and not yet removed from the cache.
About(w) == req[w].todo \cup req[w].dirty

\* No two requests are about one message, and nothing fails, expires or dies.
Serial ==
    /\ faults = 0
    /\ \A v, w \in Workers : v # w => About(v) \cap About(w) = {}

\* Then none of the exceptions is ever needed.
NoneExempt ==
    /\ astray = {} /\ expired = {} /\ crossed = {}
    /\ \A w \in Workers : req[w].op = "fill" => ~req[w].overtaken

\* A worker that goes on with something else than a copy it has read leaves it so.
LEMMA GoExempts ==
    ASSUME Requests, NoneExempt, NEW w \in Workers, NEW r, Go(w, r), r.op = "fill" => ~r.overtaken
    PROVE  \A v \in Workers : req'[v].op = "fill" => ~req'[v].overtaken
  BY DEF Go, Requests, NoneExempt

\* So does one that ends, or has written.
LEMMA EndExempts ==
    ASSUME Requests, NoneExempt, NEW w \in Workers, End(w)
    PROVE  \A v \in Workers : req'[v].op = "fill" => ~req'[v].overtaken
  BY GoExempts, IdleIsRequest DEF End

\* So does one that has written a message and goes on.
LEMMA WroteExempts ==
    ASSUME Requests, NoneExempt, NEW w \in Workers, NEW m, Wrote(w, m), req[w].op # "fill"
    PROVE  \A v \in Workers : req'[v].op = "fill" => ~req'[v].overtaken
  <1>1. PICK op, r :
             /\ r = [req[w] EXCEPT !.op = op, !.todo = @ \ {m}, !.dirty = @ \cup {m}]
             /\ op \in {"forget", req[w].op} /\ Go(w, r)
    BY DEF Wrote, WroteThen
  <1>2. r.op = op
    BY <1>1 DEF Requests, Request
  <1> QED
    BY <1>1, <1>2, GoExempts

\* No step of requests that are apart makes an exception.
LEMMA SerialStep ==
    ASSUME Tidy, NoneExempt, Serial, Serial', Step
    PROVE  NoneExempt'
  <1>0. Requests /\ faults \in Nat
    BY BoundAssumption DEF Tidy, Values
  <1> DEFINE Trusted == \A v \in Workers : req'[v].op = "fill" => ~req'[v].overtaken
  <1>1. CASE Asked
    <2>1. PICK w \in Workers, r \in Request : Starts(r) /\ Begin(w, r)
      BY <1>1 DEF Asked
    <2>2. Trusted
      BY <1>0, <2>1, GoExempts DEF Begin, Starts, Go
    <2> QED
      BY <2>1, <2>2 DEF Begin, history, NoneExempt
  <1>2. ASSUME NEW w \in Workers, Read(w) PROVE NoneExempt'
    <2>1. PICK m \in req[w].todo : IF There(m) THEN Go(w, Having("fill", None, m)) ELSE End(w)
      BY <1>2 DEF Read
    <2>2. m \in Messages
      BY <1>0, <2>1 DEF Requests, Request
    <2>3. ~Having("fill", None, m).overtaken
      BY <2>2, HavingIs, TidyTyped
    <2>4. Trusted
      BY <1>0, <2>1, <2>3, GoExempts, EndExempts
    <2> QED
      BY <1>2, <2>4 DEF Read, history, NoneExempt
  <1>3. ASSUME NEW w \in Workers, Fill(w) PROVE NoneExempt'
    <2>1. astray' = {}
      BY <1>3 DEF Fill, NoneExempt
    <2>2. Trusted
      BY <1>0, <1>3, EndExempts DEF Fill
    <2> QED
      BY <1>3, <2>1, <2>2 DEF Fill, history, NoneExempt
  <1>4. ASSUME NEW w \in Workers, Save(w) \/ Mark(w) \/ Apply(w) PROVE NoneExempt'
    <2>1. req[w].op # "fill" /\ UNCHANGED <<astray, expired, crossed>>
      BY <1>4 DEF Save, Mark, Apply, history
    <2>2. End(w) \/ \E m : Wrote(w, m)
      BY <1>4 DEF Save, Mark, Apply
    <2>3. Trusted
      BY <1>0, <2>1, <2>2, EndExempts, WroteExempts
    <2> QED
      BY <2>1, <2>3 DEF NoneExempt
  <1>5. ASSUME NEW w \in Workers, Pull(w) PROVE NoneExempt'
    <2>1. PICK m \in req[w].todo :
             /\ Go(w, [req[w] EXCEPT !.op = "push", !.dirty = {m}])
             /\ crossed' = IF Overlaps(w, m) THEN crossed \cup {<<m, req[w].by>>}
                           ELSE crossed \ {<<m, req[w].by>>}
      BY <1>5 DEF Pull
    <2>2. ~Overlaps(w, m)
      BY <2>1 DEF Overlaps, Serial, About
    <2>3. crossed' = {}
      BY <2>1, <2>2 DEF NoneExempt
    <2>4. [req[w] EXCEPT !.op = "push", !.dirty = {m}].op = "push"
      BY <1>0 DEF Requests, Request
    <2>5. Trusted
      BY <1>0, <2>1, <2>4, GoExempts
    <2> QED
      BY <1>5, <2>3, <2>5 DEF Pull, NoneExempt
  <1>6. ASSUME NEW w \in Workers, Forget(w) PROVE NoneExempt'
    <2>1. PICK m \in req[w].dirty :
             /\ req' = [v \in Workers |->
                   IF v # w THEN Overtake({m}, req[v])
                   ELSE IF req[w].dirty = {m} THEN Idle ELSE [req[w] EXCEPT !.dirty = @ \ {m}]]
             /\ astray' = astray \ {m}
      BY <1>6 DEF Forget
    <2>2. ASSUME NEW v \in Workers, req'[v].op = "fill" PROVE ~req'[v].overtaken
      <3>1. v # w
        <4>1. Idle.op = "idle" /\ [req[w] EXCEPT !.dirty = @ \ {m}].op = "forget"
          BY <1>0, <1>6, IdleIsRequest DEF Forget, Requests, Request
        <4> QED
          BY <2>1, <2>2, <4>1
      <3>2. req'[v] = Overtake({m}, req[v]) /\ req[v].op = "fill"
        BY <1>0, <2>1, <2>2, <3>1, Overtaken DEF Requests
      <3>3. PICK n \in Messages : req[v].todo = {n}
        BY <1>0, <3>2 DEF Requests, Shaped
      <3>4. n # m
        BY <2>1, <3>1, <3>3 DEF Serial, About
      <3> QED
        BY <3>2, <3>3, <3>4 DEF Overtake, NoneExempt
    <2> QED
      BY <1>6, <2>1, <2>2 DEF Forget, history, NoneExempt
  <1>7. ASSUME \/ \E w \in Workers : RequestFails(w)
               \/ \E m \in Messages : MessageExpires(m)
               \/ Crash
        PROVE  FALSE
    BY <1>0, <1>7 DEF RequestFails, MessageExpires, Crash, Fault, Serial
  <1>8. CASE \/ \E w \in Workers, m \in Messages : ForwardTo(w, m)
             \/ \E m \in Messages : CopyExpires(m)
             \/ \E u \in Users, m \in Messages, text \in Texts \cup {"empty"} : SendMessage(u, m, text)
    <2>1. Trusted
      BY <1>0, <1>8, EndExempts DEF ForwardTo, CopyExpires, SendMessage, NoneExempt
    <2> QED
      BY <1>8, <2>1 DEF ForwardTo, CopyExpires, SendMessage, history, NoneExempt
  <1> QED
    BY <1>1, <1>2, <1>3, <1>4, <1>5, <1>6, <1>7, <1>8 DEF Step

\* What a reader of the service takes for granted: a copy is the message, unless
\* whoever has just changed it is about to remove the copy; and one reaction each.
CopiesAreTrue ==
    \A m \in Messages :
        /\ cache[m] # Missing => cache[m] = doc[m] \/ Dirty(m)
        /\ \A u \in Users : doc[m].reactions[u] <= 1

\* Requests about one message that follow each other, and any number about different
\* messages at once, keep it: removing the copies one after the other, after the
\* writes, is enough as long as nobody reads in between.
THEOREM SerialRequestsKeepCopies == Spec /\ []Serial => []CopiesAreTrue
  <1>1. Init => NoneExempt
    BY IdleIsRequest DEF Init, NoneExempt
  <1>2. Tidy /\ NoneExempt /\ Serial /\ Serial' /\ [Next]_vars => NoneExempt'
    <2>1. CASE UNCHANGED vars
      BY <2>1 DEF vars, history, NoneExempt
    <2> QED
      BY <2>1, SerialStep, Steps, TidyTyped
  <1>3. Tidy /\ [Next]_vars => Tidy'
    BY Steps, TidyStep, TidyStutter, TidyTyped
  <1>4. NoneExempt /\ CacheFresh /\ OneReactionEach => CopiesAreTrue
    BY DEF NoneExempt, CacheFresh, OneReactionEach, CopiesAreTrue, Dirty
  <1> QED
    BY <1>1, <1>2, <1>3, <1>4, TidyInit, CopiesFresh, ReactionsAreSingle, PTL DEF Spec
=============================================================================
