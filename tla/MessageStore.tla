----------------------------- MODULE MessageStore -----------------------------
(***************************************************************************)
(* The messages microservice: the handlers of MessagesServiceHandler       *)
(* (src/src/microservices/messages-service) over the messages collection   *)
(* and the copies that getMessage keeps in the cache of the process.       *)
(*                                                                         *)
(* Each handler that changes a message removes its copy from the cache     *)
(* afterwards; in between, and before a copy that was read is stored, the  *)
(* other handlers run.  The database applies an operation to one document  *)
(* atomically.                                                             *)
(*                                                                         *)
(* Left out: attachments, which go with the text; deliveredTo, which holds *)
(* the sender and, once delivered, who reported it; stars, disappearing    *)
(* times and processExpiredMessages, which no message reaches; the key     *)
(* conv_messages, under which nothing is stored.                           *)
(***************************************************************************)
EXTENDS Naturals

CONSTANTS
    Users,
    Messages,       \* message ids
    Workers,        \* requests that can be under way at once
    None,           \* "no user"
    MaxRequests,    \* bound on the requests
    MaxFaults       \* bound on failed operations, expired messages and crashes

ASSUME NoneAssumption == None \notin Users
ASSUME BoundAssumption == MaxRequests \in Nat /\ MaxFaults \in Nat

VARIABLES
    doc,            \* the documents
    cache,          \* message -> its copy in the cache
    req,            \* worker -> what is left of its request
    requests,       \* how many requests there were
    faults,         \* how many failures, expirations and crashes there were
    expired,        \* messages the database has removed at their expiresAt
    retracted,      \* history: messages deleted for everyone
    reworded,       \* history: messages edited since a retraction read them
    crossed,        \* history: <<message, user>> whose reactions overlapped
    astray          \* history: messages whose copy no handler will remove

history == <<retracted, reworded, crossed>>
vars == <<doc, cache, req, requests, faults, expired, history, astray>>

Texts == {"first", "second"}
Doc == [sender : Users \cup {None},
        text : Texts \cup {"empty"},
        deleted : BOOLEAN,
        status : {"sent", "delivered", "read"},
        readers : SUBSET Users,             \* readReceipts
        reactions : [Users -> Nat],         \* how many of each user
        pinned : BOOLEAN]
Missing == [sender |-> None, text |-> "empty", deleted |-> FALSE, status |-> "sent",
            readers |-> {}, reactions |-> [u \in Users |-> 0], pinned |-> FALSE]

\* What a request has read, and the messages it has yet to write and to remove
\* from the cache; `overtaken' says that one of the latter was removed since.
Request ==
    [op : {"idle", "get", "fill", "edit", "delete", "retract", "read", "delivered",
           "pull", "push", "unreact", "pin", "unpin", "forward", "forget"},
     by : Users \cup {None},
     todo : SUBSET Messages,
     dirty : SUBSET Messages,
     copy : Doc,
     text : Texts \cup {"empty"},
     overtaken : BOOLEAN]
Idle == [op |-> "idle", by |-> None, todo |-> {}, dirty |-> {}, copy |-> Missing,
         text |-> "empty", overtaken |-> FALSE]
Asking(op, u, S) == [Idle EXCEPT !.op = op, !.by = u, !.todo = S]
Having(op, u, m) == [Asking(op, u, {m}) EXCEPT !.copy = doc[m]]

Init ==
    /\ doc = [m \in Messages |-> Missing]
    /\ cache = [m \in Messages |-> Missing]
    /\ req = [w \in Workers |-> Idle]
    /\ requests = 0 /\ faults = 0
    /\ expired = {} /\ retracted = {} /\ reworded = {} /\ crossed = {} /\ astray = {}

There(m) == doc[m].sender # None
Unused(m) == ~There(m) /\ m \notin expired
NewRequest == requests < MaxRequests /\ requests' = requests + 1
Fault == faults < MaxFaults /\ faults' = faults + 1

\* A free worker takes a request; a worker goes on with r.
Begin(w, r) ==
    /\ req[w] = Idle
    /\ NewRequest
    /\ req' = [req EXCEPT ![w] = r]
    /\ UNCHANGED <<doc, cache, faults, expired, history, astray>>
Go(w, r) == req' = [req EXCEPT ![w] = r]
End(w) == Go(w, Idle)

-----------------------------------------------------------------------------
(* Sending and forwarding                                                  *)

Sent(u, text) == [Missing EXCEPT !.sender = u, !.text = text, !.readers = {u}]

\* sendMessage: an attachment may come without a text.
SendMessage(u, m, text) ==
    /\ Unused(m)
    /\ NewRequest
    /\ doc' = [doc EXCEPT ![m] = Sent(u, text)]
    /\ UNCHANGED <<cache, req, faults, expired, history, astray>>

\* forwardMessage reads the message and sends what it read to each conversation.
ForwardMessage(w, u, m) == There(m) /\ Begin(w, Having("forward", u, m))

ForwardTo(w, m) ==
    /\ req[w].op = "forward"
    /\ Unused(m)
    /\ doc' = [doc EXCEPT ![m] = Sent(req[w].by, req[w].copy.text)]
    /\ UNCHANGED req \/ End(w)
    /\ UNCHANGED <<cache, requests, faults, expired, history, astray>>

-----------------------------------------------------------------------------
(* Reading through the cache                                               *)

\* getMessage, when there is no copy.
GetMessage(w, m) == cache[m] = Missing /\ Begin(w, Asking("get", None, {m}))

Read(w) ==
    /\ req[w].op = "get"
    /\ \E m \in req[w].todo :
          IF There(m) THEN Go(w, Having("fill", None, m)) ELSE End(w)
    /\ UNCHANGED <<doc, cache, requests, faults, expired, history, astray>>

Fill(w) ==
    /\ req[w].op = "fill"
    /\ \E m \in req[w].todo :
          /\ cache' = [cache EXCEPT ![m] = req[w].copy]
          /\ astray' = IF req[w].overtaken THEN astray \cup {m} ELSE astray \ {m}
    /\ End(w)
    /\ UNCHANGED <<doc, requests, faults, expired, history>>

\* The copy's five minutes are over, or the cache is full.
CopyExpires(m) ==
    /\ cache[m] # Missing
    /\ cache' = [cache EXCEPT ![m] = Missing]
    /\ astray' = astray \ {m}
    /\ UNCHANGED <<doc, req, requests, faults, expired, history>>

-----------------------------------------------------------------------------
(* Editing and deleting: read, check, save                                 *)

\* updateMessage; the limit of 24 hours may refuse an edit at any time.
UpdateMessage(w, u, m, text) ==
    /\ doc[m].sender = u
    /\ Begin(w, [Having("edit", u, m) EXCEPT !.text = text])

\* deleteMessage: for everyone by the sender, otherwise by anybody.
DeleteMessage(w, u, m, op) ==
    /\ There(m)
    /\ op = "retract" => doc[m].sender = u
    /\ Begin(w, Having(op, u, m))

\* What save() leaves in a field that was assigned: mongoose writes it only if it
\* is another value than the one that was read.
Assigned(new, read, now) == IF new = read THEN now ELSE new

\* Mutant of Saved: a message deleted for everyone keeps its text.
SavedKeepingText(r, now) ==
    IF r.op = "edit" THEN [now EXCEPT !.text = Assigned(r.text, r.copy.text, @)]
                     ELSE [now EXCEPT !.deleted = TRUE]

Saved(r, now) ==
    CASE r.op = "edit" -> [now EXCEPT !.text = Assigned(r.text, r.copy.text, @)]
      [] r.op = "delete" -> [now EXCEPT !.deleted = TRUE]
      [] OTHER -> [now EXCEPT !.deleted = TRUE, !.text = Assigned("empty", r.copy.text, @)]

\* The request has written m, and goes on with op; its last write is followed by
\* the removal of the copies.
WroteThen(w, m, op) ==
    Go(w, [req[w] EXCEPT !.op = op, !.todo = @ \ {m}, !.dirty = @ \cup {m}])
Wrote(w, m) == WroteThen(w, m, IF req[w].todo = {m} THEN "forget" ELSE req[w].op)

\* Mutant of Save: the copy in the cache is left to expire.
SaveOnly(w) ==
    LET r == req[w] IN
    /\ r.op \in {"edit", "delete", "retract"}
    /\ \E m \in r.todo :
          /\ There(m)
          /\ doc' = [doc EXCEPT ![m] = Saved(r, @)]
          /\ End(w)
    /\ UNCHANGED <<cache, requests, faults, expired, history, astray>>

\* message.save() in either; a message that is gone cannot be saved.
Save(w) ==
    LET r == req[w] IN
    /\ r.op \in {"edit", "delete", "retract"}
    /\ \E m \in r.todo :
          IF There(m)
            THEN /\ doc' = [doc EXCEPT ![m] = Saved(r, @)]
                 /\ Wrote(w, m)
                 /\ retracted' = IF r.op = "retract" THEN retracted \cup {m} ELSE retracted
                 /\ reworded' =
                      IF r.op = "edit" /\ (m \in retracted \/ \E v \in Workers :
                                              req[v].op = "retract" /\ m \in req[v].todo)
                        THEN reworded \cup {m}
                      ELSE IF r.op = "retract" /\ r.copy.text # "empty" THEN reworded \ {m}
                      ELSE reworded
            ELSE End(w) /\ UNCHANGED <<doc, retracted, reworded>>
    /\ UNCHANGED <<cache, requests, faults, expired, crossed, astray>>

-----------------------------------------------------------------------------
(* Operations on the documents                                             *)

\* markAsRead and markAsDelivered: one update of many documents, one at a time.
MarkAsRead(w, u, S) == Begin(w, Asking("read", u, S))
MarkAsDelivered(w, u, S) == Begin(w, Asking("delivered", u, S))

Marked(op, u, d) ==
    CASE op = "read" /\ u \notin d.readers ->
            [d EXCEPT !.readers = @ \cup {u}, !.status = "read"]
      [] op = "delivered" /\ u # d.sender /\ d.status = "sent" ->
            [d EXCEPT !.status = "delivered"]
      [] OTHER -> d

Mark(w) ==
    /\ req[w].op \in {"read", "delivered"}
    /\ \E m \in req[w].todo :
          /\ doc' = IF There(m) THEN [doc EXCEPT ![m] = Marked(req[w].op, req[w].by, @)] ELSE doc
          /\ Wrote(w, m)
    /\ UNCHANGED <<cache, requests, faults, expired, history, astray>>

\* Mutant of AddReaction: the reaction there may be is not removed first.
AddAnotherReaction(w, u, m) == Begin(w, Asking("push", u, {m}))

\* addReaction: what the user had is pulled, then the new one is pushed.
AddReaction(w, u, m) == Begin(w, Asking("pull", u, {m}))
RemoveReaction(w, u, m) == Begin(w, Asking("unreact", u, {m}))
PinMessage(w, m) == Begin(w, Asking("pin", None, {m}))
UnpinMessage(w, m) == Begin(w, Asking("unpin", None, {m}))

\* Is another addition for the same message and user between its operations?
Overlaps(w, m) ==
    \E v \in Workers \ {w} : req[v].op = "push" /\ req[v].by = req[w].by /\ m \in req[v].todo

Pull(w) ==
    /\ req[w].op = "pull"
    /\ \E m \in req[w].todo : LET p == <<m, req[w].by>> IN
          /\ doc' = IF There(m) THEN [doc EXCEPT ![m].reactions[req[w].by] = 0] ELSE doc
          /\ Go(w, [req[w] EXCEPT !.op = "push", !.dirty = {m}])
          /\ crossed' = IF Overlaps(w, m) THEN crossed \cup {p} ELSE crossed \ {p}
    /\ UNCHANGED <<cache, requests, faults, expired, retracted, reworded, astray>>

\* Mutant of Applied: a removal takes one reaction away, although there may be none.
AppliedTakingOne(op, u, d) ==
    CASE op = "push" -> [d EXCEPT !.reactions[u] = @ + 1]
      [] op = "unreact" -> [d EXCEPT !.reactions[u] = @ - 1]
      [] OTHER -> [d EXCEPT !.pinned = (op = "pin")]

Applied(op, u, d) ==
    CASE op = "push" -> [d EXCEPT !.reactions[u] = @ + 1]
      [] op = "unreact" -> [d EXCEPT !.reactions[u] = 0]
      [] OTHER -> [d EXCEPT !.pinned = (op = "pin")]

\* One operation, which finds the message or answers that there is none.
Apply(w) ==
    /\ req[w].op \in {"push", "unreact", "pin", "unpin"}
    /\ \E m \in req[w].todo :
          IF There(m)
            THEN /\ doc' = [doc EXCEPT ![m] = Applied(req[w].op, req[w].by, @)]
                 /\ Wrote(w, m)
            ELSE End(w) /\ UNCHANGED doc
    /\ UNCHANGED <<cache, requests, faults, expired, history, astray>>

-----------------------------------------------------------------------------
(* Invalidation, failures, expiration                                      *)

\* The copies of S are not to be trusted if they were read before and are stored
\* from now on.
Overtake(S, r) == IF r.op = "fill" /\ r.todo \subseteq S THEN [r EXCEPT !.overtaken = TRUE] ELSE r

Forget(w) ==
    /\ req[w].op = "forget"
    /\ \E m \in req[w].dirty :
          /\ cache' = [cache EXCEPT ![m] = Missing]
          /\ req' = [v \in Workers |->
                IF v # w THEN Overtake({m}, req[v])
                ELSE IF req[w].dirty = {m} THEN Idle ELSE [req[w] EXCEPT !.dirty = @ \ {m}]]
          /\ astray' = astray \ {m}
    /\ UNCHANGED <<doc, requests, faults, expired, history>>

\* An operation fails, or its answer is lost: what was written stays written, and
\* the copies stay in the cache.
RequestFails(w) ==
    /\ req[w] # Idle
    /\ Fault
    /\ req' = [v \in Workers |-> IF v = w THEN Idle ELSE Overtake(req[w].dirty, req[v])]
    /\ astray' = astray \cup req[w].dirty
    /\ UNCHANGED <<doc, cache, requests, expired, history>>

\* The database removes a message whose expiresAt has come; nobody is told.
MessageExpires(m) ==
    /\ There(m)
    /\ Fault
    /\ doc' = [doc EXCEPT ![m] = Missing]
    /\ expired' = expired \cup {m}
    /\ UNCHANGED <<cache, req, requests, history, astray>>

\* The process dies with its cache and its requests, and another takes its place.
Crash ==
    /\ Fault
    /\ cache' = [m \in Messages |-> Missing]
    /\ req' = [w \in Workers |-> Idle]
    /\ astray' = {}
    /\ UNCHANGED <<doc, requests, expired, history>>

-----------------------------------------------------------------------------
(* Specification                                                           *)

Ask(w, u) ==
    \/ \E m \in Messages :
          \/ AddReaction(w, u, m) \/ RemoveReaction(w, u, m) \/ ForwardMessage(w, u, m)
          \/ \E text \in Texts : UpdateMessage(w, u, m, text)
          \/ \E op \in {"delete", "retract"} : DeleteMessage(w, u, m, op)
    \/ \E S \in SUBSET Messages \ {{}} : MarkAsRead(w, u, S) \/ MarkAsDelivered(w, u, S)

Next ==
    \/ \E w \in Workers :
          \/ \E u \in Users : Ask(w, u)
          \/ \E m \in Messages :
                GetMessage(w, m) \/ PinMessage(w, m) \/ UnpinMessage(w, m) \/ ForwardTo(w, m)
          \/ Read(w) \/ Fill(w) \/ Save(w) \/ Mark(w) \/ Pull(w) \/ Apply(w)
          \/ Forget(w) \/ RequestFails(w)
    \/ \E m \in Messages :
          \/ CopyExpires(m) \/ MessageExpires(m)
          \/ \E u \in Users, text \in Texts \cup {"empty"} : SendMessage(u, m, text)
    \/ Crash

Spec == Init /\ [][Next]_vars

-----------------------------------------------------------------------------
(* Properties                                                              *)

\* Every variable holds a value of its type, and what is under way is about one
\* message, unless it marks several.
TypeOK ==
    /\ doc \in [Messages -> Doc] /\ cache \in [Messages -> Doc]
    /\ req \in [Workers -> Request]
    /\ \A w \in Workers :
          /\ req[w].op \notin {"idle", "read", "delivered", "forget"} =>
                \E m \in Messages : req[w].todo = {m}
          /\ req[w].op \in {"pull", "push", "unreact", "read", "forward"} => req[w].by \in Users
    /\ requests \in 0..MaxRequests /\ faults \in 0..MaxFaults
    /\ expired \subseteq Messages /\ retracted \subseteq Messages
    /\ reworded \subseteq Messages /\ astray \subseteq Messages
    /\ crossed \subseteq Messages \X Users

\* A copy in the cache is the message as it is, unless a handler that has changed
\* the message is about to remove it; or it was stored by a get that had read the
\* message before such a removal, or such a handler failed; or the message expired.
CacheFresh ==
    \A m \in Messages : cache[m] # Missing =>
        \/ cache[m] = doc[m]
        \/ \E w \in Workers : m \in req[w].dirty
        \/ m \in astray \cup expired

\* A user has two reactions to a message only after two additions overlapped.
OneReactionEach ==
    \A m \in Messages, u \in Users : doc[m].reactions[u] <= 1 \/ <<m, u>> \in crossed

\* A message that was deleted for everyone has no text, unless an edit was saved
\* after the deletion had read the message.
RetractedIsEmpty ==
    \A m \in retracted : doc[m].text = "empty" \/ m \in reworded
=============================================================================
