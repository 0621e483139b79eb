----------------------------- MODULE Conversations -----------------------------
(***************************************************************************)
(* The documents of a conversation and of its messages:                    *)
(* ConversationsService and MessagesService                                *)
(* (src/src/modules/conversations, src/src/modules/messages), as the REST  *)
(* controllers and the chat gateway call them.                             *)
(*                                                                         *)
(* One group, and the direct conversations of two users, which are only    *)
(* counted.  A worker serves one request at a time.  The database applies  *)
(* an operation to one document atomically; between the read that a        *)
(* request checks and its write the others write what they like.           *)
(***************************************************************************)
EXTENDS Naturals, Sequences, FiniteSets, FiniteSetsExt

CONSTANTS
    Users,
    Group,          \* the group's participants when it is created, its creator first
    Messages,
    Workers,        \* requests that can be under way at once
    Limit,          \* pinned messages a conversation may have
    None,           \* "no message", "no user"
    MaxRequests     \* bound on the requests

ASSUME GroupAssumption ==
    /\ Group \in Seq(Users) /\ Group # <<>>
    /\ \A i, j \in DOMAIN Group : Group[i] = Group[j] => i = j
ASSUME FiniteAssumption == IsFiniteSet(Workers) /\ IsFiniteSet(Messages)
ASSUME NoneAssumption == None \notin Users /\ None \notin Messages
ASSUME LimitAssumption == Limit \in Nat \ {0}
ASSUME BoundAssumption == MaxRequests \in Nat

VARIABLES
    exists,         \* is the group still there?
    participants,   \* the participants array of its document: its entries, under
                    \* numbers in the order of the array
    pinned,         \* pinnedMessages
    last,           \* lastMessage
    sender,         \* message -> senderId, None before it is saved
    receipts,       \* message -> user -> number of entries in readReceipts
    reactions,      \* the same for reactions, with the one emoji there is
    direct,         \* number of direct conversations of the two users
    req,            \* worker -> what is left of its request
    requests,       \* how many requests there were
    sent,           \* history: messages whose sending has written lastMessage
    older,          \* history: message -> what was sent before it was saved
    counted         \* history: messages whose unread counts are written

group == <<exists, participants, pinned, last>>
messages == <<sender, receipts, reactions>>
history == <<sent, older, counted>>
vars == <<group, messages, direct, req, requests, history>>

Entry == [user : Users, unread : Nat, lastRead : Messages \cup {None}]
NewEntry(u) == [user |-> u, unread |-> 0, lastRead |-> None]

\* What a request has still to write, or to fetch.
Request ==
    [op : {"idle", "add", "remove", "delete", "pin", "unpin", "receipt", "read",
           "react", "last", "fetch", "count", "direct"},
     by : Users \cup {None},
     on : Users \cup Messages \cup {None},
     to : SUBSET Users]
Idle == [op |-> "idle", by |-> None, on |-> None, to |-> {}]
Ask(op, u, x) == [op |-> op, by |-> u, on |-> x, to |-> {}]

\* createGroupConversation: its creator is its only admin.
Creator == Group[1]
Init ==
    /\ exists = TRUE
    /\ participants = [i \in DOMAIN Group |-> NewEntry(Group[i])]
    /\ pinned = {}
    /\ last = None
    /\ sender = [m \in Messages |-> None]
    /\ receipts = [m \in Messages |-> [u \in Users |-> 0]]
    /\ reactions = [m \in Messages |-> [u \in Users |-> 0]]
    /\ direct = 0
    /\ req = [w \in Workers |-> Idle]
    /\ requests = 0
    /\ sent = {}
    /\ older = [m \in Messages |-> {}]
    /\ counted = {}

\* A free worker takes a request, which passes its checks and leaves r to do.
Begin(w, r) ==
    /\ req[w] = Idle
    /\ requests < MaxRequests /\ requests' = requests + 1
    /\ req' = [req EXCEPT ![w] = r]

\* A worker goes on with r, and ends its request.
Go(w, r) == req' = [req EXCEPT ![w] = r] /\ UNCHANGED requests
End(w) == Go(w, Idle)

Places == DOMAIN participants
Members == {participants[i].user : i \in Places}
NextPlace == 1 + Max(Places \cup {0})

\* participants.$ : the first entry that a query for S matches, and its new value.
Matching(S) == {i \in Places : participants[i].user \in S}
Unmatched(S) == Matching(S) = {} /\ UNCHANGED participants
First(S) == {i \in Matching(S) : \A j \in Matching(S) : i <= j}

-----------------------------------------------------------------------------
(* Participants                                                            *)

AskAdd(w, u) ==
    /\ exists
    /\ Begin(w, Ask("add", Creator, u))
    /\ UNCHANGED <<group, messages, direct, history>>

\* $addToSet adds an entry even for who is in: no two entries are equal.
WriteAdd(w) ==
    /\ req[w].op = "add"
    /\ participants' =
          IF exists THEN [i \in Places \cup {NextPlace} |->
                            IF i \in Places THEN participants[i] ELSE NewEntry(req[w].on)]
          ELSE participants
    /\ End(w)
    /\ UNCHANGED <<exists, pinned, last, messages, direct, history>>

AskRemove(w, u) ==
    /\ exists
    /\ Begin(w, Ask("remove", Creator, u))
    /\ UNCHANGED <<group, messages, direct, history>>

WriteRemove(w) ==
    /\ req[w].op = "remove"
    /\ participants' = [i \in Places \ Matching({req[w].on}) |-> participants[i]]
    /\ End(w)
    /\ UNCHANGED <<exists, pinned, last, messages, direct, history>>

AskDelete(w) ==
    /\ exists
    /\ Begin(w, Ask("delete", Creator, None))
    /\ UNCHANGED <<group, messages, direct, history>>

WriteDelete(w) ==
    /\ req[w].op = "delete"
    /\ exists' = FALSE /\ participants' = [i \in {} |-> NewEntry(Creator)] /\ pinned' = {} /\ last' = None
    /\ End(w)
    /\ UNCHANGED <<messages, direct, history>>

\* createSingleConversation, for a pair of users whose order does not matter.
AskDirect(w, u) ==
    /\ direct = 0
    /\ Begin(w, Ask("direct", u, None))
    /\ UNCHANGED <<group, messages, direct, history>>

WriteDirect(w) ==
    /\ req[w].op = "direct"
    /\ direct' = direct + 1
    /\ End(w)
    /\ UNCHANGED <<group, messages, history>>

-----------------------------------------------------------------------------
(* Pinned messages                                                         *)

\* Mutant of AskPin: the limit is off by one.
AskPinAtLimit(w, m) ==
    /\ exists /\ Creator \in Members
    /\ m \notin pinned /\ Cardinality(pinned) <= Limit
    /\ Begin(w, Ask("pin", Creator, m))
    /\ UNCHANGED <<group, messages, direct, history>>

AskPin(w, m) ==
    /\ exists /\ Creator \in Members
    /\ m \notin pinned /\ Cardinality(pinned) < Limit
    /\ Begin(w, Ask("pin", Creator, m))
    /\ UNCHANGED <<group, messages, direct, history>>

WritePin(w) ==
    /\ req[w].op = "pin"
    /\ pinned' = IF exists THEN pinned \cup {req[w].on} ELSE pinned
    /\ End(w)
    /\ UNCHANGED <<exists, participants, last, messages, direct, history>>

AskUnpin(w, m) ==
    /\ exists /\ Creator \in Members
    /\ Begin(w, Ask("unpin", Creator, m))
    /\ UNCHANGED <<group, messages, direct, history>>

WriteUnpin(w) ==
    /\ req[w].op = "unpin"
    /\ pinned' = pinned \ {req[w].on}
    /\ End(w)
    /\ UNCHANGED <<exists, participants, last, messages, direct, history>>

-----------------------------------------------------------------------------
(* Sending                                                                 *)

\* Mutant of Save: updateLastMessage is not awaited, the message counts as sent.
SaveUnawaited(w, u, m) ==
    /\ sender[m] = None
    /\ Begin(w, Ask("last", u, m))
    /\ sender' = [sender EXCEPT ![m] = u]
    /\ older' = [older EXCEPT ![m] = sent]
    /\ sent' = sent \cup {m}
    /\ UNCHANGED <<group, receipts, reactions, direct, counted>>

\* createMessage asks nothing of the conversation; it saves the message ...
Save(w, u, m) ==
    /\ sender[m] = None
    /\ Begin(w, Ask("last", u, m))
    /\ sender' = [sender EXCEPT ![m] = u]
    /\ older' = [older EXCEPT ![m] = sent]
    /\ UNCHANGED <<group, receipts, reactions, direct, sent, counted>>

\* ... and then names it in the conversation's document.
WriteLast(w) ==
    /\ req[w].op = "last"
    /\ last' = IF exists THEN req[w].on ELSE last
    /\ sent' = sent \cup {req[w].on}
    /\ Go(w, [req[w] EXCEPT !.op = "fetch"])
    /\ UNCHANGED <<exists, participants, pinned, messages, direct, older, counted>>

\* Mutant of Fetch: the sender is among the recipients.
FetchEverybody(w) ==
    /\ req[w].op = "fetch"
    /\ IF exists THEN Go(w, [req[w] EXCEPT !.op = "count", !.to = Members])
                 ELSE End(w)
    /\ UNCHANGED <<group, messages, direct, history>>

\* The gateway fetches the conversation for the recipients' unread counts.
Fetch(w) ==
    /\ req[w].op = "fetch"
    /\ IF exists THEN Go(w, [req[w] EXCEPT !.op = "count", !.to = Members \ {req[w].by}])
                 ELSE End(w)
    /\ UNCHANGED <<group, messages, direct, history>>

\* incrementUnreadCount: of all the recipients, the first entry is counted up.
WriteCount(w) ==
    /\ req[w].op = "count"
    /\ \/ Unmatched(req[w].to)
       \/ \E i \in First(req[w].to) :
             participants' = [participants EXCEPT ![i].unread = @ + 1]
    /\ counted' = counted \cup {req[w].on}
    /\ End(w)
    /\ UNCHANGED <<exists, pinned, last, messages, direct, sent, older>>

-----------------------------------------------------------------------------
(* Reading and reacting                                                    *)

\* Mutant of AskReceipt: whether there is a receipt is not looked at.
AskReceiptAnyway(w, u, m) ==
    /\ sender[m] # None
    /\ Begin(w, Ask("receipt", u, m))
    /\ UNCHANGED <<group, messages, direct, history>>

\* message:read, and the REST request, which does not go on to the conversation.
AskReceipt(w, u, m) ==
    /\ sender[m] # None
    /\ Begin(w, Ask(IF receipts[m][u] = 0 THEN "receipt" ELSE "read", u, m))
    /\ UNCHANGED <<group, messages, direct, history>>

WriteReceipt(w) ==
    /\ req[w].op = "receipt"
    /\ receipts' = [receipts EXCEPT ![req[w].on][req[w].by] = @ + 1]
    /\ Go(w, [req[w] EXCEPT !.op = "read"]) \/ End(w)
    /\ UNCHANGED <<group, sender, reactions, direct, history>>

\* Mutant of WriteRead: the unread count goes down by one.
WriteReadOne(w) ==
    /\ req[w].op = "read"
    /\ \/ Unmatched({req[w].by})
       \/ \E i \in First({req[w].by}) :
             participants' = [participants EXCEPT ![i].unread = @ - 1, ![i].lastRead = req[w].on]
    /\ End(w)
    /\ UNCHANGED <<exists, pinned, last, messages, direct, history>>

\* markAsRead
WriteRead(w) ==
    /\ req[w].op = "read"
    /\ \/ Unmatched({req[w].by})
       \/ \E i \in First({req[w].by}) :
             participants' = [participants EXCEPT ![i].unread = 0, ![i].lastRead = req[w].on]
    /\ End(w)
    /\ UNCHANGED <<exists, pinned, last, messages, direct, history>>

AskReact(w, u, m) ==
    /\ sender[m] # None
    /\ reactions[m][u] = 0
    /\ Begin(w, Ask("react", u, m))
    /\ UNCHANGED <<group, messages, direct, history>>

WriteReact(w) ==
    /\ req[w].op = "react"
    /\ reactions' = [reactions EXCEPT ![req[w].on][req[w].by] = @ + 1]
    /\ End(w)
    /\ UNCHANGED <<group, sender, receipts, direct, history>>

\* removeReaction is one operation, which takes all that are alike.
Unreact(w, u, m) ==
    /\ sender[m] # None
    /\ Begin(w, Idle)
    /\ reactions' = [reactions EXCEPT ![m][u] = 0]
    /\ UNCHANGED <<group, sender, receipts, direct, history>>

\* An operation fails, or the process dies: the rest does not happen.
RequestFails(w) ==
    /\ req[w] # Idle
    /\ End(w)
    /\ UNCHANGED <<group, messages, direct, history>>

-----------------------------------------------------------------------------
(* Specification                                                           *)

Next == \E w \in Workers :
    \/ \E u \in Users :
          \/ AskAdd(w, u) \/ AskRemove(w, u) \/ AskDirect(w, u)
          \/ \E m \in Messages :
                \/ Save(w, u, m) \/ AskReceipt(w, u, m)
                \/ AskReact(w, u, m) \/ Unreact(w, u, m)
    \/ \E m \in Messages : AskPin(w, m) \/ AskUnpin(w, m)
    \/ AskDelete(w)
    \/ WriteAdd(w) \/ WriteRemove(w) \/ WriteDelete(w) \/ WriteDirect(w)
    \/ WritePin(w) \/ WriteUnpin(w)
    \/ WriteLast(w) \/ Fetch(w) \/ WriteCount(w)
    \/ WriteReceipt(w) \/ WriteRead(w) \/ WriteReact(w)
    \/ RequestFails(w)

Spec == Init /\ [][Next]_vars

-----------------------------------------------------------------------------
(* Properties                                                              *)

\* Every variable holds a value of its type; an unread count never goes below 0.
TypeOK ==
    /\ exists \in BOOLEAN
    /\ \A i \in Places : participants[i] \in Entry
    /\ pinned \subseteq Messages
    /\ last \in Messages \cup {None}
    /\ sender \in [Messages -> Users \cup {None}]
    /\ receipts \in [Messages -> [Users -> Nat]]
    /\ reactions \in [Messages -> [Users -> Nat]]
    /\ direct \in Nat
    /\ req \in [Workers -> Request]
    /\ requests \in 0..MaxRequests
    /\ sent \subseteq Messages /\ counted \subseteq Messages
    /\ older \in [Messages -> SUBSET Messages]

\* The limit on pinned messages is checked before they are written, so it can be
\* passed, but only by as many as can ask at the same time, less one.
PinnedBound == Cardinality(pinned) < Limit + Cardinality(Workers)

\* A user reads a message once and reacts to it once, and two users share one direct
\* conversation, unless requests overlap; and then there are no more than there are
\* requests at the same time.
OnceEach ==
    /\ \A m \in Messages, u \in Users :
          /\ receipts[m][u] <= Cardinality(Workers)
          /\ reactions[m][u] <= Cardinality(Workers)
    /\ direct <= Cardinality(Workers)

\* Whatever order sends finish in, the conversation never shows as its last
\* message one whose sending was over before another one that is over had begun.
LastNotOvertaken == \A m \in sent : last \notin older[m]

\* Nobody's unread count passes the number of messages of others: no message is
\* counted twice for a user, nor for the one who sent it.
UnreadOfOthers ==
    \A i \in Places :
        participants[i].unread <=
            Cardinality({m \in counted : sender[m] # participants[i].user})
=============================================================================
