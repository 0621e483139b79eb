----------------------------- MODULE CallRecords -----------------------------
(***************************************************************************)
(* The call documents of the calls microservice: the handlers of           *)
(* CallsServiceHandler (src/src/microservices/calls-service).              *)
(*                                                                         *)
(* A handler reads a document, works on its copy and saves it.  Mongoose   *)
(* writes the assigned fields whose value changed, and nothing else.  A    *)
(* field of an entry of participants is written by its position, and only  *)
(* if __v is still the one that was read; appending an entry increments    *)
(* __v and checks nothing.  As nothing else increments it, __v and the     *)
(* number of entries change together, and the model compares the latter.   *)
(*                                                                         *)
(* Left out: the active_call cache, whose only reader no message reaches;  *)
(* the stored signals, for the same reason; media flags and durations.     *)
(***************************************************************************)
EXTENDS Naturals, Sequences

CONSTANTS
    Users,          \* user ids
    Calls,          \* the ids of the documents
    Workers,        \* the requests that may be under way at once
    Invitations,    \* the calleeIds a client may send
    None,           \* "no user", "no call"
    MaxEntries,     \* bound: nobody joins a call with so many entries
    MaxRequests     \* bound on the requests

\* Nothing checks calleeIds: they may be empty, or name the caller, or somebody twice.
ASSUME InvitationAssumption == Invitations \subseteq Seq(Users)
ASSUME NoneAssumption == None \notin Users \cup Calls
ASSUME BoundAssumption == MaxEntries \in Nat /\ MaxRequests \in Nat

VARIABLES
    call,           \* the documents
    request,        \* worker -> what its handler has read and is about to save
    requests,       \* how many requests there were
    stale,          \* history: the calls saved by a handler that had read another state
    hasty           \* history: the callers with two initiations under way at once

vars == <<call, request, requests, stale, hasty>>

\* An entry of participants: `gone' says that leftAt is set.  The initiator has
\* the first entry.  `group' says that the type of the call starts with "group".
Entry == [user : Users, state : {"ringing", "connected", "declined", "left"}, gone : BOOLEAN]
Doc == [status : {"none", "ringing", "active", "declined", "ended"},
        group : BOOLEAN, people : Seq(Entry)]

Missing == [status |-> "none", group |-> FALSE, people |-> <<>>]
Idle == [at |-> "idle", user |-> None, call |-> None, read |-> Missing, asked |-> <<>>]

Init ==
    /\ call = [c \in Calls |-> Missing]
    /\ request = [w \in Workers |-> Idle]
    /\ requests = 0
    /\ stale = {}
    /\ hasty = {}

-----------------------------------------------------------------------------
(* What the handlers make of a document                                    *)

Live(d) == d.status \in {"ringing", "active"}
Settled(d) == d.status \in {"declined", "ended"}

Places(d) == DOMAIN d.people
Lists(d, u) == \E i \in Places(d) : d.people[i].user = u
First(d, u) == CHOOSE i \in Places(d) :
    d.people[i].user = u /\ \A j \in Places(d) : d.people[j].user = u => i <= j
Initiator(d) == d.people[1].user

\* What a save leaves in a field that was assigned.
Assigned(new, read, now) == IF new = read THEN now ELSE new

Marked(now, read, state, gone) ==
    [now EXCEPT !.state = Assigned(state, read.state, @), !.gone = gone]
MarkedAt(now, read, i, state, gone) ==
    [now EXCEPT !.people[i] = Marked(@, read.people[i], state, gone)]

\* answerCall leaves leftAt as it is.
Answered(now, read, u) ==
    LET i == First(read, u) IN
    [MarkedAt(now, read, i, "connected", now.people[i].gone) EXCEPT !.status = "active"]

\* Callees who have not answered yet, without the one who rejects.
Pending(d, u) ==
    {i \in Places(d) : d.people[i].state = "ringing" /\ d.people[i].user # Initiator(d)}
        \ (IF Lists(d, u) THEN {First(d, u)} ELSE {})

\* Mutant of Rejected: the callees are counted before the entry is marked.
RejectedEarly(now, read, u) ==
    LET marked == IF Lists(read, u) THEN MarkedAt(now, read, First(read, u), "declined", TRUE) ELSE now
    IN  IF Pending(read, None) = {}
          THEN [marked EXCEPT !.status = Assigned("declined", read.status, @)] ELSE marked

\* Mutant of Rejected: the first rejection settles the call.
RejectedForAll(now, read, u) ==
    LET marked == IF Lists(read, u) THEN MarkedAt(now, read, First(read, u), "declined", TRUE) ELSE now
    IN  [marked EXCEPT !.status = Assigned("declined", read.status, @)]

\* rejectCall, by anybody and whatever the status.
Rejected(now, read, u) ==
    LET marked == IF Lists(read, u) THEN MarkedAt(now, read, First(read, u), "declined", TRUE) ELSE now
    IN  IF Pending(read, u) = {}
          THEN [marked EXCEPT !.status = Assigned("declined", read.status, @)] ELSE marked

Ended(now, read) ==
    [status |-> Assigned("ended", read.status, now.status), group |-> now.group,
     people |-> [i \in Places(now) |->
        IF i \in Places(read) /\ ~read.people[i].gone
          THEN Marked(now.people[i], read.people[i], "left", TRUE) ELSE now.people[i]]]

\* Mutant of Joined: whoever comes back gets a second entry.
JoinedAnew(now, read, u) ==
    [now EXCEPT !.people = Append(@, [user |-> u, state |-> "connected", gone |-> FALSE])]

\* Mutant of Joined: the new entry is given the status of the call.
JoinedActive(now, read, u) ==
    IF Lists(read, u)
      THEN MarkedAt(now, read, First(read, u), "connected", FALSE)
      ELSE [now EXCEPT !.people = Append(@, [user |-> u, state |-> "active", gone |-> FALSE])]

Joined(now, read, u) ==
    IF Lists(read, u)
      THEN MarkedAt(now, read, First(read, u), "connected", FALSE)
      ELSE [now EXCEPT !.people = Append(@, [user |-> u, state |-> "connected", gone |-> FALSE])]

LeftBy(now, read, u) == MarkedAt(now, read, First(read, u), "left", TRUE)

-----------------------------------------------------------------------------
(* Requests                                                                *)

NewRequest == requests < MaxRequests /\ requests' = requests + 1
Holds(w, at, u, c) ==
    request' = [request EXCEPT ![w] =
        [at |-> at, user |-> u, call |-> c, read |-> call[c], asked |-> <<>>]]
Answer(w) == request' = [request EXCEPT ![w] = Idle]

Asks(w, at, u, c) ==
    /\ request[w] = Idle
    /\ call[c] # Missing
    /\ NewRequest
    /\ Holds(w, at, u, c)
    /\ UNCHANGED <<call, stale, hasty>>

\* Mutant of InitiateCall: only a call that was answered keeps its participants busy.
InitiateCallWhileRinging(w, u, callees) ==
    /\ request[w] = Idle
    /\ \A c \in Calls : call[c].status = "active" => ~Lists(call[c], u)
    /\ NewRequest
    /\ request' = [request EXCEPT ![w] = [Idle EXCEPT !.at = "create", !.user = u, !.asked = callees]]
    /\ hasty' = IF \E v \in Workers : request[v].at = "create" /\ request[v].user = u
                  THEN hasty \cup {u} ELSE hasty
    /\ UNCHANGED <<call, stale>>

\* initiateCall, up to the save of the new document.
InitiateCall(w, u, callees) ==
    /\ request[w] = Idle
    /\ \A c \in Calls : Live(call[c]) => ~Lists(call[c], u)
    /\ NewRequest
    /\ request' = [request EXCEPT ![w] = [Idle EXCEPT !.at = "create", !.user = u, !.asked = callees]]
    /\ hasty' = IF \E v \in Workers : request[v].at = "create" /\ request[v].user = u
                  THEN hasty \cup {u} ELSE hasty
    /\ UNCHANGED <<call, stale>>

\* The save of the new document.  A call with several callees is a group call; one
\* with fewer has the type that was sent, which the schema lets be one too.
Create(w) ==
    LET r == request[w]
        Callee(i) == [user |-> r.asked[i], state |-> "ringing", gone |-> FALSE] IN
    /\ r.at = "create"
    /\ \E c \in Calls, group \in BOOLEAN :
          /\ call[c] = Missing
          /\ Len(r.asked) > 1 => group
          /\ call' = [call EXCEPT ![c] = [status |-> "ringing", group |-> group, people |->
                <<[user |-> r.user, state |-> "connected", gone |-> FALSE]>>
                    \o [i \in 1..Len(r.asked) |-> Callee(i)]]]
    /\ Answer(w)
    /\ UNCHANGED <<requests, stale, hasty>>

\* Mutant of AnswerCall: the status of the call is not looked at.
AnswerCallAnytime(w, u, c) ==
    /\ Lists(call[c], u)
    /\ Asks(w, "answer", u, c)

AnswerCall(w, u, c) ==
    /\ call[c].status = "ringing"
    /\ Lists(call[c], u)
    /\ Asks(w, "answer", u, c)

RejectCall(w, u, c) == Asks(w, "reject", u, c)

EndCall(w, u, c) == Asks(w, "end", u, c)

JoinCall(w, u, c) ==
    /\ call[c].group
    /\ Len(call[c].people) < MaxEntries
    /\ Lists(call[c], u) => call[c].people[First(call[c], u)].gone
    /\ Asks(w, "join", u, c)

\* A leave that finds fewer than two others sets the end reason 'all_left', which
\* the schema does not allow: its save fails as a whole and nothing changes.
LeaveCall(w, u, c) ==
    /\ Lists(call[c], u)
    /\ \E i, j \in Places(call[c]) \ {First(call[c], u)} :
          i # j /\ ~call[c].people[i].gone /\ ~call[c].people[j].gone
    /\ Asks(w, "leave", u, c)

\* Does the save of the request write fields of entries by position?
Positional(r) ==
    \/ r.at \in {"answer", "leave"}
    \/ r.at \in {"reject", "join"} /\ Lists(r.read, r.user)
    \/ r.at = "end" /\ \E i \in Places(r.read) : ~r.read.people[i].gone

Written(r, now) ==
    CASE r.at = "answer" -> Answered(now, r.read, r.user)
      [] r.at = "reject" -> Rejected(now, r.read, r.user)
      [] r.at = "end" -> Ended(now, r.read)
      [] r.at = "join" -> Joined(now, r.read, r.user)
      [] r.at = "leave" -> LeftBy(now, r.read, r.user)

\* Mutant of VersionError: positions are written whatever the version.
VersionUnchecked(r) == FALSE

VersionError(r) == Positional(r) /\ Len(call[r.call].people) # Len(r.read.people)

\* call.save().
Save(w) ==
    LET r == request[w] IN
    /\ r.at \in {"answer", "reject", "end", "join", "leave"}
    /\ ~VersionError(r)
    /\ call' = [call EXCEPT ![r.call] = Written(r, @)]
    /\ stale' = IF call[r.call] # r.read THEN stale \cup {r.call} ELSE stale
    /\ Answer(w)
    /\ UNCHANGED <<requests, hasty>>

\* The save is refused, or the database or the cache fails: the handler answers
\* with an error and has changed nothing.
RequestFails(w) ==
    /\ request[w] # Idle
    /\ Answer(w)
    /\ UNCHANGED <<call, requests, stale, hasty>>

-----------------------------------------------------------------------------
(* Specification                                                           *)

Ask(w, u) ==
    \/ \E callees \in Invitations : InitiateCall(w, u, callees)
    \/ \E c \in Calls : \/ AnswerCall(w, u, c) \/ RejectCall(w, u, c) \/ EndCall(w, u, c)
                        \/ JoinCall(w, u, c) \/ LeaveCall(w, u, c)

Next == \E w \in Workers : \/ \E u \in Users : Ask(w, u)
                           \/ Create(w) \/ Save(w) \/ RequestFails(w)

Spec == Init /\ [][Next]_vars

-----------------------------------------------------------------------------
(* Properties                                                              *)

\* Every variable holds a value of its type, and a document that a handler has
\* read is one that was there.
TypeOK ==
    /\ call \in [Calls -> Doc]
    /\ \A w \in Workers : request[w].read \in Doc
    /\ requests \in 0..MaxRequests
    /\ stale \subseteq Calls /\ hasty \subseteq Users

\* No callee's phone rings for a call that is settled, whatever saves overlapped.
\* (A caller who named himself may keep an entry that rings: rejectCall counts only
\* the entries of others.)
SettledRingsNobody ==
    \A c \in Calls : Settled(call[c]) => \A i \in Places(call[c]) :
        call[c].people[i].state = "ringing" => call[c].people[i].user = Initiator(call[c])

\* A settled call comes back only by an answer that was given while it rang.
Reviving(c) == \E w \in Workers :
    request[w].at = "answer" /\ request[w].call = c /\ request[w].read.status = "ringing"
SettledForGood ==
    [][\A c \in Calls : Settled(call[c]) /\ ~Reviving(c) => Settled(call'[c])]_vars

\* A user has initiated two live calls only by two initiations at once, or if one
\* of the calls was saved by a handler that had read another state of it.
OneCallInitiated ==
    \A c, d \in Calls \ stale :
        /\ Live(call[c]) /\ Live(call[d]) /\ Initiator(call[c]) = Initiator(call[d])
        => c = d \/ Initiator(call[c]) \in hasty

\* A live call has somebody in it, and one that rings and has an entry beside its
\* initiator's first has one that is rung or has come, unless saves overlapped: the
\* last rejection settles it, and who leaves leaves others.
LiveHasSomebody ==
    \A c \in Calls \ stale :
        /\ Live(call[c]) => \E i \in Places(call[c]) : ~call[c].people[i].gone
        /\ call[c].status = "ringing" /\ Places(call[c]) # {1} =>
              \E i \in Places(call[c]) \ {1} : call[c].people[i].state \in {"ringing", "connected"}

\* Whoever has an entry keeps that one, through whatever they and others do: another
\* comes only from a join that had read the call before they were listed.
Entries(d, u) == {i \in Places(d) : d.people[i].user = u}
Crossing(c, u) == \E w \in Workers :
    request[w].at = "join" /\ request[w].call = c /\ request[w].user = u /\ ~Lists(request[w].read, u)
JoinedOnce ==
    [][\A c \in Calls, u \in Users :
         Lists(call[c], u) /\ ~Crossing(c, u) => Entries(call'[c], u) = Entries(call[c], u)]_vars

\* Whoever is in a call that endCall has just saved had left it when endCall read
\* it, and came back in between; or endCall found nobody there, wrote no entry and
\* so did not notice who joined.
EndTakesEverybody ==
    [][\A w \in Workers : LET r == request[w] IN
         r.at = "end" /\ request'[w] = Idle /\ call' # call =>
            \/ \A i \in DOMAIN call'[r.call].people :
                  ~call'[r.call].people[i].gone => i \in Places(r.read) /\ r.read.people[i].gone
            \/ \A i \in Places(r.read) : r.read.people[i].gone]_vars
=============================================================================
