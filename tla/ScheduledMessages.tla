--------------------------- MODULE ScheduledMessages ---------------------------
(***************************************************************************)
(* Scheduled messages: the handlers of ScheduledMessagesController and the *)
(* scheduler of ScheduledMessagesService (src/src/modules/                 *)
(* scheduled-messages), which every process of the cluster runs.           *)
(*                                                                         *)
(* MongoDB makes an operation on one document atomic; a handler or a pass  *)
(* of the scheduler is a sequence of them, and an action is one operation  *)
(* with the code up to the next.  save() writes the fields that were       *)
(* assigned, whatever the document has become, and fails if it is gone.    *)
(*                                                                         *)
(* Of a scheduled message remain its status and whether it is due; of the  *)
(* conversation, how often the message was posted in it.                   *)
(***************************************************************************)
EXTENDS Naturals, FiniteSets

CONSTANTS
    Messages,       \* scheduled messages
    Processes,      \* processes of the cluster
    Slots,          \* bound: the passes of one process that may overlap
    Clients,        \* the senders' requests that may be under way at once
    None,           \* "no message"
    MaxFaults       \* bound on failed operations and crashes

ASSUME NoneAssumption == None \notin Messages
ASSUME BoundAssumption == MaxFaults \in Nat

VARIABLES
    status,         \* message -> status of its document, "none" before, "deleted" after
    due,            \* message -> scheduledAt has come
    up,             \* the processes that run
    pass,           \* pass -> what it waits for
    request,        \* client -> what the handler of its request waits for
    posted,         \* message -> how often it stands in its conversation
    faults,         \* failures so far
    repeated        \* history: messages that two passes had, or that were posted
                    \* by a pass that died before it recorded it

vars == <<status, due, up, pass, request, posted, faults, repeated>>

Passes == Processes \X Slots
ProcessOf(p) == p[1]

\* A pass works on `msg' and has `todo' left.
Pass == [at : {"idle", "post", "save", "fail"}, msg : Messages \cup {None}, todo : SUBSET Messages]
Request == [at : {"idle", "edit", "cancel", "delete"}, msg : Messages \cup {None}]

Resting == [at |-> "idle", msg |-> None, todo |-> {}]
Idle == [at |-> "idle", msg |-> None]

Holds(p, m) == m \in pass[p].todo \/ (pass[p].at # "idle" /\ pass[p].msg = m)

Init ==
    /\ status = [m \in Messages |-> "none"]
    /\ due = [m \in Messages |-> FALSE]
    /\ up = Processes
    /\ pass = [p \in Passes |-> Resting]
    /\ request = [c \in Clients |-> Idle]
    /\ posted = [m \in Messages |-> 0]
    /\ faults = 0
    /\ repeated = {}

Fault == faults < MaxFaults /\ faults' = faults + 1
NoFault == UNCHANGED faults

-----------------------------------------------------------------------------
(* The senders' requests                                                   *)

\* POST /scheduled-messages: the time must be in the future.
ScheduleMessage(m) ==
    /\ status[m] = "none"
    /\ status' = [status EXCEPT ![m] = "pending"]
    /\ UNCHANGED <<due, up, pass, request, posted, faults, repeated>>

Answer(c) == request' = [request EXCEPT ![c] = Idle]
Wait(c, at, m) == request' = [request EXCEPT ![c] = [at |-> at, msg |-> m]]

\* PUT /scheduled-messages/:id and /:id/cancel of one's own message, up to the save.
CheckedRequest(c, m) ==
    /\ request[c] = Idle
    /\ status[m] = "pending"
    /\ Wait(c, "edit", m) \/ Wait(c, "cancel", m)
    /\ UNCHANGED <<status, due, up, pass, posted, faults, repeated>>

\* DELETE /scheduled-messages/:id, whatever the status.
DeleteRequest(c, m) ==
    /\ request[c] = Idle
    /\ status[m] \notin {"none", "deleted"}
    /\ Wait(c, "delete", m)
    /\ UNCHANGED <<status, due, up, pass, posted, faults, repeated>>

\* Mutant of SaveEdit: the document is replaced, with the status that was read.
SaveEditWhole(c) ==
    /\ request[c].at = "edit"
    /\ IF status[request[c].msg] = "deleted" THEN UNCHANGED <<status, due>>
       ELSE /\ due' = [due EXCEPT ![request[c].msg] = FALSE]
            /\ status' = [status EXCEPT ![request[c].msg] = "pending"]
    /\ Answer(c)
    /\ UNCHANGED <<up, pass, posted, faults, repeated>>

\* An edit must name a new time: the controller passes scheduledAt: undefined
\* otherwise, and a document without its required scheduledAt is not saved.
SaveEdit(c) ==
    /\ request[c].at = "edit"
    /\ due' = IF status[request[c].msg] = "deleted" THEN due
              ELSE [due EXCEPT ![request[c].msg] = FALSE]
    /\ Answer(c)
    /\ UNCHANGED <<status, up, pass, posted, faults, repeated>>

SaveCancel(c) ==
    /\ request[c].at = "cancel"
    /\ status' = IF status[request[c].msg] = "deleted" THEN status
                 ELSE [status EXCEPT ![request[c].msg] = "cancelled"]
    /\ Answer(c)
    /\ UNCHANGED <<due, up, pass, posted, faults, repeated>>

Delete(c) ==
    /\ request[c].at = "delete"
    /\ status' = [status EXCEPT ![request[c].msg] = "deleted"]
    /\ Answer(c)
    /\ UNCHANGED <<due, up, pass, posted, faults, repeated>>

\* The database fails, or the process that serves the request dies.
RequestFails(c) ==
    /\ request[c] # Idle
    /\ Fault
    /\ Answer(c)
    /\ UNCHANGED <<status, due, up, pass, posted, repeated>>

-----------------------------------------------------------------------------
(* The scheduler                                                           *)

TimePasses(m) ==
    /\ status[m] # "none" /\ ~due[m]
    /\ due' = [due EXCEPT ![m] = TRUE]
    /\ UNCHANGED <<status, up, pass, request, posted, faults, repeated>>

\* Mutant of TakeNext: the message stays among those to do.
TakeNextTwice(p, ms) ==
    IF ms = {} THEN pass' = [pass EXCEPT ![p] = Resting]
    ELSE \E m \in ms : pass' = [pass EXCEPT ![p] = [at |-> "post", msg |-> m, todo |-> ms]]

\* The pass takes a message out of a set, or rests if there is none.
TakeNext(p, ms) ==
    IF ms = {} THEN pass' = [pass EXCEPT ![p] = Resting]
    ELSE \E m \in ms : pass' = [pass EXCEPT ![p] = [at |-> "post", msg |-> m, todo |-> ms \ {m}]]

Found == {m \in Messages : status[m] = "pending" /\ due[m]}
HeldByOthers(p) == {m \in Messages : \E q \in Passes \ {p} : Holds(q, m)}

\* Mutant of StartPass: messages that were sent are found as well.
StartPassAgain(p) ==
    LET found == {m \in Messages : status[m] \in {"pending", "sent"} /\ due[m]} IN
    /\ ProcessOf(p) \in up /\ pass[p].at = "idle" /\ found # {}
    /\ TakeNext(p, found)
    /\ repeated' = repeated \cup (found \cap HeldByOthers(p))
    /\ UNCHANGED <<status, due, up, request, posted, faults>>

\* At startup and every minute, also while an earlier pass goes on.  A pass that
\* finds nothing changes nothing.
StartPass(p) ==
    /\ ProcessOf(p) \in up /\ pass[p].at = "idle" /\ Found # {}
    /\ TakeNext(p, Found)
    /\ repeated' = repeated \cup (Found \cap HeldByOthers(p))
    /\ UNCHANGED <<status, due, up, request, posted, faults>>

At(p, step) == pass' = [pass EXCEPT ![p].at = step]
PostOne(m) == posted' = [posted EXCEPT ![m] = @ + 1]

\* Mutant of Post: a message that cannot be posted counts as posted.
PostUnawaited(p) ==
    /\ pass[p].at = "post"
    /\ At(p, "save")
    /\ \/ PostOne(pass[p].msg) /\ NoFault
       \/ UNCHANGED posted /\ Fault
    /\ UNCHANGED <<status, due, up, request, repeated>>

\* createMessage saves the message and then updates the conversation; it fails
\* before, or in between.
Post(p) ==
    /\ pass[p].at = "post"
    /\ \/ PostOne(pass[p].msg) /\ At(p, "save") /\ NoFault
       \/ UNCHANGED posted /\ At(p, "fail") /\ Fault
       \/ PostOne(pass[p].msg) /\ At(p, "fail") /\ Fault
    /\ UNCHANGED <<status, due, up, request, repeated>>

SaveSent(p) ==
    /\ pass[p].at = "save"
    /\ \/ /\ status[pass[p].msg] # "deleted"
          /\ status' = [status EXCEPT ![pass[p].msg] = "sent"]
          /\ TakeNext(p, pass[p].todo)
          /\ NoFault
       \/ /\ status[pass[p].msg] = "deleted"
          /\ UNCHANGED status /\ At(p, "fail") /\ NoFault
       \/ UNCHANGED status /\ At(p, "fail") /\ Fault
    /\ UNCHANGED <<due, up, request, posted, repeated>>

\* The end of a process: its passes are gone, what they had posted unrecorded may
\* be posted again.
Die(i) ==
    /\ up' = up \ {i}
    /\ pass' = [p \in Passes |-> IF ProcessOf(p) = i THEN Resting ELSE pass[p]]
    /\ repeated' = repeated \cup {m \in Messages : posted[m] > 0 /\
                       \E p \in Passes : ProcessOf(p) = i /\ pass[p].at # "idle" /\ pass[p].msg = m}

\* Nothing catches what fails in the catch block: the rejected pass takes the
\* process down.
SaveFailed(p) ==
    /\ pass[p].at = "fail"
    /\ \/ /\ status[pass[p].msg] # "deleted"
          /\ status' = [status EXCEPT ![pass[p].msg] = "failed"]
          /\ TakeNext(p, pass[p].todo)
          /\ NoFault
          /\ UNCHANGED <<up, repeated>>
       \/ status[pass[p].msg] = "deleted" /\ UNCHANGED status /\ NoFault /\ Die(ProcessOf(p))
       \/ UNCHANGED status /\ Fault /\ Die(ProcessOf(p))
    /\ UNCHANGED <<due, request, posted>>

Crash(i) ==
    /\ i \in up
    /\ Fault
    /\ Die(i)
    /\ UNCHANGED <<status, due, request, posted>>

\* Mutant of Restart: one process stays down for ever.
RestartOthers(i) ==
    /\ i \notin up /\ up # {}
    /\ up' = up \cup {i}
    /\ UNCHANGED <<status, due, pass, request, posted, faults, repeated>>

Restart(i) ==
    /\ i \notin up
    /\ up' = up \cup {i}
    /\ UNCHANGED <<status, due, pass, request, posted, faults, repeated>>

-----------------------------------------------------------------------------
(* Specification                                                           *)

Work(p) == Post(p) \/ SaveSent(p) \/ SaveFailed(p)

Next ==
    \/ \E m \in Messages : ScheduleMessage(m) \/ TimePasses(m)
    \/ \E c \in Clients :
          \/ \E m \in Messages : CheckedRequest(c, m) \/ DeleteRequest(c, m)
          \/ SaveEdit(c) \/ SaveCancel(c) \/ Delete(c) \/ RequestFails(c)
    \/ \E p \in Passes : StartPass(p) \/ Work(p)
    \/ \E i \in Processes : Crash(i) \/ Restart(i)

Spec == Init /\ [][Next]_vars

\* A process that runs starts its passes and goes on with them; one that is down
\* is started again (autorestart).
FairSpec ==
    /\ Spec
    /\ \A p \in Passes : WF_vars(StartPass(p)) /\ WF_vars(Work(p))
    /\ \A i \in Processes : WF_vars(Restart(i))

-----------------------------------------------------------------------------
(* Properties                                                              *)

\* Every variable holds a value of its type; who works or waits has a message
\* that was scheduled, and who is down has no pass.
TypeOK ==
    /\ status \in [Messages -> {"none", "pending", "sent", "cancelled", "failed", "deleted"}]
    /\ due \in [Messages -> BOOLEAN]
    /\ up \subseteq Processes
    /\ pass \in [Passes -> Pass]
    /\ \A p \in Passes :
          IF pass[p].at = "idle" THEN pass[p] = Resting
          ELSE ProcessOf(p) \in up /\ pass[p].msg \in Messages \ pass[p].todo
    /\ \A p \in Passes, m \in Messages : Holds(p, m) => status[m] # "none"
    /\ request \in [Clients -> Request]
    /\ \A c \in Clients : request[c].at # "idle" =>
          request[c].msg \in Messages /\ status[request[c].msg] # "none"
    /\ posted \in [Messages -> Nat]
    /\ faults \in 0..MaxFaults
    /\ repeated \subseteq Messages

\* A message is posted twice only if two passes had it at once, or if a process
\* died between the post and its record: no edit, cancellation, failed
\* operation or later pass repeats it.
PostedOnce == \A m \in Messages : posted[m] > 1 => m \in repeated

\* Once a message is no longer pending and no pass has it, it is never posted
\* again, and no request that read it while it was pending makes it pending.
Settled(m) == status[m] \notin {"none", "pending"} /\ \A p \in Passes : ~Holds(p, m)
SettledForGood ==
    [][\A m \in Messages : Settled(m) => Settled(m)' /\ posted'[m] = posted[m]]_vars

\* A message whose time has come is sent, marked as failed, cancelled, deleted or
\* put off: neither crashes nor failures of other messages of the pass lose it.
DueIsSettled ==
    \A m \in Messages : status[m] = "pending" /\ due[m] ~> ~(status[m] = "pending" /\ due[m])
-----------------------------------------------------------------------------
(* Refinement                                                              *)

Taken(m) == \E p \in Passes : Holds(p, m)
Stage(m) ==
    CASE Taken(m) -> "taken"
      [] ~Taken(m) /\ status[m] = "none" -> "none"
      [] ~Taken(m) /\ status[m] = "pending" -> "waiting"
      [] ~Taken(m) /\ status[m] = "sent" -> "sent"
      [] OTHER -> "dropped"

Abstract == INSTANCE Outbox
    WITH stage <- [m \in Messages |-> Stage(m)], copies <- posted, again <- repeated

\* The scheduler, in all processes and with the senders' requests in between, is an
\* Outbox: in particular a message goes out of the hands of its pass posted only if it
\* is settled or repeated, one recorded as sent was posted, and no edit, cancellation
\* or failure brings a settled one back.
ImplementsOutbox == Abstract!Spec
=============================================================================
