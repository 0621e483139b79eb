------------------------- MODULE CallRecords_proof -------------------------
(* Proofs about CallRecords: for any users, calls and requests at one time,  *)
(* a settled call rings no callee and is settled for good, and what handlers  *)
(* take for granted about a call holds as long as their saves do not overlap.*)
EXTENDS CallRecords, SequenceTheorems, WellFoundedInduction, TLAPS

-----------------------------------------------------------------------------
(* Documents                                                               *)

States == {"ringing", "connected", "declined", "left"}

\* A set of numbers has a least one.
LEMMA Least ==
    ASSUME NEW T \in SUBSET Nat, T # {}
    PROVE  \E i \in T : \A j \in T : i <= j
  <1> DEFINE R == OpToRel(<, Nat)
  <1>1. \E x \in T : \A y \in T : ~ (<<y, x>> \in R)
    BY NatLessThanWellFounded, WFMin
  <1>2. \A x, y \in Nat : y < x => <<y, x>> \in R
    BY DEF OpToRel
  <1> HIDE DEF R
  <1>3. PICK x \in T : \A y \in T : ~ (<<y, x>> \in R)
    BY <1>1
  <1>4. ASSUME NEW j \in T PROVE x <= j
    <2>1. x \in Nat /\ j \in Nat
      OBVIOUS
    <2>2. ~(j < x)
      BY <1>2, <1>3, <2>1
    <2> QED
      BY <2>1, <2>2
  <1> QED
    BY <1>4

\* A document is its status and its entries, in positions from 1.
LEMMA DocParts ==
    ASSUME NEW d \in Doc
    PROVE  /\ d.status \in {"none", "ringing", "active", "declined", "ended"}
           /\ d.group \in BOOLEAN
           /\ d.people \in Seq(Entry) /\ Len(d.people) \in Nat
           /\ Places(d) = 1..Len(d.people)
           /\ d.people = [i \in 1..Len(d.people) |-> d.people[i]]
           /\ \A i \in Places(d) : /\ d.people[i] \in Entry /\ d.people[i].user \in Users
                                   /\ d.people[i].state \in States /\ d.people[i].gone \in BOOLEAN
  <1>1. /\ d.status \in {"none", "ringing", "active", "declined", "ended"}
        /\ d.group \in BOOLEAN /\ d.people \in Seq(Entry)
    BY DEF Doc
  <1>2. Len(d.people) \in Nat /\ DOMAIN d.people = 1..Len(d.people)
    BY <1>1
  <1>3. d.people = [i \in 1..Len(d.people) |-> d.people[i]]
    BY <1>1
  <1>4. \A i \in 1..Len(d.people) : d.people[i] \in Entry
    BY <1>1
  <1>5. \A e \in Entry : e.user \in Users /\ e.state \in States /\ e.gone \in BOOLEAN
    BY DEF Entry, States
  <1> QED
    BY <1>1, <1>2, <1>3, <1>4, <1>5 DEF Places

\* An array of entries makes a document with any status and type.
LEMMA DocFrom ==
    ASSUME NEW n \in Nat, NEW f \in [1..n -> Entry], NEW g \in BOOLEAN,
           NEW s \in {"none", "ringing", "active", "declined", "ended"}
    PROVE  /\ [status |-> s, group |-> g, people |-> f] \in Doc
           /\ Len(f) = n /\ DOMAIN f = 1..n
  BY DEF Doc

\* The first entry of a user who is listed is an entry of that user.
LEMMA FirstIs ==
    ASSUME NEW d \in Doc, NEW u, Lists(d, u)
    PROVE  First(d, u) \in Places(d) /\ d.people[First(d, u)].user = u
  <1> DEFINE T == {i \in Places(d) : d.people[i].user = u}
  <1>0. Places(d) \subseteq Nat
    <2>1. Places(d) = 1..Len(d.people) /\ Len(d.people) \in Nat
      BY DocParts
    <2> QED
      BY <2>1
  <1>1. T \in SUBSET Nat /\ T # {}
    BY <1>0 DEF Lists
  <1>2. \E i \in T : \A j \in T : i <= j
    BY <1>1, Least
  <1> QED
    BY <1>2 DEF First

\* A document that was created: it has an initiator, and its entries that ring are
\* in the call.
Created(d) ==
    /\ d \in Doc /\ d.status # "none" /\ Len(d.people) > 0
    /\ \A i \in Places(d) : d.people[i].state = "ringing" => ~d.people[i].gone

\* What a document may become: entries are added and keep their users, and none
\* begins to ring.
Grown(now, before) ==
    /\ Len(before.people) <= Len(now.people)
    /\ \A i \in Places(now) :
          /\ i \in Places(before) => now.people[i].user = before.people[i].user
          /\ now.people[i].state = "ringing" =>
                i \in Places(before) /\ before.people[i].state = "ringing"

\* The positions there were are there still.
LEMMA GrownPlaces ==
    ASSUME NEW d \in Doc, NEW e \in Doc, Grown(d, e)
    PROVE  Places(e) \subseteq Places(d)
  <1>1. /\ Places(d) = 1..Len(d.people) /\ Len(d.people) \in Nat
        /\ Places(e) = 1..Len(e.people) /\ Len(e.people) \in Nat
    BY DocParts
  <1> QED
    BY <1>1 DEF Grown

\* Its initiator stays.
LEMMA GrownInitiator ==
    ASSUME NEW d \in Doc, NEW e, Created(e), Grown(d, e)
    PROVE  1 \in Places(e) /\ 1 \in Places(d) /\ Initiator(d) = Initiator(e)
  <1>1. e \in Doc /\ Len(e.people) > 0
    BY DEF Created
  <1>2. Places(e) = 1..Len(e.people) /\ Len(e.people) \in Nat
    BY <1>1, DocParts
  <1>3. 1 \in Places(e)
    BY <1>1, <1>2
  <1>4. 1 \in Places(d)
    BY <1>1, <1>3, GrownPlaces
  <1> QED
    BY <1>3, <1>4 DEF Grown, Initiator

\* It does so step by step.
LEMMA GrownTwice ==
    ASSUME NEW c \in Doc, NEW d \in Doc, NEW e \in Doc, Grown(c, d), Grown(d, e)
    PROVE  Grown(c, e)
  <1>1. Places(e) \subseteq Places(d) /\ Places(d) \subseteq Places(c)
    BY GrownPlaces
  <1>2. Len(e.people) <= Len(c.people)
    <2>1. Len(c.people) \in Nat /\ Len(d.people) \in Nat /\ Len(e.people) \in Nat
      BY DocParts
    <2> QED
      BY <2>1 DEF Grown
  <1> QED
    BY <1>1, <1>2 DEF Grown

\* An entry that is marked gets the new state, or keeps one that is not "ringing"
\* either; the others stay as they are.
LEMMA MarkedIs ==
    ASSUME NEW d, Created(d), NEW e, Created(e), Grown(d, e),
           NEW i \in Places(e), NEW s \in States \ {"ringing"}, NEW g \in BOOLEAN
    PROVE  LET m == MarkedAt(d, e, i, s, g) IN
           /\ m \in Doc /\ m.status = d.status /\ Len(m.people) = Len(d.people)
           /\ Places(m) = Places(d) /\ i \in Places(d)
           /\ \A j \in Places(d) : /\ m.people[j].user = d.people[j].user
                                   /\ j # i => m.people[j] = d.people[j]
           /\ m.people[i].state = Assigned(s, e.people[i].state, d.people[i].state)
           /\ m.people[i].state # "ringing" /\ m.people[i].gone = g
  <1> DEFINE x == Marked(d.people[i], e.people[i], s, g)
             f == [d.people EXCEPT ![i] = x]
  <1>0. d \in Doc /\ e \in Doc
    BY DEF Created
  <1>1. i \in Places(d)
    BY <1>0, GrownPlaces
  <1>2. /\ x \in Entry /\ x.user = d.people[i].user /\ x.gone = g
        /\ x.state = Assigned(s, e.people[i].state, d.people[i].state)
    BY <1>0, <1>1, DocParts DEF Marked, Assigned, Entry, States
  <1>3. x.state # "ringing"
    BY <1>1, <1>2 DEF Assigned, Grown
  <1>4. f \in [1..Len(d.people) -> Entry] /\ f[i] = x /\ \A j \in Places(d) : j # i => f[j] = d.people[j]
    BY <1>0, <1>1, <1>2, DocParts
  <1>5. MarkedAt(d, e, i, s, g) = [status |-> d.status, group |-> d.group, people |-> f]
    <2>1. d = [status |-> d.status, group |-> d.group, people |-> d.people]
      BY <1>0 DEF Doc
    <2>2. MarkedAt(d, e, i, s, g) = [d EXCEPT !.people = f]
      BY <1>0, <1>1 DEF MarkedAt, Doc
    <2> QED
      BY <2>1, <2>2
  <1> HIDE DEF x, f
  <1>6. /\ [status |-> d.status, group |-> d.group, people |-> f] \in Doc
        /\ Len(f) = Len(d.people) /\ DOMAIN f = 1..Len(d.people)
    BY <1>0, <1>4, DocFrom, DocParts
  <1> QED
    BY <1>0, <1>1, <1>2, <1>3, <1>4, <1>5, <1>6, DocParts DEF Places

\* What a save makes of a document, for whichever handler.
Kept(m, d) == Created(m) /\ Grown(m, d)

\* Marking an entry keeps the document one.
LEMMA MarkedKept ==
    ASSUME NEW d, Created(d), NEW e, Created(e), Grown(d, e),
           NEW i \in Places(e), NEW s \in States \ {"ringing"}, NEW g \in BOOLEAN
    PROVE  Kept(MarkedAt(d, e, i, s, g), d)
  <1> DEFINE m == MarkedAt(d, e, i, s, g)
  <1>1. /\ m \in Doc /\ m.status = d.status /\ Len(m.people) = Len(d.people)
        /\ Places(m) = Places(d) /\ i \in Places(d)
        /\ \A j \in Places(d) : /\ m.people[j].user = d.people[j].user
                                /\ j # i => m.people[j] = d.people[j]
        /\ m.people[i].state # "ringing"
    BY MarkedIs
  <1> HIDE DEF m
  <1>2. d \in Doc /\ Len(d.people) \in Nat
    BY DocParts DEF Created
  <1>4. Created(m)
    BY <1>1, <1>2 DEF Created
  <1>5. Grown(m, d)
    BY <1>1, <1>2 DEF Grown
  <1> QED
    BY <1>4, <1>5 DEF Kept, m

\* Another status, of one that was created, leaves the entries alone.
LEMMA StatusKept ==
    ASSUME NEW m, NEW d, Kept(m, d), NEW s \in {"ringing", "active", "declined", "ended"}
    PROVE  LET n == [m EXCEPT !.status = s] IN
           Kept(n, d) /\ n.status = s /\ n.people = m.people /\ Places(n) = Places(m)
  <1> DEFINE n == [m EXCEPT !.status = s]
  <1>1. n \in Doc /\ n.status = s /\ n.people = m.people
    BY DEF Kept, Created, Doc
  <1> HIDE DEF n
  <1>2. Kept(n, d) /\ Places(n) = Places(m)
    BY <1>1 DEF Kept, Created, Grown, Places, Initiator
  <1> QED
    BY <1>1, <1>2 DEF n

-----------------------------------------------------------------------------
(* What each handler makes of a document                                   *)

\* A document becomes settled only when no entry rings but its initiator's own.
Quiet(m, d) ==
    Settled(m) /\ ~Settled(d) => \A i \in Places(m) :
        m.people[i].state = "ringing" => m.people[i].user = Initiator(m)

\* An answer makes the call active, and leaves everybody where they are.
LEMMA AnsweredIs ==
    ASSUME NEW d, Created(d), NEW e, Created(e), Grown(d, e), NEW u, Lists(e, u)
    PROVE  LET m == Answered(d, e, u) IN
           /\ Kept(m, d) /\ m.status = "active"
           /\ Len(m.people) = Len(d.people) /\ Places(m) = Places(d)
           /\ \A i \in Places(d) : /\ m.people[i].gone = d.people[i].gone
                                   /\ \/ m.people[i] = d.people[i]
                                      \/ d = e /\ m.people[i].state = "connected"
                                      \/ d # e
  <1> DEFINE i == First(e, u)
             m == MarkedAt(d, e, i, "connected", d.people[i].gone)
             n == [m EXCEPT !.status = "active"]
  <1>1. d \in Doc /\ e \in Doc
    BY DEF Created
  <1>2. i \in Places(e) /\ i \in Places(d)
    BY <1>1, FirstIs, GrownPlaces
  <1>3. d.people[i].gone \in BOOLEAN /\ "connected" \in States \ {"ringing"}
    BY <1>1, <1>2, DocParts DEF States
  <1> HIDE DEF i
  <1>4. Kept(m, d)
    BY <1>2, <1>3, MarkedKept
  <1>5. /\ Len(m.people) = Len(d.people) /\ Places(m) = Places(d)
        /\ \A j \in Places(d) : j # i => m.people[j] = d.people[j]
        /\ m.people[i].state = Assigned("connected", e.people[i].state, d.people[i].state)
        /\ m.people[i].gone = d.people[i].gone
    BY <1>2, <1>3, MarkedIs
  <1>6. n = Answered(d, e, u)
    BY DEF Answered, i
  <1> HIDE DEF m
  <1>7. Kept(n, d) /\ n.status = "active" /\ n.people = m.people /\ Places(n) = Places(m)
    BY <1>4, StatusKept
  <1>8. d = e => m.people[i].state = "connected"
    BY <1>5 DEF Assigned
  <1> HIDE DEF n
  <1>9. \A j \in Places(d) : /\ n.people[j].gone = d.people[j].gone
                             /\ \/ n.people[j] = d.people[j]
                                \/ d = e /\ n.people[j].state = "connected"
                                \/ d # e
    BY <1>5, <1>7, <1>8
  <1> QED
    BY <1>5, <1>6, <1>7, <1>9

\* Marking the entry of a user who is listed, as declined or as left.
Departed(d, e, u, s) == MarkedAt(d, e, First(e, u), s, TRUE)

\* The entry is gone and does not ring, and nothing else changes.
LEMMA GoneIs ==
    ASSUME NEW d, Created(d), NEW e, Created(e), Grown(d, e), NEW u, Lists(e, u),
           NEW s \in {"declined", "left"}
    PROVE  LET i == First(e, u)
               m == Departed(d, e, u, s) IN
           /\ Kept(m, d) /\ m.status = d.status
           /\ Len(m.people) = Len(d.people) /\ Places(m) = Places(d)
           /\ i \in Places(e) /\ i \in Places(d)
           /\ m.people[i].gone /\ m.people[i].state # "ringing"
           /\ \A j \in Places(d) : j # i => m.people[j] = d.people[j]
  <1> DEFINE i == First(e, u)
             g == TRUE
             m == MarkedAt(d, e, i, s, g)
  <1>1. d \in Doc /\ e \in Doc
    BY DEF Created
  <1>2. i \in Places(e) /\ i \in Places(d)
    BY <1>1, FirstIs, GrownPlaces
  <1>3. s \in States \ {"ringing"} /\ g \in BOOLEAN
    BY DEF States
  <1> HIDE DEF i, g
  <1>4. Kept(m, d)
    BY <1>2, <1>3, MarkedKept
  <1>5. /\ Len(m.people) = Len(d.people) /\ Places(m) = Places(d) /\ m.status = d.status
        /\ \A j \in Places(d) : j # i => m.people[j] = d.people[j]
        /\ m.people[i].gone = g /\ m.people[i].state # "ringing"
    BY <1>2, <1>3, MarkedIs
  <1> QED
    BY <1>2, <1>4, <1>5 DEF i, g, Departed

\* What a rejection marks, before it looks at who is left.
Declining(d, e, u) ==
    IF Lists(e, u) THEN Departed(d, e, u, "declined") ELSE d

\* The entry of who rejects is gone, and nothing else changes.
LEMMA DecliningIs ==
    ASSUME NEW d, Created(d), NEW e, Created(e), Grown(d, e), NEW u
    PROVE  LET m == Declining(d, e, u) IN
           /\ Kept(m, d) /\ m.status = d.status
           /\ Len(m.people) = Len(d.people) /\ Places(m) = Places(d)
           /\ \A j \in Places(d) :
                 \/ m.people[j] = d.people[j] /\ (Lists(e, u) => j # First(e, u))
                 \/ /\ Lists(e, u) /\ j = First(e, u)
                    /\ m.people[j].gone /\ m.people[j].state # "ringing"
  <1>1. CASE Lists(e, u)
    <2> DEFINE i == First(e, u)
               m == Departed(d, e, u, "declined")
    <2>1. /\ Kept(m, d) /\ m.status = d.status
          /\ Len(m.people) = Len(d.people) /\ Places(m) = Places(d)
          /\ m.people[i].gone /\ m.people[i].state # "ringing"
          /\ \A j \in Places(d) : j # i => m.people[j] = d.people[j]
      BY <1>1, GoneIs
    <2>2. Declining(d, e, u) = m
      BY <1>1 DEF Declining
    <2> HIDE DEF m, i
    <2>3. \A j \in Places(d) :
             \/ m.people[j] = d.people[j] /\ j # i
             \/ j = i /\ m.people[j].gone /\ m.people[j].state # "ringing"
      BY <2>1
    <2> QED
      BY <1>1, <2>1, <2>2, <2>3 DEF i
  <1>2. CASE ~Lists(e, u)
    <2>1. Declining(d, e, u) = d
      BY <1>2 DEF Declining
    <2>2. Kept(d, d)
      <3>1. Len(d.people) \in Nat
        BY DocParts DEF Created
      <3> QED
        BY <3>1 DEF Kept, Grown
    <2> QED
      BY <1>2, <2>1, <2>2
  <1> QED
    BY <1>1, <1>2

\* A rejection settles the call when nobody else is still rung, whatever the others
\* wrote meanwhile, and never brings a settled call back.
LEMMA RejectedIs ==
    ASSUME NEW d, Created(d), NEW e, Created(e), Grown(d, e), NEW u
    PROVE  LET m == Rejected(d, e, u) IN
           /\ Kept(m, d) /\ m.status \in {d.status, "declined"}
           /\ Len(m.people) = Len(d.people) /\ Places(m) = Places(d)
           /\ Quiet(m, d)
           /\ d = e /\ Pending(e, u) = {} => m.status = "declined"
           /\ \A j \in Pending(e, u) : d = e => m.people[j] = d.people[j]
           /\ \A j \in Places(d) : m.people[j] = d.people[j] \/ m.people[j].gone
  <1> DEFINE m == Declining(d, e, u)
             n == [m EXCEPT !.status = Assigned("declined", e.status, @)]
             s == Assigned("declined", e.status, m.status)
  <1>1. /\ Kept(m, d) /\ m.status = d.status
        /\ Len(m.people) = Len(d.people) /\ Places(m) = Places(d)
        /\ \A j \in Places(d) :
              \/ m.people[j] = d.people[j] /\ (Lists(e, u) => j # First(e, u))
              \/ /\ Lists(e, u) /\ j = First(e, u)
                 /\ m.people[j].gone /\ m.people[j].state # "ringing"
    BY DecliningIs
  <1>2. Rejected(d, e, u) = IF Pending(e, u) = {} THEN n ELSE m
    BY DEF Rejected, Declining, Departed
  <1>3. d \in Doc /\ e \in Doc /\ d.status \in {"ringing", "active", "declined", "ended"}
    BY DocParts DEF Created
  <1> HIDE DEF m
  <1>4. s \in {"ringing", "active", "declined", "ended"} /\ s \in {d.status, "declined"}
    BY <1>1, <1>3 DEF Assigned
  <1>5. n = [m EXCEPT !.status = s]
    OBVIOUS
  <1>6. Kept(n, d) /\ n.status = s /\ n.people = m.people /\ Places(n) = Places(m)
    BY <1>1, <1>4, <1>5, StatusKept
  <1>7. \A j \in Pending(e, u) : d = e => m.people[j] = d.people[j]
    BY <1>1 DEF Pending
  <1>8. CASE Pending(e, u) # {}
    <2>1. Quiet(m, d)
      BY <1>1 DEF Quiet, Settled
    <2> QED
      BY <1>1, <1>2, <1>7, <1>8, <2>1
  <1>9. CASE Pending(e, u) = {}
    <2>0. /\ Initiator(m) = Initiator(d) /\ Initiator(d) = Initiator(e)
          /\ Initiator(n) = Initiator(m)
      BY <1>1, <1>3, <1>6, GrownInitiator DEF Kept, Created, Initiator
    <2>1. ASSUME NEW j \in Places(d), m.people[j].state = "ringing"
          PROVE  m.people[j].user = Initiator(m)
      <3>1. m.people[j] = d.people[j] /\ (Lists(e, u) => j # First(e, u))
        BY <1>1, <2>1
      <3>2. /\ j \in Places(e) /\ e.people[j].state = "ringing"
            /\ d.people[j].user = e.people[j].user
        BY <2>1, <3>1 DEF Grown
      <3>3. e.people[j].user = Initiator(e)
        BY <1>9, <3>1, <3>2 DEF Pending
      <3> QED
        BY <2>0, <3>1, <3>2, <3>3
    <2>2. Quiet(n, d)
      BY <1>1, <1>6, <2>0, <2>1 DEF Quiet
    <2>3. d = e => s = "declined"
      BY <1>1 DEF Assigned
    <2> HIDE DEF n, s
    <2> QED
      BY <1>1, <1>2, <1>4, <1>6, <1>7, <1>9, <2>2, <2>3
  <1> QED
    BY <1>8, <1>9

\* Who leaves is gone, and nothing else changes.
LEMMA LeftIs ==
    ASSUME NEW d, Created(d), NEW e, Created(e), Grown(d, e), NEW u, Lists(e, u)
    PROVE  LET m == LeftBy(d, e, u) IN
           /\ Kept(m, d) /\ m.status = d.status
           /\ Len(m.people) = Len(d.people) /\ Places(m) = Places(d)
           /\ m.people[First(e, u)].gone
           /\ \A j \in Places(d) : j # First(e, u) => m.people[j] = d.people[j]
  <1>1. LeftBy(d, e, u) = Departed(d, e, u, "left")
    BY DEF LeftBy, Departed
  <1> QED
    BY <1>1, GoneIs

\* The end of a call takes everybody who was in the document that was read.
LEMMA EndedIs ==
    ASSUME NEW d, Created(d), NEW e, Created(e), Grown(d, e)
    PROVE  LET m == Ended(d, e) IN
           /\ Kept(m, d) /\ m.status \in {d.status, "ended"} /\ (d = e => m.status = "ended")
           /\ Len(m.people) = Len(d.people) /\ Places(m) = Places(d)
           /\ Quiet(m, d)
           /\ \A i \in Places(d) :
                 IF i \in Places(e) /\ ~e.people[i].gone THEN m.people[i].gone
                 ELSE m.people[i] = d.people[i]
  <1> DEFINE x(i) == Marked(d.people[i], e.people[i], "left", TRUE)
             f == [i \in Places(d) |-> IF i \in Places(e) /\ ~e.people[i].gone
                                          THEN x(i) ELSE d.people[i]]
             s == Assigned("ended", e.status, d.status)
             m == [status |-> s, group |-> d.group, people |-> f]
  <1>0. Ended(d, e) = m
    BY DEF Ended
  <1>1. d \in Doc /\ e \in Doc
    BY DEF Created
  <1>2. /\ d.status \in {"ringing", "active", "declined", "ended"}
        /\ Places(d) = 1..Len(d.people) /\ Len(d.people) \in Nat /\ Len(d.people) > 0
        /\ d.group \in BOOLEAN
    BY <1>1, DocParts DEF Created
  <1>3. s \in {"ringing", "active", "declined", "ended"} /\ s \in {d.status, "ended"}
        /\ (d = e => s = "ended")
    BY <1>2 DEF Assigned
  <1>4. ASSUME NEW i \in Places(d), i \in Places(e)
        PROVE  /\ x(i) \in Entry /\ x(i).user = d.people[i].user /\ x(i).gone
               /\ x(i).state # "ringing"
    <2>1. /\ d.people[i] \in Entry /\ e.people[i] \in Entry
      BY <1>1, <1>4, DocParts
    <2>2. d.people[i].state = "ringing" => e.people[i].state = "ringing"
      BY DEF Grown
    <2>3. /\ x(i).user = d.people[i].user /\ x(i).gone
          /\ x(i).state = Assigned("left", e.people[i].state, d.people[i].state)
          /\ x(i) \in Entry
      BY <2>1 DEF Marked, Entry, Assigned
    <2> QED
      BY <2>2, <2>3 DEF Assigned
  <1> HIDE DEF x, s
  <1>5. \A i \in Places(d) : d.people[i] \in Entry
    BY <1>1, DocParts
  <1>6. f \in [1..Len(d.people) -> Entry]
    BY <1>2, <1>4, <1>5
  <1>7. m \in Doc /\ Len(f) = Len(d.people) /\ Places(m) = Places(d)
    BY <1>2, <1>3, <1>6, DocFrom DEF Places
  <1>8. m.status = s /\ m.people = f
    OBVIOUS
  <1>9. \A i \in Places(d) :
           IF i \in Places(e) /\ ~e.people[i].gone
             THEN /\ f[i].gone /\ f[i].state # "ringing" /\ f[i].user = d.people[i].user
             ELSE f[i] = d.people[i]
    BY <1>4
  <1> HIDE DEF f, m
  <1>12. ASSUME NEW i \in Places(d), f[i].state = "ringing" PROVE f[i] = d.people[i]
    BY <1>9, <1>12
  <1>13. Created(m)
    BY <1>2, <1>3, <1>7, <1>8, <1>12 DEF Created
  <1>14. Grown(m, d)
    BY <1>2, <1>7, <1>8, <1>9, <1>12 DEF Grown
  <1>15. ASSUME NEW i \in Places(d), f[i].state = "ringing" PROVE FALSE
    <2>1. f[i] = d.people[i] /\ d.people[i].state = "ringing"
      BY <1>12, <1>15
    <2>2. i \in Places(e) /\ e.people[i].state = "ringing"
      BY <2>1 DEF Grown
    <2>3. ~e.people[i].gone
      BY <2>2 DEF Created
    <2> QED
      BY <1>9, <1>15, <2>2, <2>3
  <1>16. Quiet(m, d)
    BY <1>7, <1>8, <1>15 DEF Quiet
  <1>17. \A i \in Places(d) :
           IF i \in Places(e) /\ ~e.people[i].gone THEN m.people[i].gone
           ELSE m.people[i] = d.people[i]
    BY <1>8, <1>9
  <1> QED
    BY <1>0, <1>3, <1>7, <1>8, <1>13, <1>14, <1>16, <1>17 DEF Kept

\* Who joins is in the call, in the entry there was or in one that is added.
LEMMA JoinedIs ==
    ASSUME NEW d, Created(d), NEW e, Created(e), Grown(d, e), NEW u \in Users
    PROVE  LET m == Joined(d, e, u) IN
           /\ Kept(m, d) /\ m.status = d.status
           /\ Lists(e, u) => Len(m.people) = Len(d.people) /\ Places(m) = Places(d)
           /\ ~Lists(e, u) => /\ Len(m.people) = Len(d.people) + 1
                              /\ Places(m) = Places(d) \cup {Len(d.people) + 1}
                              /\ m.people[Len(d.people) + 1].user = u
                              /\ Len(d.people) + 1 \notin Places(d)
           /\ \A i \in Places(m) :
                 \/ ~m.people[i].gone /\ (m.people[i].state = "connected" \/ d # e)
                 \/ i \in Places(d) /\ m.people[i] = d.people[i]
           /\ \E i \in Places(m) : ~m.people[i].gone
  <1>1. d \in Doc /\ e \in Doc
    BY DEF Created
  <1>2. /\ Places(d) = 1..Len(d.people) /\ Len(d.people) \in Nat /\ Len(d.people) > 0
        /\ d.people \in Seq(Entry)
    BY <1>1, DocParts DEF Created
  <1>3. CASE Lists(e, u)
    <2> DEFINE i == First(e, u)
               g == FALSE
               m == MarkedAt(d, e, i, "connected", g)
    <2>1. Joined(d, e, u) = m
      BY <1>3 DEF Joined
    <2>2. i \in Places(e) /\ i \in Places(d)
      BY <1>1, <1>3, FirstIs, GrownPlaces
    <2>3. "connected" \in States \ {"ringing"} /\ g \in BOOLEAN
      BY DEF States
    <2> HIDE DEF i, g
    <2>4. Kept(m, d)
      BY <2>2, <2>3, MarkedKept
    <2>5. /\ m.status = d.status /\ Len(m.people) = Len(d.people) /\ Places(m) = Places(d)
          /\ \A j \in Places(d) : j # i => m.people[j] = d.people[j]
          /\ m.people[i].state = Assigned("connected", e.people[i].state, d.people[i].state)
          /\ m.people[i].gone = g
      BY <2>2, <2>3, MarkedIs
    <2> HIDE DEF m
    <2>6. ~m.people[i].gone /\ (d = e => m.people[i].state = "connected")
      BY <2>5 DEF g, Assigned
    <2> QED
      BY <1>3, <2>1, <2>2, <2>4, <2>5, <2>6
  <1>4. CASE ~Lists(e, u)
    <2> DEFINE n == Len(d.people) + 1
               x == [user |-> u, state |-> "connected", gone |-> FALSE]
               f == Append(d.people, x)
               m == [d EXCEPT !.people = f]
    <2>1. Joined(d, e, u) = m
      BY <1>4 DEF Joined
    <2>2. x \in Entry /\ x.user = u /\ x.state = "connected" /\ ~x.gone
      BY DEF Entry
    <2> HIDE DEF x
    <2>3. /\ f \in Seq(Entry) /\ Len(f) = n /\ f[n] = x
          /\ \A i \in 1..Len(d.people) : f[i] = d.people[i]
      BY <1>2, <2>2
    <2> HIDE DEF f
    <2>4. m \in Doc /\ m.people = f /\ m.status = d.status
      BY <1>1, <2>3 DEF Doc
    <2> HIDE DEF m
    <2>5. Places(m) = 1..n /\ n \notin Places(d) /\ Places(m) = Places(d) \cup {n} /\ 1 \in Places(d)
      <3>1. Places(m) = 1..n
        BY <2>3, <2>4 DEF Places
      <3> QED
        BY <1>2, <3>1
    <2>6. \A i \in Places(m) :
             \/ i = n /\ m.people[i] = x
             \/ i \in Places(d) /\ m.people[i] = d.people[i]
      BY <1>2, <2>3, <2>4, <2>5
    <2>8. Created(m)
      <3>1. m.status # "none" /\ Len(m.people) > 0
        BY <1>2, <2>3, <2>4 DEF Created
      <3> QED
        BY <2>2, <2>4, <2>6, <3>1 DEF Created
    <2>9. Grown(m, d)
      <3>1. Len(d.people) <= Len(m.people)
        BY <1>2, <2>3, <2>4
      <3>2. \A i \in Places(m) :
              /\ i \in Places(d) => m.people[i].user = d.people[i].user
              /\ m.people[i].state = "ringing" => i \in Places(d) /\ d.people[i].state = "ringing"
        BY <2>2, <2>5, <2>6
      <3> QED
        BY <3>1, <3>2 DEF Grown
    <2>10. \A i \in Places(m) :
              \/ ~m.people[i].gone /\ m.people[i].state = "connected"
              \/ i \in Places(d) /\ m.people[i] = d.people[i]
      BY <2>2, <2>6
    <2>11. n \in Places(m) /\ m.people[n] = x /\ Len(m.people) = n
      BY <2>3, <2>4, <2>5
    <2> HIDE DEF n
    <2>12. n = Len(d.people) + 1
      BY DEF n
    <2> QED
      BY <1>4, <2>1, <2>2, <2>4, <2>5, <2>8, <2>9, <2>10, <2>11, <2>12 DEF Kept
  <1> QED
    BY <1>3, <1>4

-----------------------------------------------------------------------------
(* Types                                                                   *)

Saving == {"answer", "reject", "end", "join", "leave"}

\* Who remains when one leaves: two others at least.
TwoOthers(d, u) ==
    \E i, j \in Places(d) \ {First(d, u)} : i # j /\ ~d.people[i].gone /\ ~d.people[j].gone

\* What a handler knows of the document it has read, which has grown since.
Reading(r) ==
    /\ r.user \in Users /\ r.call \in Calls
    /\ Created(r.read) /\ Created(call[r.call]) /\ Grown(call[r.call], r.read)
    /\ r.at \in {"answer", "leave"} => Lists(r.read, r.user)
    /\ r.at = "answer" => r.read.status = "ringing"
    /\ r.at = "leave" => TwoOthers(r.read, r.user)
Creating(r) == r.user \in Users /\ r.asked \in Invitations

Requests ==
    /\ request = [w \in Workers |-> request[w]]
    /\ \A w \in Workers :
          /\ request[w].at \in Saving \cup {"idle", "create"}
          /\ request[w].read \in Doc
          /\ request[w].at = "create" => Creating(request[w])
          /\ request[w].at \in Saving => Reading(request[w])
Documents == call \in [Calls -> Doc] /\ \A c \in Calls : call[c] = Missing \/ Created(call[c])
Types == TypeOK /\ Requests /\ Documents

\* A document that is missing is one, and was not created.
LEMMA MissingIs == Missing \in Doc /\ Missing.status = "none" /\ Places(Missing) = {}
  <1>1. <<>> \in Seq(Entry) /\ DOMAIN <<>> = {}
    OBVIOUS
  <1> QED
    BY <1>1 DEF Missing, Doc, Places

\* An idle worker has nothing to save.
LEMMA IdleIs == Idle.at = "idle" /\ Idle.read = Missing /\ Idle.read \in Doc
  BY MissingIs DEF Idle

\* Nothing was created and nothing read at the start.
LEMMA InitTypes == Init => Types
  <1> SUFFICES ASSUME Init PROVE Types
    OBVIOUS
  <1>1. Requests
    BY IdleIs DEF Init, Requests, Saving
  <1>2. Documents
    BY MissingIs DEF Init, Documents
  <1>3. TypeOK
    BY <1>1, <1>2, BoundAssumption DEF Init, TypeOK, Requests, Documents
  <1> QED
    BY <1>1, <1>2, <1>3 DEF Types

\* A handler that reads a document and passes its checks.
Reads(w, at, u, c) ==
    /\ Asks(w, at, u, c)
    /\ at \in {"answer", "leave"} => Lists(call[c], u)
    /\ at = "answer" => call[c].status = "ringing"
    /\ at = "leave" => TwoOthers(call[c], u)

\* The steps there are.
LEMMA Steps ==
    ASSUME Next
    PROVE  \E w \in Workers :
              \/ \E u \in Users, callees \in Invitations : InitiateCall(w, u, callees)
              \/ \E u \in Users, c \in Calls, at \in Saving : Reads(w, at, u, c)
              \/ Create(w) \/ Save(w) \/ RequestFails(w)
  <1>1. PICK w \in Workers : (\E u \in Users : Ask(w, u)) \/ Create(w) \/ Save(w) \/ RequestFails(w)
    BY DEF Next
  <1>3. ASSUME NEW u \in Users, NEW c \in Calls,
               \/ AnswerCall(w, u, c) \/ RejectCall(w, u, c) \/ EndCall(w, u, c)
               \/ JoinCall(w, u, c) \/ LeaveCall(w, u, c)
        PROVE  \E at \in Saving : Reads(w, at, u, c)
    <2>1. CASE AnswerCall(w, u, c)
      BY <2>1 DEF AnswerCall, Reads, Saving
    <2>2. CASE RejectCall(w, u, c)
      BY <2>2 DEF RejectCall, Reads, Saving
    <2>3. CASE EndCall(w, u, c)
      BY <2>3 DEF EndCall, Reads, Saving
    <2>4. CASE JoinCall(w, u, c)
      BY <2>4 DEF JoinCall, Reads, Saving
    <2>5. CASE LeaveCall(w, u, c)
      BY <2>5 DEF LeaveCall, Reads, Saving, TwoOthers
    <2> QED
      BY <1>3, <2>1, <2>2, <2>3, <2>4, <2>5
  <1>4. ASSUME NEW u \in Users, Ask(w, u)
        PROVE  \/ \E callees \in Invitations : InitiateCall(w, u, callees)
               \/ \E c \in Calls, at \in Saving : Reads(w, at, u, c)
    BY <1>3, <1>4 DEF Ask
  <1> QED
    BY <1>1, <1>4

\* What a save makes of the document keeps it one.
LEMMA WrittenIs ==
    ASSUME Types, NEW w \in Workers, request[w].at \in Saving
    PROVE  LET r == request[w]
               d == call[r.call]
               m == Written(r, d) IN
           /\ Kept(m, d) /\ Quiet(m, d)
           /\ Settled(d) /\ r.at # "answer" => Settled(m)
  <1> DEFINE r == request[w]
             d == call[r.call]
             m == Written(r, d)
  <1>1. Reading(r)
    BY DEF Types, Requests
  <1>2. /\ Created(d) /\ Created(r.read) /\ Grown(d, r.read) /\ r.user \in Users
        /\ r.at \in {"answer", "leave"} => Lists(r.read, r.user)
    BY <1>1 DEF Reading
  <1> HIDE DEF r, d
  <1>3. CASE r.at = "answer"
    <2>1. m = Answered(d, r.read, r.user)
      BY <1>3 DEF Written
    <2>2. Kept(m, d) /\ m.status = "active"
      BY <1>2, <1>3, <2>1, AnsweredIs
    <2> QED
      BY <1>3, <2>2 DEF Quiet, Settled, r, d
  <1>4. CASE r.at = "reject"
    <2>1. m = Rejected(d, r.read, r.user)
      BY <1>4 DEF Written
    <2>2. Kept(m, d) /\ Quiet(m, d) /\ m.status \in {d.status, "declined"}
      BY <1>2, <2>1, RejectedIs
    <2> QED
      BY <2>2 DEF Settled, r, d
  <1>5. CASE r.at = "end"
    <2>1. m = Ended(d, r.read)
      BY <1>5 DEF Written
    <2>2. Kept(m, d) /\ Quiet(m, d) /\ m.status \in {d.status, "ended"}
      BY <1>2, <2>1, EndedIs
    <2> QED
      BY <2>2 DEF Settled, r, d
  <1>6. CASE r.at = "join"
    <2>1. m = Joined(d, r.read, r.user)
      BY <1>6 DEF Written
    <2>2. Kept(m, d) /\ m.status = d.status
      BY <1>2, <2>1, JoinedIs
    <2> QED
      BY <2>2 DEF Quiet, Settled, r, d
  <1>7. CASE r.at = "leave"
    <2>1. m = LeftBy(d, r.read, r.user)
      BY <1>7 DEF Written
    <2>2. Kept(m, d) /\ m.status = d.status
      BY <1>2, <1>7, <2>1, LeftIs
    <2> QED
      BY <2>2 DEF Quiet, Settled, r, d
  <1>8. r.at \in Saving
    BY DEF r
  <1> QED
    BY <1>3, <1>4, <1>5, <1>6, <1>7, <1>8 DEF Saving

\* The document that initiateCall saves: its caller first, then its callees, who ring.
NewCall(u, asked, group) ==
    [status |-> "ringing", group |-> group, people |->
        <<[user |-> u, state |-> "connected", gone |-> FALSE]>>
            \o [i \in 1..Len(asked) |-> [user |-> asked[i], state |-> "ringing", gone |-> FALSE]]]

\* It is a document, in which nobody is gone.
LEMMA NewCallIs ==
    ASSUME NEW u \in Users, NEW asked \in Invitations, NEW group \in BOOLEAN
    PROVE  LET d == NewCall(u, asked, group) IN
           /\ Created(d) /\ d.status = "ringing" /\ Initiator(d) = u
           /\ Places(d) = 1..(Len(asked) + 1) /\ Len(asked) \in Nat
           /\ d.people[1].user = u /\ d.people[1].state = "connected"
           /\ \A i \in 2..(Len(asked) + 1) :
                 /\ i - 1 \in DOMAIN asked
                 /\ d.people[i].user = asked[i - 1] /\ d.people[i].state = "ringing"
           /\ \A i \in Places(d) : ~d.people[i].gone
  <1> DEFINE x == [user |-> u, state |-> "connected", gone |-> FALSE]
             y(i) == [user |-> asked[i], state |-> "ringing", gone |-> FALSE]
             f == [i \in 1..Len(asked) |-> y(i)]
             p == <<x>> \o f
             d == [status |-> "ringing", group |-> group, people |-> p]
  <1>0. NewCall(u, asked, group) = d
    BY DEF NewCall
  <1>1. /\ asked \in Seq(Users) /\ Len(asked) \in Nat
        /\ DOMAIN asked = 1..Len(asked) /\ \A i \in 1..Len(asked) : asked[i] \in Users
    <2>1. asked \in Seq(Users)
      BY InvitationAssumption
    <2> QED
      BY <2>1
  <1>2. x \in Entry /\ x.user = u /\ x.state = "connected" /\ x.state # "ringing" /\ ~x.gone
    BY DEF Entry
  <1>3. \A i \in 1..Len(asked) : /\ y(i) \in Entry /\ y(i).user = asked[i]
                                 /\ y(i).state = "ringing" /\ ~y(i).gone
    BY <1>1 DEF Entry
  <1> HIDE DEF x, y
  <1>4. f \in Seq(Entry) /\ Len(f) = Len(asked) /\ <<x>> \in Seq(Entry) /\ Len(<<x>>) = 1
    BY <1>1, <1>2, <1>3
  <1>5. f = [i \in 1..Len(asked) |-> y(i)] /\ <<x>>[1] = x
    OBVIOUS
  <1> HIDE DEF f
  <1>6. /\ p \in Seq(Entry) /\ Len(p) = 1 + Len(asked)
        /\ \A i \in 1..Len(p) : p[i] = IF i <= 1 THEN <<x>>[i] ELSE f[i - 1]
    BY <1>4, ConcatProperties
  <1> HIDE DEF p
  <1>7. d \in Doc /\ d.people = p /\ d.status = "ringing"
    BY <1>6 DEF Doc
  <1> HIDE DEF d
  <1>8. Places(d) = 1..(Len(asked) + 1) /\ 1 \in Places(d)
    <2>1. DOMAIN p = 1..Len(p)
      BY <1>6
    <2> QED
      BY <1>1, <1>6, <1>7, <2>1 DEF Places
  <1>9. p[1] = x
    BY <1>1, <1>5, <1>6
  <1>10. \A i \in 2..(Len(asked) + 1) : i - 1 \in 1..Len(asked) /\ p[i] = y(i - 1)
    BY <1>1, <1>5, <1>6
  <1>11. \A i \in Places(d) : i = 1 \/ i \in 2..(Len(asked) + 1)
    BY <1>1, <1>8
  <1>12. Initiator(d) = u
    BY <1>2, <1>7, <1>9 DEF Initiator
  <1>13. \A i \in 2..(Len(asked) + 1) :
            /\ i - 1 \in DOMAIN asked
            /\ p[i].user = asked[i - 1] /\ p[i].state = "ringing" /\ ~p[i].gone
    BY <1>1, <1>3, <1>10
  <1>14. \A i \in Places(d) : ~d.people[i].gone
    BY <1>2, <1>7, <1>9, <1>11, <1>13
  <1>15. Created(d)
    <2>1. Len(d.people) > 0
      BY <1>1, <1>6, <1>7
    <2> QED
      BY <1>7, <1>14, <2>1 DEF Created
  <1> QED
    BY <1>0, <1>1, <1>2, <1>7, <1>8, <1>9, <1>12, <1>13, <1>14, <1>15

\* Every document has grown since it was read, if only by nothing.
LEMMA GrownSelf == ASSUME NEW d, Created(d) PROVE Grown(d, d)
  <1>1. Len(d.people) \in Nat
    BY DocParts DEF Created
  <1> QED
    BY <1>1 DEF Grown

\* The document that is created, by name.
LEMMA CreateIs ==
    ASSUME Types, NEW w \in Workers, Create(w)
    PROVE  /\ Creating(request[w])
           /\ \A g \in BOOLEAN : Created(NewCall(request[w].user, request[w].asked, g))
           /\ \E c \in Calls, g \in BOOLEAN :
                 /\ call[c] = Missing
                 /\ call' = [call EXCEPT ![c] = NewCall(request[w].user, request[w].asked, g)]
           /\ request[w].at = "create" /\ request' = [request EXCEPT ![w] = Idle]
           /\ UNCHANGED <<requests, stale, hasty>>
  <1>1. Creating(request[w])
    BY DEF Create, Types, Requests
  <1>2. \A g \in BOOLEAN : Created(NewCall(request[w].user, request[w].asked, g))
    BY <1>1, NewCallIs DEF Creating
  <1> QED
    BY <1>1, <1>2 DEF Create, Answer, NewCall

\* Every step keeps the types, and what the handlers know of what they have read.
LEMMA TypeStep == Types /\ [Next]_vars => Types'
  <1> SUFFICES ASSUME Types, [Next]_vars PROVE Types'
    OBVIOUS
  <1>0. /\ \A w \in Workers : \A r : request' = [request EXCEPT ![w] = r] =>
              /\ request'[w] = r /\ \A v \in Workers \ {w} : request'[v] = request[v]
              /\ request' = [v \in Workers |-> request'[v]]
    BY DEF Types, Requests
  <1>1. ASSUME NEW w \in Workers, NEW u \in Users, NEW callees \in Invitations,
               InitiateCall(w, u, callees)
        PROVE  Types'
    <2> DEFINE r == [Idle EXCEPT !.at = "create", !.user = u, !.asked = callees]
    <2>1. /\ request'[w] = r /\ \A v \in Workers \ {w} : request'[v] = request[v]
          /\ request' = [v \in Workers |-> request'[v]]
      BY <1>0, <1>1 DEF InitiateCall
    <2>2. r.at = "create" /\ r.user = u /\ r.asked = callees /\ r.read \in Doc
      BY IdleIs DEF Idle
    <2> HIDE DEF r
    <2>3. UNCHANGED <<call, stale>> /\ requests' \in 0..MaxRequests /\ hasty' \subseteq Users
      BY <1>1, BoundAssumption DEF InitiateCall, NewRequest, Types, TypeOK
    <2>4. Requests'
      BY <1>1, <2>1, <2>2, <2>3 DEF Types, Requests, Creating, Reading, Saving
    <2> QED
      BY <2>3, <2>4 DEF Types, TypeOK, Documents, Requests
  <1>2. ASSUME NEW w \in Workers, NEW u \in Users, NEW c \in Calls, NEW at \in Saving,
               Reads(w, at, u, c)
        PROVE  Types'
    <2> DEFINE r == [at |-> at, user |-> u, call |-> c, read |-> call[c], asked |-> <<>>]
    <2>1. /\ request'[w] = r /\ \A v \in Workers \ {w} : request'[v] = request[v]
          /\ request' = [v \in Workers |-> request'[v]]
      BY <1>0, <1>2 DEF Reads, Asks, Holds
    <2>2. r.at = at /\ r.user = u /\ r.call = c /\ r.read = call[c]
      OBVIOUS
    <2> HIDE DEF r
    <2>3. UNCHANGED <<call, stale, hasty>> /\ requests' \in 0..MaxRequests /\ call[c] # Missing
      BY <1>2, BoundAssumption DEF Reads, Asks, NewRequest, Types, TypeOK
    <2>4. Created(call[c]) /\ call[c] \in Doc /\ Grown(call[c], call[c])
      BY <2>3, GrownSelf DEF Types, Documents, Created
    <2>5. Reading(r)
      BY <1>2, <2>2, <2>4 DEF Reads, Reading
    <2>6. Requests'
      BY <2>1, <2>2, <2>3, <2>4, <2>5 DEF Types, Requests, Creating, Reading, Saving
    <2> QED
      BY <2>3, <2>6 DEF Types, TypeOK, Documents, Requests
  <1>3. ASSUME NEW w \in Workers, Create(w) PROVE Types'
    <2>0. PICK c \in Calls, g \in BOOLEAN :
             /\ call[c] = Missing
             /\ call' = [call EXCEPT ![c] = NewCall(request[w].user, request[w].asked, g)]
      BY <1>3, CreateIs
    <2> DEFINE n == NewCall(request[w].user, request[w].asked, g)
    <2>1. Created(n) /\ request' = [request EXCEPT ![w] = Idle] /\ UNCHANGED <<requests, stale, hasty>>
      BY <1>3, CreateIs
    <2>2. call[c] = Missing /\ call' = [call EXCEPT ![c] = n]
      BY <2>0
    <2> HIDE DEF n
    <2>3. Documents'
      BY <2>1, <2>2 DEF Types, Documents, Created
    <2>4. ASSUME NEW v \in Workers, request[v].at \in Saving PROVE call'[request[v].call] = call[request[v].call]
      <3>1. request[v].call # c
        BY <2>2, <2>4, MissingIs DEF Types, Requests, Reading, Created
      <3> QED
        BY <2>2, <3>1
    <2>5. /\ request'[w] = Idle /\ \A v \in Workers \ {w} : request'[v] = request[v]
          /\ request' = [v \in Workers |-> request'[v]]
      BY <1>0, <2>1
    <2>6. Requests'
      BY <2>4, <2>5, IdleIs DEF Types, Requests, Creating, Reading, Saving
    <2> QED
      BY <2>1, <2>3, <2>6 DEF Types, TypeOK, Documents, Requests
  <1>4. ASSUME NEW w \in Workers, Save(w) PROVE Types'
    <2> DEFINE r == request[w]
               m == Written(r, call[r.call])
    <2>1. r.at \in Saving
      BY <1>4 DEF Save, Saving
    <2>2. Kept(m, call[r.call]) /\ Reading(r)
      BY <2>1, WrittenIs DEF Types, Requests
    <2>3. /\ call' = [call EXCEPT ![r.call] = m]
          /\ request' = [request EXCEPT ![w] = Idle] /\ UNCHANGED <<requests, hasty>>
          /\ stale' \in {stale, stale \cup {r.call}}
      BY <1>4 DEF Save, Answer
    <2> HIDE DEF m
    <2>4. /\ request'[w] = Idle /\ \A v \in Workers \ {w} : request'[v] = request[v]
          /\ request' = [v \in Workers |-> request'[v]]
      BY <1>0, <2>3
    <2>5. /\ r.call \in Calls /\ call'[r.call] = m
          /\ \A c \in Calls \ {r.call} : call'[c] = call[c]
      BY <2>2, <2>3 DEF Types, Documents, Reading
    <2>6. Documents'
      BY <2>2, <2>3, <2>5 DEF Types, Documents, Kept, Created
    <2>7. ASSUME NEW v \in Workers, request[v].at \in Saving
          PROVE  Created(call'[request[v].call]) /\ Grown(call'[request[v].call], request[v].read)
      <3>1. /\ request[v].call \in Calls /\ Created(request[v].read)
            /\ Created(call[request[v].call]) /\ Grown(call[request[v].call], request[v].read)
        BY <2>7 DEF Types, Requests, Reading
      <3>2. CASE request[v].call = r.call
        BY <2>2, <2>5, <3>1, <3>2, GrownTwice DEF Kept, Created
      <3>3. CASE request[v].call # r.call
        BY <2>5, <3>1, <3>3
      <3> QED
        BY <3>2, <3>3
    <2>8. Requests'
      BY <2>4, <2>7, IdleIs DEF Types, Requests, Creating, Reading, Saving
    <2> QED
      BY <2>2, <2>3, <2>6, <2>8 DEF Types, TypeOK, Documents, Requests, Reading
  <1>5. ASSUME NEW w \in Workers, RequestFails(w) PROVE Types'
    <2>1. request' = [request EXCEPT ![w] = Idle] /\ UNCHANGED <<call, requests, stale, hasty>>
      BY <1>5 DEF RequestFails, Answer
    <2>2. /\ request'[w] = Idle /\ \A v \in Workers \ {w} : request'[v] = request[v]
          /\ request' = [v \in Workers |-> request'[v]]
      BY <1>0, <2>1
    <2>3. Requests'
      BY <2>1, <2>2, IdleIs DEF Types, Requests, Creating, Reading, Saving
    <2> QED
      BY <2>1, <2>3 DEF Types, TypeOK, Documents, Requests
  <1>6. CASE UNCHANGED vars
    BY <1>6 DEF vars, Types, TypeOK, Requests, Documents, Creating, Reading
  <1> QED
    BY <1>1, <1>2, <1>3, <1>4, <1>5, <1>6, Steps

\* Every variable holds a value of its type.
THEOREM TypeCorrect == Spec => []TypeOK
  <1>1. Types => TypeOK
    BY DEF Types
  <1> QED
    BY <1>1, InitTypes, TypeStep, PTL DEF Spec

-----------------------------------------------------------------------------
(* Settled calls                                                           *)

\* What a step does to the documents: nothing, or it creates one, or a worker saves one
\* it has read.
LEMMA DocumentSteps ==
    ASSUME Types, [Next]_vars
    PROVE  \/ UNCHANGED call
           \/ \E w \in Workers, c \in Calls, g \in BOOLEAN :
                 /\ Create(w) /\ call[c] = Missing
                 /\ call' = [call EXCEPT ![c] = NewCall(request[w].user, request[w].asked, g)]
           \/ \E w \in Workers :
                 /\ Save(w) /\ request[w].at \in Saving
                 /\ call' = [call EXCEPT ![request[w].call] =
                                Written(request[w], call[request[w].call])]
  <1>1. CASE UNCHANGED vars
    BY <1>1 DEF vars
  <1>2. ASSUME NEW w \in Workers,
               \/ \E u \in Users, callees \in Invitations : InitiateCall(w, u, callees)
               \/ \E u \in Users, c \in Calls, at \in Saving : Reads(w, at, u, c)
               \/ RequestFails(w)
        PROVE  UNCHANGED call
    BY <1>2 DEF InitiateCall, Reads, Asks, RequestFails
  <1>3. ASSUME NEW w \in Workers, Save(w)
        PROVE  /\ request[w].at \in Saving
               /\ call' = [call EXCEPT ![request[w].call] =
                                Written(request[w], call[request[w].call])]
    BY <1>3 DEF Save, Saving
  <1> QED
    BY <1>1, <1>2, <1>3, Steps, CreateIs

\* No call is settled while an entry rings but its initiator's, whatever saves overlapped.
LEMMA QuietStep == Types /\ SettledRingsNobody /\ [Next]_vars => SettledRingsNobody'
  <1> SUFFICES ASSUME Types, SettledRingsNobody, [Next]_vars PROVE SettledRingsNobody'
    OBVIOUS
  <1>1. CASE UNCHANGED call
    BY <1>1 DEF SettledRingsNobody
  <1>2. ASSUME NEW w \in Workers, NEW c \in Calls, NEW g \in BOOLEAN, Create(w),
               call' = [call EXCEPT ![c] = NewCall(request[w].user, request[w].asked, g)]
        PROVE  SettledRingsNobody'
    <2>1. NewCall(request[w].user, request[w].asked, g).status = "ringing"
      BY DEF NewCall
    <2> QED
      BY <1>2, <2>1 DEF SettledRingsNobody, Settled, Types, Documents
  <1>3. ASSUME NEW w \in Workers, request[w].at \in Saving,
               call' = [call EXCEPT ![request[w].call] = Written(request[w], call[request[w].call])]
        PROVE  SettledRingsNobody'
    <2> DEFINE b == request[w].call
               m == Written(request[w], call[b])
    <2>1. Kept(m, call[b]) /\ Quiet(m, call[b]) /\ b \in Calls
      BY <1>3, WrittenIs DEF Types, Requests, Reading
    <2> HIDE DEF m
    <2>2. call'[b] = m /\ \A c \in Calls \ {b} : call'[c] = call[c]
      BY <1>3, <2>1 DEF m, Types, Documents
    <2>3. ASSUME Settled(m), NEW i \in Places(m), m.people[i].state = "ringing"
          PROVE  m.people[i].user = Initiator(m)
      <3>1. CASE Settled(call[b])
        <4>1. /\ i \in Places(call[b]) /\ call[b].people[i].state = "ringing"
              /\ m.people[i].user = call[b].people[i].user
          BY <2>1, <2>3 DEF Kept, Grown
        <4>2. call[b].people[i].user = Initiator(call[b])
          BY <2>1, <3>1, <4>1 DEF SettledRingsNobody
        <4>3. Created(call[b])
          BY <1>3 DEF Types, Requests, Reading
        <4>4. Initiator(m) = Initiator(call[b])
          BY <2>1, <4>3, GrownInitiator DEF Kept, Created
        <4> QED
          BY <4>1, <4>2, <4>4
      <3>2. CASE ~Settled(call[b])
        BY <2>1, <2>3, <3>2 DEF Quiet
      <3> QED
        BY <3>1, <3>2
    <2> QED
      BY <2>2, <2>3 DEF SettledRingsNobody
  <1> QED
    BY <1>1, <1>2, <1>3, DocumentSteps

\* No callee's phone rings for a call that is settled.
THEOREM SettledIsQuiet == Spec => []SettledRingsNobody
  <1>1. Init => SettledRingsNobody
    BY DEF Init, SettledRingsNobody, Settled, Missing
  <1> QED
    BY <1>1, InitTypes, TypeStep, QuietStep, PTL DEF Spec

\* Only an answer that was given while the call rang brings a settled call back.
LEMMA SettledStep ==
    Types /\ [Next]_vars =>
        \A c \in Calls : Settled(call[c]) /\ ~Reviving(c) => Settled(call'[c])
  <1> SUFFICES ASSUME Types, [Next]_vars, NEW c \in Calls, Settled(call[c]), ~Reviving(c)
               PROVE  Settled(call'[c])
    OBVIOUS
  <1>1. CASE UNCHANGED call
    BY <1>1
  <1>2. ASSUME NEW d \in Calls, NEW n, call[d] = Missing, call' = [call EXCEPT ![d] = n]
        PROVE  Settled(call'[c])
    <2>1. c # d
      BY <1>2, MissingIs DEF Settled
    <2> QED
      BY <1>2, <2>1 DEF Types, Documents
  <1>3. ASSUME NEW w \in Workers, request[w].at \in Saving,
               call' = [call EXCEPT ![request[w].call] = Written(request[w], call[request[w].call])]
        PROVE  Settled(call'[c])
    <2> DEFINE m == Written(request[w], call[request[w].call])
    <2>1. /\ Settled(call[request[w].call]) /\ request[w].at # "answer" => Settled(m)
          /\ Reading(request[w])
      BY <1>3, WrittenIs DEF Types, Requests
    <2>2. request[w].call = c => request[w].at # "answer"
      BY <2>1 DEF Reviving, Reading
    <2> HIDE DEF m
    <2>3. call'[c] = IF c = request[w].call THEN m ELSE call[c]
      BY <1>3, <2>1 DEF m, Types, Documents, Reading
    <2> QED
      BY <2>1, <2>2, <2>3
  <1> QED
    BY <1>1, <1>2, <1>3, DocumentSteps

\* A settled call stays so, but for such an answer.
THEOREM SettledStays == Spec => SettledForGood
  BY InitTypes, TypeStep, SettledStep, PTL DEF Spec, SettledForGood

\* An end that is saved takes everybody who was in the call when it was read.
LEMMA EndStep ==
    Types /\ [Next]_vars =>
        \A w \in Workers : LET r == request[w] IN
            r.at = "end" /\ request'[w] = Idle /\ call' # call =>
               \/ \A i \in DOMAIN call'[r.call].people :
                     ~call'[r.call].people[i].gone => i \in Places(r.read) /\ r.read.people[i].gone
               \/ \A i \in Places(r.read) : r.read.people[i].gone
  <1> SUFFICES ASSUME Types, [Next]_vars, NEW w \in Workers, request[w].at = "end",
                      request'[w] = Idle, call' # call
               PROVE  LET r == request[w] IN
                      \/ \A i \in DOMAIN call'[r.call].people :
                            ~call'[r.call].people[i].gone =>
                                i \in Places(r.read) /\ r.read.people[i].gone
                      \/ \A i \in Places(r.read) : r.read.people[i].gone
    BY Zenon
  <1> DEFINE r == request[w]
             d == call[r.call]
             m == Written(r, d)
  <1>1. Save(w)
    <2>1. request[w] # Idle
      BY IdleIs
    <2>2. PICK v \in Workers : Create(v) \/ Save(v)
      BY DocumentSteps
    <2>3. request' = [request EXCEPT ![v] = Idle]
      BY <2>2, CreateIs DEF Save, Answer
    <2>4. v = w
      BY <2>1, <2>3 DEF Types, Requests
    <2>5. ~Create(w)
      BY CreateIs
    <2> QED
      BY <2>2, <2>4, <2>5
  <1>2. /\ Reading(r) /\ r.at = "end" /\ ~VersionError(r)
        /\ call' = [call EXCEPT ![r.call] = m]
    BY <1>1 DEF Save, Types, Requests, Saving
  <1>3. /\ Created(d) /\ Created(r.read) /\ Grown(d, r.read) /\ r.call \in Calls
        /\ m = Ended(d, r.read)
    BY <1>2 DEF Reading, Written
  <1> HIDE DEF m
  <1>4. /\ Places(m) = Places(d)
        /\ \A i \in Places(d) :
              IF i \in Places(r.read) /\ ~r.read.people[i].gone THEN m.people[i].gone
              ELSE m.people[i] = d.people[i]
    BY <1>3, EndedIs
  <1>5. call'[r.call] = m
    BY <1>2, <1>3 DEF Types, Documents
  <1>6. ASSUME NEW j \in Places(r.read), ~r.read.people[j].gone
        PROVE  Places(d) = Places(r.read)
    <2>1. Len(d.people) = Len(r.read.people)
      BY <1>2, <1>6 DEF VersionError, Positional
    <2>2. /\ Places(d) = 1..Len(d.people) /\ Places(r.read) = 1..Len(r.read.people)
      BY <1>3, DocParts DEF Created
    <2> QED
      BY <2>1, <2>2
  <1>7. DOMAIN m.people = Places(m)
    BY DEF Places
  <1> QED
    BY <1>4, <1>5, <1>6, <1>7

\* Who is in a call whose end was just saved came in between.
THEOREM EndsTakeEverybody == Spec => EndTakesEverybody
  BY InitTypes, TypeStep, EndStep, PTL DEF Spec, EndTakesEverybody

-----------------------------------------------------------------------------
(* Calls whose saves did not overlap                                       *)

\* What the handlers take for granted: a live call has somebody in it, one that rings
\* and has more than its initiator's entry has somebody to answer, and who is in it
\* has not declined or left it.
Occupied(d) == Live(d) => \E i \in Places(d) : ~d.people[i].gone
Awaited(d) == d.status = "ringing" /\ Places(d) # {1} =>
    \E i \in Places(d) \ {1} : d.people[i].state \in {"ringing", "connected"}
Present(d) == \A i \in Places(d) : ~d.people[i].gone => d.people[i].state \in {"ringing", "connected"}
Orderly(d) == Occupied(d) /\ Awaited(d) /\ Present(d)

\* An answer to the document that was read keeps it orderly.
LEMMA AnswerOrderly ==
    ASSUME NEW d, Created(d), NEW u, Lists(d, u), d.status = "ringing", Orderly(d)
    PROVE  Orderly(Answered(d, d, u))
  <1> DEFINE m == Answered(d, d, u)
  <1>1. /\ Kept(m, d) /\ m.status = "active" /\ Places(m) = Places(d)
        /\ \A i \in Places(d) : /\ m.people[i].gone = d.people[i].gone
                                /\ m.people[i] = d.people[i] \/ m.people[i].state = "connected"
    BY GrownSelf, AnsweredIs
  <1> HIDE DEF m
  <1>2. Occupied(m) /\ Awaited(m)
    BY <1>1 DEF Orderly, Occupied, Awaited, Live
  <1>3. Present(m)
    BY <1>1 DEF Orderly, Present
  <1> QED
    BY <1>2, <1>3 DEF Orderly, m

\* A rejection that leaves the call live leaves somebody who rings.
LEMMA RejectOrderly ==
    ASSUME NEW d, Created(d), NEW u, Orderly(d)
    PROVE  Orderly(Rejected(d, d, u))
  <1> DEFINE m == Rejected(d, d, u)
  <1>1. /\ Kept(m, d) /\ m.status \in {d.status, "declined"} /\ Places(m) = Places(d)
        /\ Pending(d, u) = {} => m.status = "declined"
        /\ \A j \in Pending(d, u) : m.people[j] = d.people[j]
        /\ \A j \in Places(d) : m.people[j] = d.people[j] \/ m.people[j].gone
    BY GrownSelf, RejectedIs
  <1> HIDE DEF m
  <1>2. ASSUME Live(m)
        PROVE  \E j \in Places(m) \ {1} : /\ ~m.people[j].gone /\ m.people[j].state = "ringing"
    <2>1. PICK j \in Pending(d, u) : m.people[j] = d.people[j]
      BY <1>1, <1>2 DEF Live
    <2>2. j \in Places(d) /\ d.people[j].state = "ringing" /\ d.people[j].user # Initiator(d)
      BY DEF Pending
    <2>3. ~d.people[j].gone /\ j # 1
      BY <2>2 DEF Created, Initiator
    <2> QED
      BY <1>1, <2>1, <2>2, <2>3
  <1>3. Occupied(m) /\ Awaited(m)
    BY <1>2 DEF Occupied, Awaited, Live
  <1>4. Present(m)
    BY <1>1 DEF Orderly, Present
  <1> QED
    BY <1>3, <1>4 DEF Orderly, m

\* An end leaves nobody in the call, which is live no more.
LEMMA EndOrderly ==
    ASSUME NEW d, Created(d), Orderly(d)
    PROVE  Orderly(Ended(d, d))
  <1> DEFINE m == Ended(d, d)
  <1>1. /\ Kept(m, d) /\ m.status = "ended" /\ Places(m) = Places(d)
        /\ \A i \in Places(d) : IF ~d.people[i].gone THEN m.people[i].gone
                                ELSE m.people[i] = d.people[i]
    BY GrownSelf, EndedIs
  <1> HIDE DEF m
  <1>2. Occupied(m) /\ Awaited(m)
    BY <1>1 DEF Occupied, Awaited, Live
  <1>3. Present(m)
    BY <1>1 DEF Orderly, Present
  <1> QED
    BY <1>2, <1>3 DEF Orderly, m

\* Who joins is connected.
LEMMA JoinOrderly ==
    ASSUME NEW d, Created(d), NEW u \in Users, Orderly(d)
    PROVE  Orderly(Joined(d, d, u))
  <1> DEFINE m == Joined(d, d, u)
             n == Len(d.people) + 1
  <1>1. /\ Kept(m, d) /\ m.status = d.status
        /\ Lists(d, u) => Places(m) = Places(d)
        /\ ~Lists(d, u) => /\ Places(m) = Places(d) \cup {n}
                           /\ m.people[n].user = u /\ n \notin Places(d)
        /\ \A i \in Places(m) :
              \/ ~m.people[i].gone /\ m.people[i].state = "connected"
              \/ i \in Places(d) /\ m.people[i] = d.people[i]
        /\ \E i \in Places(m) : ~m.people[i].gone
    BY GrownSelf, JoinedIs
  <1> HIDE DEF m, n
  <1>2. Occupied(m)
    BY <1>1 DEF Occupied
  <1>3. Awaited(m)
    <2> SUFFICES ASSUME m.status = "ringing", Places(m) # {1}
                 PROVE  \E i \in Places(m) \ {1} : m.people[i].state \in {"ringing", "connected"}
      BY DEF Awaited
    <2>1. CASE Places(d) = {1}
      <3>1. PICK i \in Places(m) : i \notin Places(d)
        BY <1>1, <2>1
      <3> QED
        BY <1>1, <2>1, <3>1
    <2>2. CASE Places(d) # {1}
      <3>1. PICK i \in Places(d) \ {1} : d.people[i].state \in {"ringing", "connected"}
        BY <1>1, <2>2 DEF Orderly, Awaited
      <3>2. i \in Places(m)
        BY <1>1, <3>1
      <3> QED
        BY <1>1, <3>1, <3>2
    <2> QED
      BY <2>1, <2>2
  <1>4. Present(m)
    BY <1>1 DEF Orderly, Present
  <1> QED
    BY <1>2, <1>3, <1>4 DEF Orderly, m

\* Who leaves leaves two others, one of whom is not the initiator's first entry.
LEMMA LeaveOrderly ==
    ASSUME NEW d, Created(d), NEW u, Lists(d, u), TwoOthers(d, u), Orderly(d)
    PROVE  Orderly(LeftBy(d, d, u))
  <1> DEFINE m == LeftBy(d, d, u)
             k == First(d, u)
  <1>1. /\ Kept(m, d) /\ m.status = d.status /\ Places(m) = Places(d)
        /\ m.people[k].gone /\ \A j \in Places(d) : j # k => m.people[j] = d.people[j]
    BY GrownSelf, LeftIs
  <1>2. PICK i, j \in Places(d) \ {k} : i # j /\ ~d.people[i].gone /\ ~d.people[j].gone
    BY DEF TwoOthers
  <1> HIDE DEF m, k
  <1>3. Occupied(m)
    BY <1>1, <1>2 DEF Occupied
  <1>4. Awaited(m)
    BY <1>1, <1>2 DEF Orderly, Present, Awaited
  <1>5. Present(m)
    BY <1>1 DEF Orderly, Present
  <1> QED
    BY <1>3, <1>4, <1>5 DEF Orderly, m

\* A new call is orderly: whoever is named is rung.
LEMMA NewOrderly ==
    ASSUME NEW u \in Users, NEW asked \in Invitations, NEW group \in BOOLEAN
    PROVE  Orderly(NewCall(u, asked, group))
  <1> DEFINE d == NewCall(u, asked, group)
  <1>1. /\ Created(d) /\ d.status = "ringing"
        /\ Places(d) = 1..(Len(asked) + 1) /\ Len(asked) \in Nat
        /\ d.people[1].user = u /\ d.people[1].state = "connected"
        /\ \A i \in 2..(Len(asked) + 1) :
              /\ i - 1 \in DOMAIN asked
              /\ d.people[i].user = asked[i - 1] /\ d.people[i].state = "ringing"
        /\ \A i \in Places(d) : ~d.people[i].gone
    BY NewCallIs
  <1> HIDE DEF d
  <1>2. /\ 1 \in Places(d) /\ (Places(d) # {1} => 2 \in Places(d) /\ 2 \in 2..(Len(asked) + 1))
        /\ \A i \in Places(d) : i = 1 \/ i \in 2..(Len(asked) + 1)
    <2>1. CASE Len(asked) = 0
      BY <1>1, <2>1
    <2>2. CASE Len(asked) # 0
      BY <1>1, <2>2
    <2> QED
      BY <2>1, <2>2
  <1>3. Occupied(d) /\ Awaited(d) /\ Present(d)
    BY <1>1, <1>2 DEF Occupied, Awaited, Present
  <1> QED
    BY <1>3 DEF Orderly, d

\* Every call that was saved only by handlers that had read it as it was.
AllOrderly == \A c \in Calls \ stale : Orderly(call[c])

\* A save of the document as it was read keeps it orderly.
LEMMA SaveOrderly ==
    ASSUME Types, NEW w \in Workers, request[w].at \in Saving,
           call[request[w].call] = request[w].read, Orderly(request[w].read)
    PROVE  Orderly(Written(request[w], call[request[w].call]))
  <1> DEFINE r == request[w]
             d == r.read
             m == Written(r, d)
  <1>1. /\ Reading(r) /\ Created(d) /\ Orderly(d) /\ r.at \in Saving
    BY DEF Types, Requests, Reading
  <1> SUFFICES Orderly(m)
    OBVIOUS
  <1> HIDE DEF r
  <1>2. CASE r.at = "answer"
    BY <1>1, <1>2, AnswerOrderly DEF Written, Reading
  <1>3. CASE r.at = "reject"
    BY <1>1, <1>3, RejectOrderly DEF Written
  <1>4. CASE r.at = "end"
    BY <1>1, <1>4, EndOrderly DEF Written
  <1>5. CASE r.at = "join"
    BY <1>1, <1>5, JoinOrderly DEF Written, Reading
  <1>6. CASE r.at = "leave"
    BY <1>1, <1>6, LeaveOrderly DEF Written, Reading
  <1> QED
    BY <1>1, <1>2, <1>3, <1>4, <1>5, <1>6 DEF Saving

\* Every step keeps such calls orderly.
LEMMA OrderlyStep == Types /\ AllOrderly /\ [Next]_vars => AllOrderly'
  <1> SUFFICES ASSUME Types, AllOrderly, [Next]_vars PROVE AllOrderly'
    OBVIOUS
  <1>0. stale \subseteq stale'
    <2>1. ASSUME NEW w \in Workers, Save(w) PROVE stale \subseteq stale'
      BY <2>1 DEF Save
    <2>2. CASE UNCHANGED vars
      BY <2>2 DEF vars
    <2> QED
      BY <2>1, <2>2, Steps, CreateIs DEF InitiateCall, Reads, Asks, RequestFails
  <1>1. CASE UNCHANGED call
    BY <1>0, <1>1 DEF AllOrderly
  <1>2. ASSUME NEW w \in Workers, NEW c \in Calls, NEW g \in BOOLEAN, Create(w),
               call' = [call EXCEPT ![c] = NewCall(request[w].user, request[w].asked, g)]
        PROVE  AllOrderly'
    <2>1. Orderly(NewCall(request[w].user, request[w].asked, g))
      BY <1>2, CreateIs, NewOrderly DEF Creating
    <2> QED
      BY <1>0, <1>2, <2>1 DEF AllOrderly, Types, Documents
  <1>3. ASSUME NEW w \in Workers, request[w].at \in Saving, Save(w)
        PROVE  AllOrderly'
    <2> DEFINE b == request[w].call
               m == Written(request[w], call[b])
    <2>1. /\ call' = [call EXCEPT ![b] = m]
          /\ stale' = IF call[b] # request[w].read THEN stale \cup {b} ELSE stale
          /\ b \in Calls
      BY <1>3 DEF Save, Types, Requests, Reading
    <2>2. ASSUME b \notin stale' PROVE Orderly(m)
      <3>1. call[b] = request[w].read /\ b \notin stale
        BY <2>1, <2>2
      <3>2. Orderly(request[w].read)
        BY <2>1, <3>1 DEF AllOrderly
      <3> QED
        BY <1>3, <3>1, <3>2, SaveOrderly
    <2> HIDE DEF m
    <2>3. call'[b] = m /\ \A c \in Calls \ {b} : call'[c] = call[c]
      BY <2>1 DEF Types, Documents
    <2> QED
      BY <1>0, <2>2, <2>3 DEF AllOrderly
  <1> QED
    BY <1>1, <1>2, <1>3, DocumentSteps

\* There is no call at the start.
LEMMA InitOrderly == Init => AllOrderly
  BY MissingIs DEF Init, AllOrderly, Orderly, Occupied, Awaited, Present, Live

\* A live call has somebody in it, and a ringing one somebody to answer it, unless
\* saves overlapped.
THEOREM LiveCallsHaveSomebody == Spec => []LiveHasSomebody
  <1>1. AllOrderly => LiveHasSomebody
    BY DEF AllOrderly, Orderly, Occupied, Awaited, LiveHasSomebody
  <1> QED
    BY <1>1, InitTypes, InitOrderly, TypeStep, OrderlyStep, PTL DEF Spec

\* Only a join adds an entry, and only of somebody its handler did not find.
LEMMA EntriesStep ==
    Types /\ [Next]_vars =>
        \A c \in Calls, u \in Users :
            Lists(call[c], u) /\ ~Crossing(c, u) => Entries(call'[c], u) = Entries(call[c], u)
  <1> SUFFICES ASSUME Types, [Next]_vars, NEW c \in Calls, NEW u \in Users,
                      Lists(call[c], u), ~Crossing(c, u)
               PROVE  Entries(call'[c], u) = Entries(call[c], u)
    OBVIOUS
  <1>1. CASE UNCHANGED call
    BY <1>1
  <1>2. ASSUME NEW b \in Calls, NEW n, call[b] = Missing, call' = [call EXCEPT ![b] = n]
        PROVE  Entries(call'[c], u) = Entries(call[c], u)
    <2>1. c # b
      BY <1>2, MissingIs DEF Lists
    <2> QED
      BY <1>2, <2>1 DEF Types, Documents
  <1>3. ASSUME NEW w \in Workers, request[w].at \in Saving,
               call' = [call EXCEPT ![request[w].call] = Written(request[w], call[request[w].call])]
        PROVE  Entries(call'[c], u) = Entries(call[c], u)
    <2> DEFINE r == request[w]
               d == call[r.call]
               m == Written(r, d)
    <2>1. /\ Reading(r) /\ r.at \in Saving
          /\ Created(d) /\ Created(r.read) /\ Grown(d, r.read) /\ r.user \in Users
      BY <1>3 DEF Types, Requests, Reading
    <2>2. Kept(m, d)
      BY <1>3, WrittenIs
    <2>3. r.at = "join" /\ r.call = c /\ r.user = u => Lists(r.read, u)
      BY <1>3 DEF Crossing
    <2>4. call'[c] = IF c = r.call THEN m ELSE call[c]
      BY <1>3, <2>1 DEF Types, Documents, Reading
    <2> HIDE DEF r
    <2>5. /\ Places(d) \subseteq Places(m)
          /\ \A i \in Places(m) \ Places(d) : r.at = "join" /\ m.people[i].user = r.user /\ ~Lists(r.read, r.user)
      <3>1. CASE r.at = "answer"
        BY <2>1, <3>1, AnsweredIs DEF Written, Reading
      <3>2. CASE r.at = "reject"
        BY <2>1, <3>2, RejectedIs DEF Written
      <3>3. CASE r.at = "end"
        BY <2>1, <3>3, EndedIs DEF Written
      <3>4. CASE r.at = "join"
        <4>1. m = Joined(d, r.read, r.user)
          BY <3>4 DEF Written
        <4> HIDE DEF m, d
        <4> QED
          BY <2>1, <3>4, <4>1, JoinedIs
      <3>5. CASE r.at = "leave"
        BY <2>1, <3>5, LeftIs DEF Written, Reading
      <3> QED
        BY <2>1, <3>1, <3>2, <3>3, <3>4, <3>5 DEF Saving
    <2>6. \A i \in Places(d) : m.people[i].user = d.people[i].user
      BY <2>2, <2>5 DEF Kept, Grown
    <2>7. CASE c = r.call
      <3>1. \A i \in Places(m) \ Places(d) : m.people[i].user # u
        BY <2>3, <2>5, <2>7
      <3> QED
        BY <2>4, <2>5, <2>6, <2>7, <3>1 DEF Entries
    <2> QED
      BY <2>4, <2>7
  <1> QED
    BY <1>1, <1>2, <1>3, DocumentSteps

\* Whoever is listed keeps the entry they have: only joins that crossed add another.
THEOREM EntriesAreSingle == Spec => JoinedOnce
  BY InitTypes, TypeStep, EntriesStep, PTL DEF Spec, JoinedOnce

-----------------------------------------------------------------------------
(* Callers                                                                 *)

\* A caller whose initiations did not overlap has no other live call while one is
\* about to be created.
Callers ==
    /\ \A w \in Workers : request[w].at = "create" /\ request[w].user \notin hasty =>
          \A c \in Calls \ stale :
              ~(Live(call[c]) /\ Initiator(call[c]) = request[w].user)
    /\ \A v, w \in Workers :
          /\ request[v].at = "create" /\ request[w].at = "create"
          /\ request[v].user = request[w].user
          => v = w \/ request[v].user \in hasty

\* A save of the document as it was read makes no call live, and keeps its initiator.
LEMMA SaveLive ==
    ASSUME Types, NEW w \in Workers, request[w].at \in Saving,
           call[request[w].call] = request[w].read
    PROVE  LET d == call[request[w].call]
               m == Written(request[w], d) IN
           Live(m) => Live(d) /\ Initiator(m) = Initiator(d)
  <1> DEFINE r == request[w]
             d == r.read
             m == Written(r, d)
  <1>1. /\ Reading(r) /\ Created(d) /\ Grown(d, d) /\ r.at \in Saving
    BY GrownSelf DEF Types, Requests, Reading
  <1>2. Kept(m, d)
    BY WrittenIs
  <1> SUFFICES Live(m) => Live(d) /\ Initiator(m) = Initiator(d)
    OBVIOUS
  <1> HIDE DEF r
  <1>3. Initiator(m) = Initiator(d)
    BY <1>1, <1>2, GrownInitiator DEF Kept, Created
  <1>4. Live(m) => Live(d)
    <2>1. CASE r.at = "answer"
      BY <1>1, <2>1 DEF Reading, Live
    <2>2. CASE r.at = "reject"
      <3>1. m = Rejected(d, d, r.user)
        BY <2>2 DEF Written
      <3>2. m.status \in {d.status, "declined"}
        BY <1>1, <3>1, RejectedIs
      <3> QED
        BY <3>2 DEF Live
    <2>3. CASE r.at = "end"
      <3>1. m = Ended(d, d)
        BY <2>3 DEF Written
      <3>2. m.status \in {d.status, "ended"}
        BY <1>1, <3>1, EndedIs
      <3> QED
        BY <3>2 DEF Live
    <2>4. CASE r.at = "join"
      <3>1. m = Joined(d, d, r.user)
        BY <2>4 DEF Written
      <3>2. m.status = d.status
        BY <1>1, <3>1, JoinedIs DEF Reading
      <3> QED
        BY <3>2 DEF Live
    <2>5. CASE r.at = "leave"
      <3>1. m = LeftBy(d, d, r.user)
        BY <2>5 DEF Written
      <3>2. m.status = d.status
        BY <1>1, <2>5, <3>1, LeftIs DEF Reading
      <3> QED
        BY <3>2 DEF Live
    <2> QED
      BY <1>1, <2>1, <2>2, <2>3, <2>4, <2>5 DEF Saving
  <1> QED
    BY <1>3, <1>4

\* A step after which no live call is new, and no initiation is, keeps callers apart.
LEMMA CallersKept ==
    ASSUME Types, Callers, OneCallInitiated, stale \subseteq stale', hasty \subseteq hasty',
           \A c \in Calls \ stale' :
              Live(call'[c]) => Live(call[c]) /\ Initiator(call'[c]) = Initiator(call[c]),
           \A v \in Workers : request'[v].at = "create" => request'[v] = request[v]
    PROVE  Callers' /\ OneCallInitiated'
  <1>1. Callers'
    BY DEF Callers
  <1>2. OneCallInitiated'
    BY DEF OneCallInitiated
  <1> QED
    BY <1>1, <1>2

\* An initiation that begins found no live call of its caller.
LEMMA InitiateCallers ==
    ASSUME Types, Callers, OneCallInitiated, NEW w \in Workers, NEW u \in Users, NEW callees,
           InitiateCall(w, u, callees)
    PROVE  Callers' /\ OneCallInitiated'
  <1> DEFINE r == [Idle EXCEPT !.at = "create", !.user = u, !.asked = callees]
  <1>1. /\ request'[w] = r /\ \A v \in Workers \ {w} : request'[v] = request[v]
        /\ r.at = "create" /\ r.user = u /\ request[w].at = "idle"
    BY IdleIs DEF InitiateCall, Types, Requests, Idle
  <1> HIDE DEF r
  <1>2. UNCHANGED <<call, stale>> /\ hasty \subseteq hasty'
    BY DEF InitiateCall
  <1>3. \A v \in Workers : request[v].at = "create" /\ request[v].user = u => u \in hasty'
    BY DEF InitiateCall
  <1>4. \A c \in Calls : ~(Live(call[c]) /\ Initiator(call[c]) = u)
    <2> SUFFICES ASSUME NEW c \in Calls, Live(call[c]) PROVE Initiator(call[c]) # u
      OBVIOUS
    <2>1. Created(call[c])
      BY MissingIs DEF Types, Documents, Live
    <2>2. 1 \in Places(call[c])
      <3>1. Len(call[c].people) \in Nat /\ Places(call[c]) = 1..Len(call[c].people)
        BY <2>1, DocParts DEF Created
      <3> QED
        BY <2>1, <3>1 DEF Created
    <2>3. ~Lists(call[c], u)
      BY DEF InitiateCall
    <2> QED
      BY <2>2, <2>3 DEF Lists, Initiator
  <1>5. OneCallInitiated'
    BY <1>2 DEF OneCallInitiated
  <1>6. ASSUME NEW v \in Workers, request'[v].at = "create", request'[v].user \notin hasty'
        PROVE  \A c \in Calls \ stale' :
                  ~(Live(call'[c]) /\ Initiator(call'[c]) = request'[v].user)
    BY <1>1, <1>2, <1>4, <1>6 DEF Callers
  <1>7. ASSUME NEW v \in Workers, NEW x \in Workers,
               request'[v].at = "create", request'[x].at = "create",
               request'[v].user = request'[x].user
        PROVE  v = x \/ request'[v].user \in hasty'
    BY <1>1, <1>2, <1>3, <1>7 DEF Callers
  <1>8. Callers'
    BY <1>6, <1>7 DEF Callers
  <1> QED
    BY <1>5, <1>8

\* A call that is created is its caller's only live one.
LEMMA CreateCallers ==
    ASSUME Types, Callers, OneCallInitiated, NEW w \in Workers, Create(w)
    PROVE  Callers' /\ OneCallInitiated'
  <1> DEFINE u == request[w].user
  <1>0. PICK b \in Calls, g \in BOOLEAN :
           call[b] = Missing /\ call' = [call EXCEPT ![b] = NewCall(u, request[w].asked, g)]
    BY CreateIs
  <1> DEFINE n == NewCall(u, request[w].asked, g)
  <1>1. /\ request[w].at = "create" /\ request' = [request EXCEPT ![w] = Idle]
        /\ UNCHANGED <<requests, stale, hasty>>
    BY CreateIs
  <1>2. call[b] = Missing /\ call' = [call EXCEPT ![b] = n]
    BY <1>0
  <1>3. Initiator(n) = u
    BY CreateIs, NewCallIs DEF Creating
  <1> HIDE DEF n
  <1>4. call'[b] = n /\ \A c \in Calls \ {b} : call'[c] = call[c]
    BY <1>2 DEF Types, Documents
  <1>5. /\ request'[w].at = "idle" /\ \A v \in Workers \ {w} : request'[v] = request[v]
    BY <1>1, IdleIs DEF Types, Requests
  <1>6. \A c \in Calls \ stale : u \notin hasty => ~(Live(call[c]) /\ Initiator(call[c]) = u)
    BY <1>1 DEF Callers
  <1>7. \A v \in Workers \ {w} : request[v].at = "create" /\ request[v].user = u => u \in hasty
    BY <1>1 DEF Callers
  <1> HIDE DEF u
  <1>8. OneCallInitiated'
    <2> SUFFICES ASSUME NEW c \in Calls \ stale, NEW d \in Calls \ stale,
                        Live(call'[c]), Live(call'[d]), Initiator(call'[c]) = Initiator(call'[d])
                 PROVE  c = d \/ Initiator(call'[c]) \in hasty
      BY <1>1 DEF OneCallInitiated
    <2>1. CASE c = b /\ d # b
      BY <1>3, <1>4, <1>6, <2>1
    <2>2. CASE c # b /\ d = b
      BY <1>3, <1>4, <1>6, <2>2
    <2>3. CASE c # b /\ d # b
      BY <1>4, <2>3 DEF OneCallInitiated
    <2> QED
      BY <2>1, <2>2, <2>3
  <1>9. ASSUME NEW v \in Workers, request'[v].at = "create", request'[v].user \notin hasty,
               NEW c \in Calls \ stale, Live(call'[c])
        PROVE  Initiator(call'[c]) # request'[v].user
    <2>1. v # w /\ request'[v] = request[v]
      BY <1>5, <1>9
    <2>2. CASE c = b
      BY <1>3, <1>4, <1>7, <1>9, <2>1, <2>2
    <2>3. CASE c # b
      BY <1>4, <1>9, <2>1, <2>3 DEF Callers
    <2> QED
      BY <2>2, <2>3
  <1>10. ASSUME NEW v \in Workers, NEW x \in Workers,
                request'[v].at = "create", request'[x].at = "create",
                request'[v].user = request'[x].user
         PROVE  v = x \/ request'[v].user \in hasty
    BY <1>5, <1>10 DEF Callers
  <1>11. Callers'
    BY <1>1, <1>9, <1>10 DEF Callers
  <1> QED
    BY <1>8, <1>11

\* Every step keeps callers apart.
LEMMA CallersStep ==
    Types /\ Callers /\ OneCallInitiated /\ [Next]_vars => Callers' /\ OneCallInitiated'
  <1> SUFFICES ASSUME Types, Callers, OneCallInitiated, [Next]_vars
               PROVE  Callers' /\ OneCallInitiated'
    OBVIOUS
  <1>1. ASSUME NEW w \in Workers, NEW u \in Users, NEW c \in Calls, NEW at \in Saving,
               Reads(w, at, u, c)
        PROVE  Callers' /\ OneCallInitiated'
    <2> DEFINE r == [at |-> at, user |-> u, call |-> c, read |-> call[c], asked |-> <<>>]
    <2>1. request' = [request EXCEPT ![w] = r] /\ UNCHANGED <<call, stale, hasty>>
      BY <1>1 DEF Reads, Asks, Holds
    <2>2. r.at # "create"
      BY DEF Saving
    <2> HIDE DEF r
    <2>3. \A v \in Workers : request'[v].at = "create" => request'[v] = request[v]
      BY <2>1, <2>2 DEF Types, Requests
    <2> QED
      BY <2>1, <2>3, CallersKept
  <1>2. ASSUME NEW w \in Workers, Save(w) PROVE Callers' /\ OneCallInitiated'
    <2> DEFINE b == request[w].call
               m == Written(request[w], call[b])
    <2>1. /\ call' = [call EXCEPT ![b] = m]
          /\ stale' = IF call[b] # request[w].read THEN stale \cup {b} ELSE stale
          /\ request' = [request EXCEPT ![w] = Idle] /\ hasty' = hasty
          /\ request[w].at \in Saving /\ b \in Calls
      BY <1>2 DEF Save, Answer, Saving, Types, Requests, Reading
    <2>2. \A v \in Workers : request'[v].at = "create" => request'[v] = request[v]
      BY <2>1, IdleIs DEF Types, Requests
    <2>3. ASSUME b \notin stale', Live(m) PROVE Live(call[b]) /\ Initiator(m) = Initiator(call[b])
      <3>1. call[b] = request[w].read
        BY <2>1, <2>3
      <3> QED
        BY <2>1, <2>3, <3>1, SaveLive
    <2> HIDE DEF m
    <2>4. call'[b] = m /\ \A c \in Calls \ {b} : call'[c] = call[c]
      BY <2>1 DEF Types, Documents
    <2>5. \A c \in Calls \ stale' :
             Live(call'[c]) => Live(call[c]) /\ Initiator(call'[c]) = Initiator(call[c])
      BY <2>3, <2>4
    <2> QED
      BY <2>1, <2>2, <2>5, CallersKept
  <1>3. ASSUME NEW w \in Workers, RequestFails(w) PROVE Callers' /\ OneCallInitiated'
    <2>1. request' = [request EXCEPT ![w] = Idle] /\ UNCHANGED <<call, stale, hasty>>
      BY <1>3 DEF RequestFails, Answer
    <2>2. \A v \in Workers : request'[v].at = "create" => request'[v] = request[v]
      BY <2>1, IdleIs DEF Types, Requests
    <2> QED
      BY <2>1, <2>2, CallersKept
  <1>4. CASE UNCHANGED vars
    BY <1>4 DEF vars, Callers, OneCallInitiated
  <1> QED
    BY <1>1, <1>2, <1>3, <1>4, Steps, InitiateCallers, CreateCallers

\* A user has initiated two live calls only by initiations, or saves, that overlapped.
THEOREM CallersHaveOneCall == Spec => []OneCallInitiated
  <1>1. Init => Callers /\ OneCallInitiated
    BY IdleIs, MissingIs DEF Init, Callers, OneCallInitiated, Live
  <1> QED
    BY <1>1, InitTypes, TypeStep, CallersStep, PTL DEF Spec

-----------------------------------------------------------------------------
(* Requests that do not overlap                                            *)

\* As if each request held a lock: on its call from the read to the save, or on its
\* caller from the check to the creation.
Serial ==
    \A v, w \in Workers : v # w =>
        /\ request[v].at \in Saving /\ request[w].at \in Saving => request[v].call # request[w].call
        /\ request[v].at = "create" /\ request[w].at = "create" => request[v].user # request[w].user

\* What a request has read is what is there.
Fresh == \A w \in Workers : request[w].at \in Saving => call[request[w].call] = request[w].read

\* Nothing exempts a call or a caller from what is proved above.
NoneExempt == Fresh /\ stale = {} /\ hasty = {}

\* Every step of requests that do not overlap leaves it so.
LEMMA SerialStep ==
    ASSUME Types, NoneExempt, Serial, Serial', [Next]_vars
    PROVE  NoneExempt'
  <1>0. /\ request = [w \in Workers |-> request[w]] /\ call \in [Calls -> Doc]
        /\ "create" \notin Saving /\ "idle" \notin Saving
    BY DEF Types, Requests, Documents, Saving
  <1>1. CASE UNCHANGED vars
    BY <1>1 DEF vars, NoneExempt, Fresh
  <1>2. ASSUME NEW w \in Workers, request' = [request EXCEPT ![w] = Idle], UNCHANGED <<call, stale, hasty>>
        PROVE  NoneExempt'
    <2>1. \A v \in Workers : request'[v].at \in Saving => request'[v] = request[v]
      BY <1>0, <1>2, IdleIs
    <2> QED
      BY <1>2, <2>1 DEF NoneExempt, Fresh
  <1>3. ASSUME NEW w \in Workers, RequestFails(w) PROVE NoneExempt'
    BY <1>2, <1>3 DEF RequestFails, Answer
  <1>4. ASSUME NEW w \in Workers, NEW u \in Users, NEW c \in Calls, NEW at \in Saving, Reads(w, at, u, c)
        PROVE  NoneExempt'
    <2> DEFINE r == [at |-> at, user |-> u, call |-> c, read |-> call[c], asked |-> <<>>]
    <2>1. r.call = c /\ r.read = call[c]
      OBVIOUS
    <2>2. request' = [request EXCEPT ![w] = r] /\ UNCHANGED <<call, stale, hasty>>
      BY <1>4 DEF Reads, Asks, Holds
    <2> HIDE DEF r
    <2>3. request'[w] = r /\ \A v \in Workers \ {w} : request'[v] = request[v]
      BY <1>0, <2>2
    <2> QED
      BY <2>1, <2>2, <2>3 DEF NoneExempt, Fresh
  <1>5. ASSUME NEW w \in Workers, NEW u \in Users, NEW callees \in Invitations, InitiateCall(w, u, callees)
        PROVE  NoneExempt'
    <2> DEFINE r == [Idle EXCEPT !.at = "create", !.user = u, !.asked = callees]
    <2>1. r.at = "create" /\ r.user = u /\ request[w].at = "idle"
      BY <1>5, IdleIs DEF InitiateCall, Idle
    <2>2. request' = [request EXCEPT ![w] = r] /\ UNCHANGED <<call, stale>>
      BY <1>5 DEF InitiateCall
    <2> HIDE DEF r
    <2>3. request'[w] = r /\ \A v \in Workers \ {w} : request'[v] = request[v]
      BY <1>0, <2>2
    <2>4. \A v \in Workers : ~(request[v].at = "create" /\ request[v].user = u)
      BY <2>1, <2>3 DEF Serial
    <2>5. hasty' = hasty
      BY <1>5, <2>4 DEF InitiateCall
    <2> QED
      BY <1>0, <2>1, <2>2, <2>3, <2>5 DEF NoneExempt, Fresh
  <1>6. ASSUME NEW w \in Workers, Create(w) PROVE NoneExempt'
    <2>1. PICK c \in Calls : call[c] = Missing /\ \A d \in Calls \ {c} : call'[d] = call[d]
      BY <1>0, <1>6, CreateIs
    <2>2. request' = [request EXCEPT ![w] = Idle] /\ UNCHANGED <<stale, hasty>>
      BY <1>6, CreateIs
    <2>3. \A v \in Workers : request'[v].at \in Saving => request'[v] = request[v]
      BY <1>0, <2>2, IdleIs
    <2>4. \A v \in Workers : request[v].at \in Saving =>
             request[v].call \in Calls /\ request[v].call # c
      BY <2>1, MissingIs DEF Types, Requests, Reading, Created
    <2> QED
      BY <2>1, <2>2, <2>3, <2>4 DEF NoneExempt, Fresh
  <1>7. ASSUME NEW w \in Workers, Save(w) PROVE NoneExempt'
    <2> DEFINE b == request[w].call
    <2>1. request[w].at \in Saving /\ b \in Calls
      BY <1>7 DEF Save, Saving, Types, Requests, Reading
    <2>2. stale' = {} /\ hasty' = {}
      BY <1>7, <2>1 DEF Save, NoneExempt, Fresh
    <2>3. request' = [request EXCEPT ![w] = Idle]
          /\ call' = [call EXCEPT ![b] = Written(request[w], @)]
      BY <1>7 DEF Save, Answer
    <2>4. \A c \in Calls \ {b} : call'[c] = call[c]
      BY <1>0, <2>1, <2>3
    <2>5. \A v \in Workers : request'[v].at \in Saving => v # w /\ request'[v] = request[v]
      BY <1>0, <2>3, IdleIs
    <2>6. \A v \in Workers : v # w /\ request[v].at \in Saving =>
             request[v].call # b /\ request[v].call \in Calls
      BY <2>1 DEF Serial, Types, Requests, Reading
    <2> QED
      BY <2>2, <2>4, <2>5, <2>6 DEF NoneExempt, Fresh
  <1> QED
    BY <1>1, <1>3, <1>4, <1>5, <1>6, <1>7, Steps

\* The promises without their exceptions: a live call has somebody in it, a ringing
\* one somebody to answer it if it has more than its initiator's entry, nobody has
\* initiated two live calls, ...
KeptInOrder ==
    \A c \in Calls :
        /\ Live(call[c]) => \E i \in Places(call[c]) : ~call[c].people[i].gone
        /\ call[c].status = "ringing" /\ Places(call[c]) # {1} =>
              \E i \in Places(call[c]) \ {1} : call[c].people[i].state \in {"ringing", "connected"}
        /\ \A d \in Calls : Live(call[c]) /\ Live(call[d]) /\ c # d =>
              Initiator(call[c]) # Initiator(call[d])

\* ... a settled one stays settled, and whoever is listed is given no second entry.
SettledStay == [][\A c \in Calls : Settled(call[c]) => Settled(call'[c])]_vars
EntriesStay == [][\A c \in Calls, u \in Users :
                     Lists(call[c], u) => Entries(call'[c], u) = Entries(call[c], u)]_vars

\* An answer that is fresh is about a call that rings, and a join that is fresh about
\* one that does not list who joins.
LEMMA FreshKept ==
    ASSUME Types, Fresh, [Next]_vars
    PROVE  /\ \A c \in Calls : Settled(call[c]) => Settled(call'[c])
           /\ \A c \in Calls, u \in Users :
                 Lists(call[c], u) => Entries(call'[c], u) = Entries(call[c], u)
  <1>1. ASSUME NEW c \in Calls, Settled(call[c]) PROVE Settled(call'[c])
    <2>1. ~Reviving(c)
      BY <1>1 DEF Reviving, Fresh, Saving, Settled
    <2> QED
      BY <1>1, <2>1, SettledStep
  <1>2. ASSUME NEW c \in Calls, NEW u \in Users, Lists(call[c], u)
        PROVE  Entries(call'[c], u) = Entries(call[c], u)
    <2>1. ~Crossing(c, u)
      BY <1>2 DEF Crossing, Fresh, Saving
    <2> QED
      BY <1>2, <2>1, EntriesStep
  <1> QED
    BY <1>1, <1>2

\* If requests about one call, and initiations of one caller, never overlap, none of
\* the exceptions happens: they are what a lock would take away, and all it would.
THEOREM SerialRequestsKeepOrder ==
    Spec /\ []Serial => []KeptInOrder /\ SettledStay /\ EntriesStay
  <1>1. Init => NoneExempt
    BY IdleIs DEF Init, NoneExempt, Fresh, Saving
  <1>2. Types /\ NoneExempt /\ Serial /\ Serial' /\ [Next]_vars => NoneExempt'
    BY SerialStep
  <1>3. NoneExempt /\ LiveHasSomebody /\ OneCallInitiated => KeptInOrder
    BY DEF NoneExempt, LiveHasSomebody, OneCallInitiated, KeptInOrder
  <1>4. Types /\ NoneExempt /\ [Next]_vars =>
           /\ [\A c \in Calls : Settled(call[c]) => Settled(call'[c])]_vars
           /\ [\A c \in Calls, u \in Users :
                  Lists(call[c], u) => Entries(call'[c], u) = Entries(call[c], u)]_vars
    BY FreshKept DEF NoneExempt
  <1> QED
    BY <1>1, <1>2, <1>3, <1>4, InitTypes, TypeStep, LiveCallsHaveSomebody, CallersHaveOneCall, PTL
      DEF Spec, SettledStay, EntriesStay

=============================================================================
