---------------------------- MODULE ProxyProofs -----------------------------
(***************************************************************************)
(* Proofs about Proxy, for any number of clients, any queries, any answers *)
(* of servers, any limits and permits, and a clock that never stops.       *)
(*                                                                         *)
(* The inductive invariant says what the entries of the cache state        *)
(* (StoredInv), what a task that has its answer holds (AnswersInv), who    *)
(* waits in the queue (QueueInv), and counts permits.                      *)
(***************************************************************************)
EXTENDS Proxy, CacheProofs

-----------------------------------------------------------------------------
(* The invariant *)

\* What an answer that is kept for a key states.
Kept(key, m) ==
    /\ m.response /\ ~m.tc /\ m.rcode \in {"ok", "nxdomain"} /\ m.opcode = "query" /\ m.rd
    /\ m.questions = <<key.question>> /\ m.dnssec = key.dnssec
    /\ Options(m) = IF key.edns THEN {<<key.do, TRUE>>} ELSE {}

StoredInv ==
    /\ now \in Nat
    /\ MapInv
    /\ \A e \in ToSet(entries) : EntryInv(e) /\ Kept(e.key, e.origin)

\* What an answer says to a query before it is cut to the client's limit.
Answers(q, a) ==
    /\ a.response /\ a.id = q.id /\ a.opcode = q.opcode /\ a.rd = q.rd
    /\ a.rcode \in {"ok", "nxdomain"} =>
         /\ ValidateResponse(q, a) /\ a.dnssec = q.dnssec
         /\ ~a.tc => Options(a) = Options(q)

AnswersInv ==
    \A c \in Client : At(c, "answered") =>
        /\ Answers(Query(c), task[c].response)
        /\ c \in Tcp /\ task[c].response.tc => task[c].streamed

TaskInv == free \in Nat /\ slots \in Nat /\ task \in [Client -> Task]

\* The queue holds each connection that waits, once.
QueueInv ==
    /\ queue \in Seq(Tcp)
    /\ \A i, j \in 1..Len(queue) : queue[i] = queue[j] => i = j
    /\ \A c \in Client : At(c, "waiting") <=> \E i \in 1..Len(queue) : queue[i] = c

IInv == TaskInv /\ QueueInv /\ PermitsAccounted /\ StoredInv /\ AnswersInv

-----------------------------------------------------------------------------
(* Queries and answers *)

LEMMA QueriesAreMessages ==
    /\ \A q \in Queries : q \in Message
    /\ NoMessage \in Message
<1>1. <<>> \in Seq(Record) /\ <<>> \in Seq(Question)
  BY EmptySeq
<1>2. NoMessage \in Message
  BY <1>1 DEF NoMessage, NoRecords, Message
<1> QED BY <1>2, ProxyConstants

\* The records of a message that parse_query_meta and servers look at.
LEMMA EdnsRecords ==
    ASSUME NEW m \in Message
    PROVE  /\ \A rr \in ToSet(m.additionals) : rr \in Record
           /\ \A opt \in Edns(m) : opt \in Record
           /\ Options(m) = {<<opt.do, opt.plain>> : opt \in Edns(m)}
BY MessageParts, TtlsAreNumbers DEF Edns, Options

\* What the key of a query that may use the cache says of it (QueryKey).
LEMMA KeyOfQuery ==
    ASSUME NEW q \in Message, Cacheable(q)
    PROVE  /\ Key(q) \in KeyRecord
           /\ q.opcode = "query" /\ q.rd /\ Key(q).dnssec = q.dnssec
           /\ q.questions = <<Key(q).question>>
           /\ Options(q) = IF Key(q).edns THEN {<<Key(q).do, TRUE>>} ELSE {}
<1>1. q.questions \in Seq(Question) /\ Len(q.questions) = 1 /\ q.questions[1] \in Question
  BY MessageParts, ElementOfSeq DEF Cacheable
<1>2. q.questions = <<q.questions[1]>>
  BY <1>1
<1>3. q.additionals \in Seq(Record) /\ Len(q.additionals) <= 1 /\ Len(q.additionals) \in Nat
      /\ DOMAIN q.additionals = 1..Len(q.additionals)
  BY MessageParts, LenProperties DEF Cacheable
<1>4. \A opt \in Edns(q) : opt \in Record /\ opt.plain = TRUE
  BY EdnsRecords DEF Cacheable, Edns, Record
<1>5. \A a, b \in Edns(q) : a = b
  BY <1>3 DEF Edns, ToSet
<1>6. Key(q) \in KeyRecord
  BY <1>1 DEF Key, KeyRecord, Message
<1>7. Options(q) = IF Key(q).edns THEN {<<Key(q).do, TRUE>>} ELSE {}
  <2>1. CASE Edns(q) = {}
    BY <2>1 DEF Options, Key
  <2>2. CASE Edns(q) # {}
    <3>1. PICK opt \in Edns(q) : TRUE
      BY <2>2
    <3>2. Options(q) = {<<opt.do, TRUE>>}
      BY <1>4, <1>5, <3>1 DEF Options
    <3>3. opt.do \in BOOLEAN
      BY <1>4, <3>1 DEF Record
    <3>4. Key(q).do = opt.do
      BY <1>5, <3>1, <3>3 DEF Key
    <3>5. Key(q).edns
      BY <2>2 DEF Key
    <3> QED BY <3>2, <3>4, <3>5
  <2> QED BY <2>1, <2>2
<1> QED BY <1>2, <1>6, <1>7 DEF Cacheable, Key

\* A server's answer has the options of the query.
LEMMA RepliesEcho ==
    ASSUME NEW q \in Message, NEW m \in Replies(q)
    PROVE  /\ m \in Message /\ m.opcode = q.opcode /\ m.rd = q.rd /\ m.dnssec = q.dnssec
           /\ Options(m) = Options(q)
<1>1. PICK body \in Bodies, id \in {q.id, 0},
           questions \in {q.questions} \cup {r.questions : r \in Queries} :
           m = Reply(q, body, id, questions)
  BY DEF Replies
<1>2. body \in Message /\ Edns(body) = {}
  BY <1>1, ProxyConstants
<1>3. questions \in Seq(Question) /\ id \in Nat
  BY <1>1, MessageParts, QueriesAreMessages
<1>4. /\ body.additionals \in Seq(Record) /\ q.additionals \in Seq(Record)
      /\ body.additionals \o q.additionals \in Seq(Record)
  BY <1>2, MessageParts, ConcatProperties
<1>5. /\ m \in Message /\ m.opcode = q.opcode /\ m.rd = q.rd /\ m.dnssec = q.dnssec
      /\ m.additionals = body.additionals \o q.additionals
  <2>1. /\ q.opcode \in {"query", "other"} /\ q.rd \in BOOLEAN /\ q.dnssec \in BOOLEAN
    BY DEF Message
  <2> QED BY <1>1, <1>2, <1>3, <1>4, <2>1 DEF Reply, Message
<1>6. ToSet(m.additionals) = ToSet(body.additionals) \cup ToSet(q.additionals)
  <2> DEFINE a == body.additionals  b == q.additionals
  <2> HIDE DEF a, b
  <2>1. Range(a \o b) = Range(a) \cup Range(b)
    BY <1>4, RangeConcatenation DEF a, b
  <2>2. ToSet(a \o b) = Range(a \o b) /\ ToSet(a) = Range(a) /\ ToSet(b) = Range(b)
    BY DEF ToSet, Range
  <2> QED BY <1>5, <2>1, <2>2 DEF a, b
<1>7. Edns(m) = Edns(q)
  BY <1>2, <1>6 DEF Edns
<1> QED BY <1>5, <1>7 DEF Options

\* What answers a query that may use the cache, and may be kept, is kept for
\* its key, whatever its ID.
LEMMA AnswersAreKept ==
    ASSUME NEW q \in Message, Cacheable(q), NEW m \in Message, NEW id \in Nat,
           Answers(q, m), Keepable(m)
    PROVE  Kept(Key(q), [m EXCEPT !.id = id])
<1> DEFINE k == [m EXCEPT !.id = id]
<1>1. /\ k.response = m.response /\ k.tc = m.tc /\ k.rcode = m.rcode /\ k.opcode = m.opcode
      /\ k.rd = m.rd /\ k.questions = m.questions /\ k.dnssec = m.dnssec
      /\ k.additionals = m.additionals
  BY DEF Message
<1> HIDE DEF k
<1>2. Options(k) = Options(m)
  BY <1>1 DEF Options, Edns
<1>3. Len(m.questions) = 1 /\ m.questions[1] = q.questions[1] /\ m.questions \in Seq(Question)
  BY KeyOfQuery, MessageParts DEF Answers, Keepable, ValidateResponse, Cacheable
<1>4. m.questions = <<Key(q).question>>
  BY <1>3 DEF Key
<1>5. Kept(Key(q), k)
  BY <1>1, <1>2, <1>4, KeyOfQuery DEF Kept, Answers, Keepable
<1> QED BY <1>5 DEF k

\* A kept answer answers every query with its key, at any age.
LEMMA KeptAnswers ==
    ASSUME NEW q \in Message, Cacheable(q), NEW e, EntryInv(e), Kept(e.key, e.origin),
           e.key = Key(q)
    PROVE  LET a == [e.response EXCEPT !.id = q.id]
           IN  a \in Message /\ Answers(q, a) /\ ~a.tc
<1> DEFINE a == [e.response EXCEPT !.id = q.id]
           o == e.origin
<1>1. o \in Message /\ e.response \in Message /\ e.response = AdjustTtls(o, Age(e))
      /\ e.agedAt - e.born \in Nat
  BY DEF EntryInv, Entry
<1>2. Age(e) \in Nat
  BY <1>1, WholeSeconds DEF Age
<1>3. q.id \in Nat
  BY MessageParts
<1>4. /\ a \in Message /\ a.id = q.id
      /\ a.response = e.response.response /\ a.tc = e.response.tc
      /\ a.rcode = e.response.rcode /\ a.opcode = e.response.opcode
      /\ a.rd = e.response.rd /\ a.questions = e.response.questions
      /\ a.dnssec = e.response.dnssec /\ a.additionals = e.response.additionals
  BY <1>1, <1>3 DEF Message
<1>5. /\ e.response.response = o.response /\ e.response.tc = o.tc
      /\ e.response.rcode = o.rcode /\ e.response.opcode = o.opcode
      /\ e.response.rd = o.rd /\ e.response.questions = o.questions
      /\ e.response.dnssec = o.dnssec
  BY <1>1 DEF AdjustTtls, Message
<1>6. Edns(e.response) = Edns(o)
  BY <1>1, <1>2, AgedEdns
<1> HIDE DEF a, o
<1>7. Options(a) = Options(o)
  BY <1>4, <1>6 DEF Options, Edns
<1>8. /\ o.response /\ ~o.tc /\ o.rcode \in {"ok", "nxdomain"} /\ o.opcode = "query" /\ o.rd
      /\ o.questions = q.questions /\ o.dnssec = q.dnssec /\ Options(o) = Options(q)
  BY KeyOfQuery DEF Kept, o
<1>9. a.questions = q.questions /\ a.rd = TRUE /\ q.rd = TRUE /\ q.opcode = "query"
  BY <1>4, <1>5, <1>8, KeyOfQuery DEF Message
<1>10. Answers(q, a)
  BY <1>4, <1>5, <1>7, <1>8, <1>9 DEF Answers, ValidateResponse
<1> QED BY <1>4, <1>5, <1>8, <1>10 DEF a

-----------------------------------------------------------------------------
(* The cache *)

\* Entries stay what they are while time passes.
LEMMA EntriesStay ==
    ASSUME now \in Nat, now' \in Nat, now <= now', NEW e, EntryInv(e)
    PROVE  EntryInv(e)'
BY DEF EntryInv, Entry, Age

\* A list in front of which e was put states what it should.
LEMMA PushKeeps ==
    ASSUME StoredInv, NEW key, NEW e \in Entry, e.key = key,
           EntryInv(e), Kept(e.key, e.origin),
           entries' = Bounded(<<e>> \o Without(key)), UNCHANGED now
    PROVE  StoredInv'
<1>1. MapInv'
  BY Pushed DEF StoredInv, MapInv
<1>2. \A i \in 1..Len(entries') : entries'[i] = e \/ entries'[i] \in ToSet(entries)
  BY Pushed DEF StoredInv
<1>3. DOMAIN entries' = 1..Len(entries')
  BY <1>1, LenProperties DEF MapInv
<1>4. \A f \in ToSet(entries') : f = e \/ f \in ToSet(entries)
  BY <1>2, <1>3 DEF ToSet
<1>5. \A f \in ToSet(entries') : EntryInv(f) /\ Kept(f.key, f.origin)
  BY <1>4 DEF StoredInv
<1>6. \A f \in ToSet(entries') : EntryInv(f)' /\ Kept(f.key, f.origin)
  BY <1>5, EntriesStay DEF StoredInv
<1> QED BY <1>1, <1>6 DEF StoredInv

\* get_into, when it finds an entry.
LEMMA HitKeeps ==
    ASSUME StoredInv, NEW key, NEW e \in Fresh(key), GetHit(key, e)
    PROVE  /\ StoredInv'
           /\ EntryInv(Aged(e)) /\ Kept(Aged(e).key, Aged(e).origin) /\ Aged(e).key = key
<1>1. e \in ToSet(entries) /\ e.key = key /\ ~Expired(e)
  BY DEF Fresh, Found
<1>2. EntryInv(e) /\ Kept(e.key, e.origin) /\ now \in Nat /\ MapInv
  BY <1>1 DEF StoredInv
<1>3. EntryInv(Aged(e)) /\ Aged(e).key = key /\ Aged(e).origin = e.origin
  BY <1>1, <1>2, AgedEntry
<1> DEFINE a == Aged(e)
<1> HIDE DEF a
<1>4. a \in Entry /\ a.key = key /\ EntryInv(a) /\ Kept(a.key, a.origin)
  BY <1>1, <1>2, <1>3 DEF EntryInv, a
<1>5. entries' = Bounded(<<a>> \o Without(key)) /\ UNCHANGED now
  BY <1>1, <1>2, <1>4, Pushed DEF GetHit, a
<1> QED BY <1>4, <1>5, PushKeeps DEF a

\* get_into, when it finds none.
LEMMA MissKeeps ==
    ASSUME StoredInv, NEW key, GetMiss(key)
    PROVE  StoredInv'
<1>1. MapInv' /\ \A i \in 1..Len(entries') : entries'[i] \in ToSet(entries)
  BY WithoutKey DEF StoredInv, MapInv, GetMiss
<1>2. \A f \in ToSet(entries') : f \in ToSet(entries)
  BY <1>1, LenProperties DEF MapInv, ToSet
<1>3. \A f \in ToSet(entries') : EntryInv(f)' /\ Kept(f.key, f.origin)
  BY <1>2, EntriesStay DEF StoredInv, GetMiss
<1> QED BY <1>1, <1>3 DEF StoredInv, GetMiss

\* insert, of an answer that may be kept or not.
LEMMA InsertKeeps ==
    ASSUME StoredInv, NEW key \in KeyRecord, NEW m \in Message, Insert(key, m),
           Keepable(m) => Kept(key, [m EXCEPT !.id = 0])
    PROVE  StoredInv'
<1>1. CASE CacheTtl(m, key.question.kind) = 0
  <2>1. UNCHANGED <<now, entries>>
    BY <1>1 DEF Insert
  <2>2. \A f \in ToSet(entries) : EntryInv(f)'
    BY <2>1, EntriesStay DEF StoredInv
  <2> QED BY <2>1, <2>2 DEF StoredInv, MapInv
<1>2. CASE CacheTtl(m, key.question.kind) # 0
  <2> DEFINE e == NewEntry(key, m)
  <2>1. Keepable(m)
    BY <1>2 DEF CacheTtl
  <2>2. EntryInv(e) /\ e.key = key /\ e.origin = [m EXCEPT !.id = 0]
    BY FreshEntry DEF StoredInv, NewEntry
  <2>3. entries' = Bounded(<<e>> \o Without(key)) /\ UNCHANGED now
    BY <1>2 DEF Insert
  <2> HIDE DEF e
  <2>4. e \in Entry /\ Kept(e.key, e.origin)
    BY <2>1, <2>2 DEF EntryInv
  <2> QED BY <2>2, <2>3, <2>4, PushKeeps
<1> QED BY <1>1, <1>2

\* The clock, and steps that leave the cache alone.
LEMMA StoredStays ==
    ASSUME StoredInv, now' = now \/ now' = now + 1, UNCHANGED entries
    PROVE  StoredInv'
<1>1. now \in Nat /\ now' \in Nat /\ now <= now'
  BY DEF StoredInv
<1>2. \A f \in ToSet(entries) : EntryInv(f)'
  BY <1>1, EntriesStay DEF StoredInv
<1> QED BY <1>1, <1>2 DEF StoredInv, MapInv

-----------------------------------------------------------------------------
(* Tasks that hold a permit *)

\* A task that goes on with its permit keeps the count and the queue.
LEMMA HoldingMoves ==
    ASSUME TaskInv, QueueInv, PermitsAccounted, NEW c \in Client, task[c].pc \in Holding,
           task' \in [Client -> Task], task'[c].pc \in Holding,
           \A d \in Client \ {c} : task'[d] = task[d],
           UNCHANGED <<free, queue, slots>>
    PROVE  TaskInv' /\ QueueInv' /\ PermitsAccounted'
<1>1. Holders' = Holders
  BY DEF Holders
<1>2. Open' = Open
  BY DEF Open, At, Holding, Client
<1>3. \A d \in Client : At(d, "waiting")' <=> At(d, "waiting")
  BY DEF At, Holding
<1>4. QueueInv'
  BY <1>3 DEF QueueInv
<1> QED BY <1>1, <1>2, <1>4 DEF PermitsAccounted, TaskInv

\* A task that gets an answer to its query.
LEMMA AnswerKeeps ==
    ASSUME TaskInv, QueueInv, PermitsAccounted, AnswersInv,
           NEW c \in Client, task[c].pc \in Holding,
           NEW m \in Message, NEW streamed \in BOOLEAN, Answer(c, m, streamed),
           Answers(Query(c), m), c \in Tcp /\ m.tc => streamed,
           UNCHANGED <<free, queue, slots>>
    PROVE  TaskInv' /\ QueueInv' /\ PermitsAccounted' /\ AnswersInv'
<1>1. task[c] \in Task
  BY DEF TaskInv
<1>2. /\ task' \in [Client -> Task]
      /\ task'[c].pc = "answered" /\ task'[c].response = m /\ task'[c].query = task[c].query
      /\ task'[c].streamed = streamed
      /\ \A d \in Client \ {c} : task'[d] = task[d]
  BY <1>1 DEF Answer, TaskInv, Task, Holding
<1>3. AnswersInv'
  BY <1>2 DEF AnswersInv, At, Query
<1>4. "answered" \in Holding
  BY DEF Holding
<1> QED BY <1>2, <1>3, <1>4, HoldingMoves

\* A task that goes on without one.
LEMMA GotoKeeps ==
    ASSUME TaskInv, QueueInv, PermitsAccounted, AnswersInv,
           NEW c \in Client, task[c].pc \in Holding,
           NEW pc \in Holding, pc # "answered", Goto(c, pc),
           UNCHANGED <<free, queue, slots>>
    PROVE  TaskInv' /\ QueueInv' /\ PermitsAccounted' /\ AnswersInv'
<1>1. task[c] \in Task
  BY DEF TaskInv
<1>2. /\ task' \in [Client -> Task] /\ task'[c].pc = pc
      /\ \A d \in Client \ {c} : task'[d] = task[d]
  BY <1>1 DEF Goto, TaskInv, Task, Holding
<1>3. AnswersInv'
  BY <1>2 DEF AnswersInv, At, Query
<1> QED BY <1>2, <1>3, HoldingMoves

-----------------------------------------------------------------------------
(* Steps *)

\* The error for several questions and SERVFAIL answer the query.
LEMMA LocalAnswers ==
    ASSUME NEW q \in Message
    PROVE  /\ Formerr(q) \in Message /\ Answers(q, Formerr(q)) /\ ~Formerr(q).tc
           /\ Servfail(q) \in Message /\ Answers(q, Servfail(q)) /\ ~Servfail(q).tc
           /\ ~Keepable(Servfail(q))
<1>1. /\ Formerr(q) \in Message /\ ~Formerr(q).tc /\ Formerr(q).response
      /\ Formerr(q).id = q.id /\ Formerr(q).opcode = q.opcode /\ Formerr(q).rd = q.rd
      /\ Formerr(q).rcode = "formerr"
  BY QueriesAreMessages DEF Formerr, NoMessage, Message
<1>2. /\ Servfail(q) \in Message /\ ~Servfail(q).tc /\ Servfail(q).response
      /\ Servfail(q).id = q.id /\ Servfail(q).opcode = q.opcode /\ Servfail(q).rd = q.rd
      /\ Servfail(q).rcode = "servfail"
  BY DEF Servfail, Message
<1> QED BY <1>1, <1>2 DEF Answers, Keepable

\* The query of a task is a message.
LEMMA QueryOfTask ==
    ASSUME TaskInv, NEW c \in Client
    PROVE  Query(c) \in Message /\ task[c].response \in Message
BY DEF TaskInv, Task, Query

\* handle_query before it asks an upstream.
LEMMA LooksKeeps ==
    ASSUME IInv, NEW c \in Client, Looks(c)
    PROVE  IInv'
<1> DEFINE q == Query(c)
<1>1. TaskInv /\ QueueInv /\ PermitsAccounted /\ StoredInv /\ AnswersInv /\ q \in Message
  BY QueryOfTask DEF IInv
<1>2. CASE RejectMultiQuestion(c)
  <2>1. /\ task[c].pc \in Holding /\ Answer(c, Formerr(q), FALSE)
        /\ UNCHANGED <<now, entries>> /\ UNCHANGED <<free, queue, slots>>
    BY <1>2 DEF RejectMultiQuestion, At, Holding, cache
  <2>2. StoredInv'
    BY <1>1, <2>1, StoredStays
  <2> QED BY <1>1, <2>1, <2>2, LocalAnswers, AnswerKeeps DEF IInv
<1>3. CASE CacheHit(c)
  <2>1. PICK e \in Fresh(Key(q)) :
          /\ GetHit(Key(q), e)
          /\ Answer(c, [Aged(e).response EXCEPT !.id = q.id], FALSE)
    BY <1>3 DEF CacheHit
  <2>2. /\ task[c].pc \in Holding /\ Cacheable(q) /\ UNCHANGED <<free, queue, slots>>
    BY <1>3 DEF CacheHit, At, Holding
  <2>3. /\ StoredInv' /\ EntryInv(Aged(e)) /\ Kept(Aged(e).key, Aged(e).origin)
        /\ Aged(e).key = Key(q)
    BY <1>1, <2>1, HitKeeps
  <2> DEFINE a == [Aged(e).response EXCEPT !.id = q.id]
  <2>4. a \in Message /\ Answers(q, a) /\ ~a.tc
    BY <1>1, <2>2, <2>3, KeptAnswers
  <2>5. Answer(c, a, FALSE)
    BY <2>1
  <2> HIDE DEF a
  <2>6. TaskInv' /\ QueueInv' /\ PermitsAccounted' /\ AnswersInv'
    BY <1>1, <2>2, <2>4, <2>5, AnswerKeeps
  <2> QED BY <2>3, <2>6 DEF IInv
<1>4. CASE CacheMiss(c)
  <2>1. /\ task[c].pc \in Holding /\ Goto(c, "asking") /\ UNCHANGED <<free, queue, slots>>
        /\ GetMiss(Key(q)) \/ UNCHANGED <<now, entries>>
    BY <1>4 DEF CacheMiss, At, Holding, cache
  <2>2. StoredInv'
    BY <1>1, <2>1, MissKeeps, StoredStays
  <2>3. "asking" \in Holding /\ "asking" # "answered"
    BY DEF Holding
  <2>4. TaskInv' /\ QueueInv' /\ PermitsAccounted' /\ AnswersInv'
    BY <1>1, <2>1, <2>3, GotoKeeps
  <2> QED BY <2>2, <2>4 DEF IInv
<1> QED BY <1>2, <1>3, <1>4 DEF Looks

\* What the manager returns, with the cache and the task it goes to.
LEMMA ForwardedKeeps ==
    ASSUME IInv, NEW c \in Client, task[c].pc \in Holding,
           NEW m \in Message, NEW streamed \in BOOLEAN, Forwarded(c, m, streamed),
           Answers(Query(c), m), c \in Tcp /\ m.tc => streamed
    PROVE  IInv'
<1> DEFINE q == Query(c)
<1>1. TaskInv /\ QueueInv /\ PermitsAccounted /\ StoredInv /\ AnswersInv /\ q \in Message
  BY QueryOfTask DEF IInv
<1>2. /\ Answer(c, m, streamed) /\ UNCHANGED <<free, queue, slots>>
      /\ IF Cacheable(q) THEN Insert(Key(q), m) ELSE UNCHANGED <<now, entries>>
  BY DEF Forwarded, cache
<1>3. StoredInv'
  <2>1. CASE Cacheable(q)
    <3>1. Key(q) \in KeyRecord /\ Insert(Key(q), m)
      BY <1>1, <1>2, <2>1, KeyOfQuery
    <3>2. Keepable(m) => Kept(Key(q), [m EXCEPT !.id = 0])
      BY <1>1, <2>1, AnswersAreKept
    <3> QED BY <1>1, <3>1, <3>2, InsertKeeps
  <2>2. CASE ~Cacheable(q)
    BY <1>1, <1>2, <2>2, StoredStays
  <2> QED BY <2>1, <2>2
<1>4. TaskInv' /\ QueueInv' /\ PermitsAccounted' /\ AnswersInv'
  BY <1>1, <1>2, AnswerKeeps
<1> QED BY <1>3, <1>4 DEF IInv

\* An answer that was validated answers the query, with the query's ID.
LEMMA ValidAnswers ==
    ASSUME NEW q \in Message, NEW m \in Message, ValidateResponse(q, m),
           m.rd = q.rd, m.dnssec = q.dnssec, ~m.tc => Options(m) = Options(q)
    PROVE  LET a == [m EXCEPT !.id = q.id]
           IN  a \in Message /\ Answers(q, a) /\ a.tc = m.tc
<1> DEFINE a == [m EXCEPT !.id = q.id]
<1>1. /\ a \in Message /\ a.id = q.id /\ a.response = m.response /\ a.tc = m.tc
      /\ a.opcode = m.opcode /\ a.rd = m.rd /\ a.dnssec = m.dnssec /\ a.questions = m.questions
      /\ a.additionals = m.additionals
  BY MessageParts DEF Message
<1> HIDE DEF a
<1>2. Options(a) = Options(m)
  BY <1>1 DEF Options, Edns
<1>3. Answers(q, a)
  BY <1>1, <1>2 DEF Answers, ValidateResponse
<1> QED BY <1>1, <1>3 DEF a

\* An exchange with an upstream ends, or goes on over TCP.
LEMMA AsksKeeps ==
    ASSUME IInv, NEW c \in Client, Asks(c)
    PROVE  IInv'
<1> DEFINE q == Query(c)
<1>1. TaskInv /\ QueueInv /\ PermitsAccounted /\ StoredInv /\ AnswersInv /\ q \in Message
  BY QueryOfTask DEF IInv
<1>2. CASE UpstreamsFail(c)
  <2>1. task[c].pc \in Holding /\ Forwarded(c, Servfail(q), FALSE)
    BY <1>2 DEF UpstreamsFail, Forwarding, At, Holding
  <2> QED BY <1>1, <2>1, LocalAnswers, ForwardedKeeps
<1>3. ASSUME NEW m \in Message, ValidateResponse(q, m), m.rd = q.rd, m.dnssec = q.dnssec,
             ~m.tc => Options(m) = Options(q), NEW streamed \in BOOLEAN,
             c \in Tcp /\ m.tc => streamed,
             task[c].pc \in Holding, Configured(c, m, streamed)
      PROVE  IInv'
  <2> DEFINE a == [m EXCEPT !.id = q.id]
  <2>1. a \in Message /\ Answers(q, a) /\ a.tc = m.tc
    BY <1>1, <1>3, ValidAnswers
  <2>2. Forwarded(c, a, streamed)
    BY <1>3 DEF Configured
  <2> HIDE DEF a
  <2> QED BY <1>3, <2>1, <2>2, ForwardedKeeps
<1>4. ASSUME NEW m \in Replies(q), DatagramArrives(c, m) PROVE IInv'
  <2> DEFINE kept == TruncateTo(m, MaxPayload)
  <2>1. /\ m \in Message /\ m.rd = q.rd /\ m.dnssec = q.dnssec /\ Options(m) = Options(q)
    BY <1>1, RepliesEcho
  <2>2. /\ task[c].pc \in Holding /\ ValidateResponse(q, kept)
        /\ IF kept.tc /\ c \in Tcp
           THEN Goto(c, "chasing") /\ UNCHANGED <<now, entries>> /\ UNCHANGED <<free, queue, slots>>
           ELSE Configured(c, kept, FALSE)
    BY <1>4 DEF DatagramArrives, At, Holding, cache
  <2>3. kept \in Message /\ (kept = m \/ kept.tc) /\ kept.rd = m.rd /\ kept.dnssec = m.dnssec
    <3>1. MaxPayload \in Nat /\ HeaderSize + 1 <= MaxPayload
      BY WireConstants DEF HeaderSize
    <3>2. /\ kept \in Message /\ (kept = m \/ kept.tc)
          /\ \A f \in {"id", "response", "opcode", "rd", "dnssec", "rcode"} : kept[f] = m[f]
      BY <2>1, <3>1, Truncation
    <3> QED BY <3>2
  <2> HIDE DEF kept
  <2>4. CASE kept.tc /\ c \in Tcp
    <3>1. "chasing" \in Holding /\ "chasing" # "answered"
      BY DEF Holding
    <3>2. TaskInv' /\ QueueInv' /\ PermitsAccounted' /\ AnswersInv'
      BY <1>1, <2>2, <2>4, <3>1, GotoKeeps
    <3>3. StoredInv'
      BY <1>1, <2>2, <2>4, StoredStays
    <3> QED BY <3>2, <3>3 DEF IInv
  <2>5. CASE ~(kept.tc /\ c \in Tcp)
    BY <1>3, <2>1, <2>2, <2>3, <2>5
  <2> QED BY <2>4, <2>5
<1>5. ASSUME NEW m \in Replies(q), StreamArrives(c, m) PROVE IInv'
  <2>1. /\ task[c].pc \in Holding /\ ValidateResponse(q, m) /\ Configured(c, m, TRUE)
    BY <1>5 DEF StreamArrives, At, Holding
  <2>2. /\ m \in Message /\ m.rd = q.rd /\ m.dnssec = q.dnssec /\ Options(m) = Options(q)
    BY <1>1, RepliesEcho
  <2> QED BY <1>3, <2>1, <2>2
<1>6. ASSUME NEW m \in Replies(q), EncryptedArrives(c, m) PROVE IInv'
  <2>1. /\ task[c].pc \in Holding /\ ValidateResponse(q, m) /\ Configured(c, m, TRUE)
    BY <1>6 DEF EncryptedArrives, At, Holding
  <2>2. /\ m \in Message /\ m.rd = q.rd /\ m.dnssec = q.dnssec /\ Options(m) = Options(q)
    BY <1>1, RepliesEcho
  <2> QED BY <1>3, <2>1, <2>2
<1> QED BY <1>2, <1>4, <1>5, <1>6 DEF Asks

\* Sets of clients can be counted.
LEMMA ClientsAreFinite ==
    /\ IsFiniteSet(Holders) /\ Cardinality(Holders) \in Nat
    /\ IsFiniteSet(Open) /\ Cardinality(Open) \in Nat
<1>1. IsFiniteSet(Client) /\ Holders \subseteq Client /\ Open \subseteq Client
  BY ProxyConstants DEF Holders, Open, Client
<1> QED BY <1>1, FS_Subset, FS_CardinalityType

\* Answers of other tasks are not touched.
LEMMA AnswersStay ==
    ASSUME AnswersInv,
           \A d \in Client : ~At(d, "answered")' \/ task'[d] = task[d]
    PROVE  AnswersInv'
BY DEF AnswersInv, At, Query

\* Queries and connections come, with a permit, to the queue, or to nothing.
LEMMA ArrivesKeeps ==
    ASSUME IInv, NEW c \in Client, Arrives(c)
    PROVE  IInv'
<1>1. TaskInv /\ QueueInv /\ PermitsAccounted /\ StoredInv /\ AnswersInv
  BY DEF IInv
<1>2. /\ task \in [Client -> Task] /\ free \in Nat /\ slots \in Nat /\ c \in DOMAIN task
      /\ Udp \cap Tcp = {} /\ Tcp \subseteq Client
      /\ free + Cardinality(Holders) = MaxInflight
      /\ slots + Cardinality(Open) = MaxConnections
      /\ free > 0 => queue = <<>>
  BY <1>1, ProxyConstants DEF TaskInv, PermitsAccounted, Client
<1>3. ASSUME NEW q \in Queries PROVE \A pc \in {"spawned", "waiting"} : NewTask(pc, q) \in Task
  BY QueriesAreMessages DEF NewTask, Task, Holding
<1>4. CASE TcpConnects(c) \/ TcpCloses(c)
  <2>1. PICK pc \in {"reading", "closed"} :
          /\ c \in Tcp /\ task[c].pc \in {"reading", "closed"} /\ Goto(c, pc)
          /\ UNCHANGED <<now, entries>> /\ UNCHANGED free /\ UNCHANGED queue
    BY <1>4 DEF TcpConnects, TcpCloses, At, cache
  <2>2. /\ task' \in [Client -> Task] /\ task'[c].pc = pc
        /\ \A d \in Client \ {c} : task'[d] = task[d]
    BY <1>2, <2>1 DEF Goto, Task
  <2>3. Holders' = Holders
    BY <2>1, <2>2 DEF Holders, Holding
  <2>4. slots' \in Nat /\ slots' + Cardinality(Open') = MaxConnections
    <3>1. CASE TcpConnects(c)
      <4>1. slots' = slots - 1 /\ slots > 0 /\ c \notin Open /\ Open' = Open \cup {c}
        BY <1>2, <2>2, <3>1 DEF TcpConnects, Open, At, Goto
      <4>2. Cardinality(Open') = Cardinality(Open) + 1
        BY <4>1, ClientsAreFinite, FS_AddElement
      <4> QED BY <1>2, <4>1, <4>2, ClientsAreFinite
    <3>2. CASE TcpCloses(c)
      <4>1. slots' = slots + 1 /\ c \in Open /\ Open' = Open \ {c}
        BY <1>2, <2>2, <3>2 DEF TcpCloses, Open, At, Goto
      <4>2. Cardinality(Open') = Cardinality(Open) - 1
        BY <4>1, ClientsAreFinite, FS_RemoveElement
      <4> QED BY <1>2, <4>1, <4>2, ClientsAreFinite
    <3> QED BY <1>4, <3>1, <3>2
  <2>5. \A d \in Client : At(d, "waiting")' <=> At(d, "waiting")
    BY <2>1, <2>2 DEF At
  <2>6. TaskInv' /\ QueueInv' /\ PermitsAccounted'
    BY <1>1, <1>2, <2>1, <2>2, <2>3, <2>4, <2>5 DEF TaskInv, QueueInv, PermitsAccounted
  <2>7. AnswersInv'
    BY <1>1, <2>2, AnswersStay DEF At
  <2> QED BY <1>1, <2>1, <2>6, <2>7, StoredStays DEF IInv
<1>5. ASSUME NEW q \in Queries, task' = [task EXCEPT ![c] = NewTask("spawned", q)],
             task[c].pc \notin Holding, task[c].pc # "waiting",
             c \in Tcp => task[c].pc # "closed",
             free > 0, free' = free - 1, UNCHANGED queue, UNCHANGED slots,
             UNCHANGED <<now, entries>>
      PROVE  IInv'
  <2>1. /\ task' \in [Client -> Task] /\ task'[c].pc = "spawned"
        /\ \A d \in Client \ {c} : task'[d] = task[d]
    BY <1>2, <1>3, <1>5 DEF NewTask
  <2>2. c \notin Holders /\ Holders' = Holders \cup {c}
    BY <1>5, <2>1 DEF Holders, Holding
  <2>3. Cardinality(Holders') = Cardinality(Holders) + 1
    BY <2>2, ClientsAreFinite, FS_AddElement
  <2>4. Open' = Open
    BY <1>2, <1>5, <2>1 DEF Open, At
  <2>5. \A d \in Client : At(d, "waiting")' <=> At(d, "waiting")
    BY <1>5, <2>1 DEF At
  <2>6. QueueInv'
    BY <1>1, <1>5, <2>5 DEF QueueInv
  <2>7. TaskInv' /\ PermitsAccounted'
    BY <1>2, <1>5, <2>1, <2>3, <2>4, ClientsAreFinite DEF TaskInv, PermitsAccounted
  <2>8. AnswersInv'
    BY <1>1, <2>1, AnswersStay DEF At
  <2> QED BY <1>1, <1>5, <2>6, <2>7, <2>8, StoredStays DEF IInv
<1>6. ASSUME NEW q \in Queries, UdpArrives(c, q) PROVE IInv'
  <2>1. /\ task' = [task EXCEPT ![c] = NewTask("spawned", q)]
        /\ task[c].pc \notin Holding /\ task[c].pc # "waiting" /\ c \notin Tcp
        /\ free > 0 /\ free' = free - 1 /\ UNCHANGED queue /\ UNCHANGED slots
        /\ UNCHANGED <<now, entries>>
    BY <1>2, <1>6 DEF UdpArrives, At, Holding, cache
  <2> QED BY <1>5, <2>1
<1>7. ASSUME NEW q \in Queries, TcpReads(c, q) PROVE IInv'
  <2>1. CASE free > 0
    <3>1. /\ task' = [task EXCEPT ![c] = NewTask("spawned", q)]
          /\ task[c].pc \notin Holding /\ task[c].pc # "waiting" /\ task[c].pc # "closed"
          /\ free' = free - 1 /\ UNCHANGED queue /\ UNCHANGED slots
          /\ UNCHANGED <<now, entries>>
      BY <1>7, <2>1 DEF TcpReads, At, Holding, cache
    <3> QED BY <1>5, <2>1, <3>1
  <2>2. CASE ~(free > 0)
    <3>1. /\ task' = [task EXCEPT ![c] = NewTask("waiting", q)] /\ queue' = Append(queue, c)
          /\ task[c].pc = "reading" /\ UNCHANGED free /\ UNCHANGED slots
          /\ UNCHANGED <<now, entries>> /\ c \in Tcp
      BY <1>7, <2>2 DEF TcpReads, At, cache
    <3>2. /\ task' \in [Client -> Task] /\ task'[c].pc = "waiting"
          /\ \A d \in Client \ {c} : task'[d] = task[d]
      BY <1>2, <1>3, <3>1 DEF NewTask
    <3>3. Holders' = Holders
      BY <3>1, <3>2 DEF Holders, Holding
    <3>4. Open' = Open
      BY <3>1, <3>2 DEF Open, At
    <3>5. /\ queue \in Seq(Tcp) /\ Len(queue) \in Nat
          /\ queue' \in Seq(Tcp) /\ Len(queue') = Len(queue) + 1
          /\ queue'[Len(queue) + 1] = c /\ \A i \in 1..Len(queue) : queue'[i] = queue[i]
      BY <1>1, <3>1, AppendProperties, LenProperties DEF QueueInv
    <3>6. \A i \in 1..Len(queue) : queue[i] # c
      BY <1>1, <3>1 DEF QueueInv, At
    <3>7. \A i, j \in 1..Len(queue') : queue'[i] = queue'[j] => i = j
      BY <1>1, <3>5, <3>6 DEF QueueInv
    <3>8. ASSUME NEW d \in Client
          PROVE  At(d, "waiting")' <=> \E i \in 1..Len(queue') : queue'[i] = d
      <4>1. CASE d = c
        BY <3>2, <3>5, <4>1 DEF At
      <4>2. CASE d # c
        <5>1. At(d, "waiting")' <=> \E i \in 1..Len(queue) : queue[i] = d
          BY <1>1, <3>2, <4>2 DEF At, QueueInv
        <5> QED BY <3>5, <4>2, <5>1
      <4> QED BY <4>1, <4>2
    <3>9. QueueInv'
      BY <3>5, <3>7, <3>8 DEF QueueInv
    <3>10. TaskInv' /\ PermitsAccounted'
      BY <1>2, <2>2, <3>1, <3>2, <3>3, <3>4 DEF TaskInv, PermitsAccounted
    <3>11. AnswersInv'
      BY <1>1, <3>2, AnswersStay DEF At
    <3> QED BY <1>1, <3>1, <3>9, <3>10, <3>11, StoredStays DEF IInv
  <2> QED BY <2>1, <2>2
<1> QED BY <1>4, <1>6, <1>7 DEF Arrives

\* A permit that comes back is free, or goes to the head of the queue.
LEMMA ReleaseKeeps ==
    ASSUME IInv, NEW c \in Client, task[c].pc = "answered",
           NEW pc \in {"closed", "reading"}, Release(c, pc)
    PROVE  /\ free' \in Nat /\ task' \in [Client -> Task]
           /\ QueueInv' /\ AnswersInv'
           /\ free' + Cardinality(Holders') = MaxInflight
           /\ free' > 0 => queue' = <<>>
           /\ Open' = IF c \in Tcp /\ pc = "closed" THEN Open \ {c} ELSE Open
           /\ c \in Tcp => c \in Open
<1>1. TaskInv /\ QueueInv /\ PermitsAccounted /\ AnswersInv
  BY DEF IInv
<1>2. /\ task \in [Client -> Task] /\ free \in Nat
      /\ Udp \cap Tcp = {} /\ Tcp \subseteq Client
      /\ free + Cardinality(Holders) = MaxInflight
      /\ free > 0 => queue = <<>>
  BY <1>1, ProxyConstants DEF TaskInv, PermitsAccounted, Client
<1>3. NewTask(pc, NoMessage) \in Task
  BY QueriesAreMessages DEF NewTask, Task
<1>4. c \in Holders /\ (c \in Tcp => c \in Open)
  BY DEF Holders, Holding, Open, At
<1>5. CASE queue = <<>>
  <2>1. /\ free' = free + 1 /\ UNCHANGED queue
        /\ task' = [task EXCEPT ![c] = NewTask(pc, NoMessage)]
    BY <1>5 DEF Release
  <2>2. /\ task' \in [Client -> Task] /\ task'[c].pc = pc
        /\ \A d \in Client \ {c} : task'[d] = task[d]
    BY <1>2, <1>3, <2>1 DEF NewTask
  <2>3. Holders' = Holders \ {c}
    BY <2>2 DEF Holders, Holding
  <2>4. Cardinality(Holders') = Cardinality(Holders) - 1
    BY <1>4, <2>3, ClientsAreFinite, FS_RemoveElement
  <2>5. Open' = IF c \in Tcp /\ pc = "closed" THEN Open \ {c} ELSE Open
    BY <1>2, <2>2 DEF Open, At
  <2>6. \A d \in Client : At(d, "waiting")' <=> At(d, "waiting")
    BY <2>2 DEF At
  <2>7. QueueInv'
    BY <1>1, <2>1, <2>6 DEF QueueInv
  <2>8. AnswersInv'
    BY <1>1, <2>2, AnswersStay DEF At
  <2> QED BY <1>2, <1>4, <1>5, <2>1, <2>2, <2>4, <2>5, <2>7, <2>8, ClientsAreFinite
<1>6. CASE queue # <<>>
  <2> DEFINE h == Head(queue)
  <2>1. /\ queue' = Tail(queue) /\ UNCHANGED free
        /\ task' = [task EXCEPT ![c] = NewTask(pc, NoMessage), ![h].pc = "spawned"]
    BY <1>6 DEF Release
  <2>2. /\ queue \in Seq(Tcp) /\ Len(queue) \in Nat \ {0} /\ h = queue[1] /\ h \in Tcp
        /\ queue' \in Seq(Tcp) /\ Len(queue') = Len(queue) - 1
        /\ \A i \in 1..Len(queue') : queue'[i] = queue[i + 1]
    BY <1>1, <1>6, <2>1, EmptySeq, HeadTailProperties DEF QueueInv
  <2> HIDE DEF h
  <2>3. h \in Client /\ task[h].pc = "waiting" /\ h # c
    BY <1>1, <1>2, <2>2 DEF QueueInv, At
  <2>4. /\ task' \in [Client -> Task] /\ task'[c].pc = pc /\ task'[h].pc = "spawned"
        /\ \A d \in Client \ {c, h} : task'[d] = task[d]
    <3>1. task[h] \in Task /\ [task[h] EXCEPT !.pc = "spawned"] \in Task
          /\ [task[h] EXCEPT !.pc = "spawned"].pc = "spawned"
      BY <1>2, <2>3 DEF Task, Holding
    <3>2. task' = [[task EXCEPT ![c] = NewTask(pc, NoMessage)]
                     EXCEPT ![h] = [task[h] EXCEPT !.pc = "spawned"]]
      BY <1>2, <2>1, <2>3
    <3> QED BY <1>2, <1>3, <2>3, <3>1, <3>2 DEF NewTask
  <2>5. h \notin Holders /\ Holders' = (Holders \ {c}) \cup {h}
    BY <2>3, <2>4 DEF Holders, Holding
  <2>6. Cardinality(Holders') = Cardinality(Holders)
    <3>1. IsFiniteSet(Holders \ {c}) /\ Cardinality(Holders \ {c}) = Cardinality(Holders) - 1
      BY <1>4, ClientsAreFinite, FS_RemoveElement
    <3>2. Cardinality((Holders \ {c}) \cup {h}) = Cardinality(Holders \ {c}) + 1
      BY <2>5, <3>1, FS_AddElement
    <3> QED BY <2>5, <3>1, <3>2, ClientsAreFinite
  <2>7. Open' = IF c \in Tcp /\ pc = "closed" THEN Open \ {c} ELSE Open
    BY <1>2, <2>3, <2>4 DEF Open, At
  <2>8. \A i, j \in 1..Len(queue') : queue'[i] = queue'[j] => i = j
    <3> SUFFICES ASSUME NEW i \in 1..Len(queue'), NEW j \in 1..Len(queue'), queue'[i] = queue'[j]
                 PROVE  i = j
      OBVIOUS
    <3>1. /\ i + 1 \in 1..Len(queue) /\ j + 1 \in 1..Len(queue)
          /\ queue[i + 1] = queue[j + 1]
      BY <2>2
    <3>2. i + 1 = j + 1
      BY <1>1, <3>1 DEF QueueInv
    <3> QED BY <2>2, <3>2
  <2>9. ASSUME NEW d \in Client
        PROVE  At(d, "waiting")' <=> \E i \in 1..Len(queue') : queue'[i] = d
    <3>1. CASE d = c
      <4>1. \A i \in 1..Len(queue) : queue[i] # c
        BY <1>1 DEF QueueInv, At
      <4>2. \A i \in 1..Len(queue') : queue'[i] # c
        BY <2>2, <4>1
      <4> QED BY <2>4, <3>1, <4>2 DEF At
    <3>2. CASE d = h
      <4>1. \A i \in 1..Len(queue') : queue'[i] # h
        <5> SUFFICES ASSUME NEW i \in 1..Len(queue'), queue'[i] = h PROVE FALSE
          OBVIOUS
        <5>1. i + 1 \in 1..Len(queue) /\ 1 \in 1..Len(queue) /\ queue[i + 1] = queue[1]
          BY <2>2
        <5>2. i + 1 = 1
          BY <1>1, <5>1 DEF QueueInv
        <5> QED BY <2>2, <5>2
      <4> QED BY <2>4, <3>2, <4>1 DEF At
    <3>3. CASE d # c /\ d # h
      <4>1. At(d, "waiting")' <=> \E i \in 1..Len(queue) : queue[i] = d
        BY <1>1, <2>4, <3>3 DEF At, QueueInv
      <4>2. ASSUME NEW i \in 1..Len(queue), queue[i] = d
            PROVE  \E j \in 1..Len(queue') : queue'[j] = d
        <5>1. i # 1
          BY <2>2, <3>3, <4>2
        <5>2. i - 1 \in 1..Len(queue') /\ (i - 1) + 1 = i
          BY <2>2, <5>1
        <5>3. queue'[i - 1] = queue[(i - 1) + 1]
          BY <2>2, <5>2
        <5>4. queue'[i - 1] = d
          BY <4>2, <5>2, <5>3
        <5> QED BY <5>2, <5>4
      <4>3. ASSUME NEW i \in 1..Len(queue'), queue'[i] = d
            PROVE  \E j \in 1..Len(queue) : queue[j] = d
        <5>1. i + 1 \in 1..Len(queue) /\ queue[i + 1] = d
          BY <2>2, <4>3
        <5> QED BY <5>1
      <4> QED BY <4>1, <4>2, <4>3
    <3> QED BY <3>1, <3>2, <3>3
  <2>10. QueueInv'
    BY <2>2, <2>8, <2>9 DEF QueueInv
  <2>11. \A d \in Client : ~At(d, "answered")' \/ task'[d] = task[d]
    BY <2>4 DEF At
  <2>12. AnswersInv'
    BY <1>1, <2>11, AnswersStay
  <2>13. free' = 0
    BY <1>2, <1>6, <2>1
  <2> QED BY <1>2, <1>4, <2>1, <2>4, <2>6, <2>7, <2>10, <2>12, <2>13
<1> QED BY <1>5, <1>6

\* The answer is sent, or the client is gone.
LEMMA DeliversKeeps ==
    ASSUME IInv, NEW c \in Client, Delivers(c)
    PROVE  IInv'
<1>1. StoredInv /\ slots \in Nat /\ slots + Cardinality(Open) = MaxConnections
      /\ Udp \cap Tcp = {}
  BY ProxyConstants DEF IInv, TaskInv, PermitsAccounted
<1>2. CASE UdpSends(c) \/ TcpWrites(c)
  <2>1. PICK pc \in {"closed", "reading"} :
          /\ task[c].pc = "answered" /\ Release(c, pc) /\ ~(c \in Tcp /\ pc = "closed")
          /\ UNCHANGED slots /\ UNCHANGED <<now, entries>>
    BY <1>1, <1>2 DEF UdpSends, TcpWrites, At, cache
  <2>2. /\ free' \in Nat /\ task' \in [Client -> Task] /\ QueueInv' /\ AnswersInv'
        /\ Open' = Open
        /\ free' + Cardinality(Holders') = MaxInflight /\ (free' > 0 => queue' = <<>>)
    BY <1>1, <2>1, ReleaseKeeps
  <2> QED BY <1>1, <2>1, <2>2, StoredStays DEF IInv, PermitsAccounted, TaskInv
<1>3. CASE TcpWriteFails(c)
  <2>1. /\ task[c].pc = "answered" /\ Release(c, "closed") /\ c \in Tcp
        /\ slots' = slots + 1 /\ UNCHANGED <<now, entries>>
    BY <1>3 DEF TcpWriteFails, At, cache
  <2>2. /\ free' \in Nat /\ task' \in [Client -> Task] /\ QueueInv' /\ AnswersInv'
        /\ Open' = Open \ {c} /\ c \in Open
        /\ free' + Cardinality(Holders') = MaxInflight /\ (free' > 0 => queue' = <<>>)
    BY <1>1, <2>1, ReleaseKeeps
  <2>3. Cardinality(Open') = Cardinality(Open) - 1
    BY <2>2, ClientsAreFinite, FS_RemoveElement
  <2>4. slots' + Cardinality(Open') = MaxConnections
    BY <1>1, <2>1, <2>3, ClientsAreFinite
  <2> QED BY <1>1, <2>1, <2>2, <2>4, StoredStays DEF IInv, PermitsAccounted, TaskInv
<1> QED BY <1>2, <1>3 DEF Delivers

\* The proxy starts with an empty cache, all permits and no client.
LEMMA InitInv == Init => IInv
<1> SUFFICES ASSUME Init PROVE IInv
  OBVIOUS
<1>1. task \in [Client -> Task] /\ \A c \in Client : task[c].pc = "closed"
  BY QueriesAreMessages DEF Init, NewTask, Task
<1>2. Holders = {} /\ Open = {}
  BY <1>1, ProxyConstants DEF Holders, Holding, Open, At, Client
<1>3. TaskInv /\ PermitsAccounted
  BY <1>1, <1>2, ProxyConstants, FS_EmptySet DEF Init, TaskInv, PermitsAccounted
<1>4. QueueInv
  BY <1>1, EmptySeq DEF Init, QueueInv, At
<1>5. StoredInv
  <2>1. entries = <<>> /\ now = 0
    BY DEF Init, InitCache
  <2>2. entries \in Seq(Entry) /\ Len(entries) = 0 /\ ToSet(entries) = {}
    BY <2>1, EmptySeq DEF ToSet
  <2> QED BY <2>1, <2>2, CacheConstants DEF StoredInv, MapInv
<1>6. AnswersInv
  BY <1>1 DEF AnswersInv, At
<1> QED BY <1>3, <1>4, <1>5, <1>6 DEF IInv

\* No step breaks it.
LEMMA NextInv == IInv /\ [Next]_vars => IInv'
<1> SUFFICES ASSUME IInv, [Next]_vars PROVE IInv'
  OBVIOUS
<1>1. ASSUME UNCHANGED <<free, queue, slots, task>>, UNCHANGED entries,
             now' = now \/ now' = now + 1
      PROVE  IInv'
  <2>1. StoredInv'
    BY <1>1, StoredStays DEF IInv
  <2>2. Holders' = Holders /\ Open' = Open
    BY <1>1 DEF Holders, Open, At
  <2>3. TaskInv' /\ QueueInv' /\ PermitsAccounted' /\ AnswersInv'
    BY <1>1, <2>2 DEF IInv, TaskInv, QueueInv, PermitsAccounted, AnswersInv, At, Query
  <2> QED BY <2>1, <2>3 DEF IInv
<1>2. CASE UNCHANGED vars
  BY <1>1, <1>2 DEF vars
<1>3. CASE TimePasses
  BY <1>1, <1>3 DEF TimePasses
<1> QED BY <1>2, <1>3, ArrivesKeeps, LooksKeeps, AsksKeeps, DeliversKeeps DEF Next

-----------------------------------------------------------------------------
(* Theorems *)

\* The invariant of the proxy: what entries of the cache state, what answered
\* tasks hold, who waits, and that permits are counted.
THEOREM ProxyInvariance == Spec => []IInv
BY InitInv, NextInv, PTL DEF Spec

\* Every reachable state has its types, of the cache too: no arithmetic on
\* permits, TTLs or ages leaves the numbers.
THEOREM ProxyTypeCorrect == Spec => []TypeOK
<1>1. IInv => TypeOK
  <2> SUFFICES ASSUME IInv PROVE TypeOK
    OBVIOUS
  <2>1. CacheOK
    BY DEF IInv, StoredInv, MapInv, CacheOK
  <2>2. free \in 0..MaxInflight /\ slots \in 0..MaxConnections
    BY ClientsAreFinite, ProxyConstants DEF IInv, TaskInv, PermitsAccounted
  <2> QED BY <2>1, <2>2 DEF IInv, TaskInv, QueueInv, TypeOK
<1> QED BY <1>1, ProxyInvariance, PTL

\* No permit is lost or invented, whatever way a task or a connection ends, and
\* none is free while a connection waits.
THEOREM ProxyPermits == Spec => []PermitsAccounted
<1>1. IInv => PermitsAccounted
  BY DEF IInv
<1> QED BY <1>1, ProxyInvariance, PTL

\* An entry of the cache expires when its answer does, and shows the TTLs the
\* answer has left, for any clock and any sequence of hits.
THEOREM EntriesAgeExactly == Spec => []AgingExact
<1>1. IInv => AgingExact
  BY DEF IInv, StoredInv, EntryInv, AgingExact
<1> QED BY <1>1, ProxyInvariance, PTL

\* The cache is a map of at most cache_size entries.
THEOREM CacheStaysBounded == Spec => []MapInv
<1>1. IInv => MapInv
  BY DEF IInv, StoredInv
<1> QED BY <1>1, ProxyInvariance, PTL

\* Each client gets an answer to its own query, from the cache too, and cut to
\* the limit of a UDP client.
THEOREM AnswersAlwaysMatch == Spec => []AnswersMatch
<1>1. ASSUME IInv, NEW c \in Client, At(c, "answered")
      PROVE  LET a == Sent(c)  q == Query(c)
             IN  /\ a.response /\ a.id = q.id /\ a.opcode = q.opcode /\ a.rd = q.rd
                 /\ a.rcode \in {"ok", "nxdomain"} =>
                      /\ ValidateResponse(q, a) \/ (a.tc /\ Len(q.questions) > 1)
                      /\ a.dnssec = q.dnssec
                      /\ ~a.tc => Options(a) = Options(q)
  <2> DEFINE q == Query(c)
             r == task[c].response
             limit == UdpPayloadSize(q)
             a == TruncateTo(r, limit)
  <2>1. Answers(q, r) /\ q \in Message /\ r \in Message
    BY <1>1, QueryOfTask DEF IInv, AnswersInv
  <2>2. CASE c \notin Udp
    <3>1. Sent(c) = r
      BY <2>2 DEF Sent
    <3> QED BY <2>1, <3>1 DEF Answers
  <2>3. CASE c \in Udp
    <3>1. Sent(c) = a
      BY <2>3 DEF Sent
    <3>2. limit \in Nat /\ HeaderSize + 1 <= limit
      BY <2>1, LimitRange, WireConstants DEF HeaderSize
    <3> HIDE DEF limit, q, r
    <3>3. /\ a = r \/ a.tc
          /\ \A f \in {"id", "response", "opcode", "rd", "dnssec", "rcode"} : a[f] = r[f]
          /\ Len(r.questions) <= 1 => a.questions = r.questions
      BY <2>1, <3>2, Truncation
    <3>4. /\ a.id = r.id /\ a.response = r.response /\ a.opcode = r.opcode /\ a.rd = r.rd
          /\ a.dnssec = r.dnssec /\ a.rcode = r.rcode
      BY <3>3
    <3>5. Len(q.questions) \in Nat
      BY <2>1, MessageParts
    <3> HIDE DEF a
    <3>6. /\ a.response /\ a.id = q.id /\ a.opcode = q.opcode /\ a.rd = q.rd
          /\ a.rcode \in {"ok", "nxdomain"} =>
               /\ ValidateResponse(q, a) \/ (a.tc /\ Len(q.questions) > 1)
               /\ a.dnssec = q.dnssec
               /\ ~a.tc => Options(a) = Options(q)
      BY <2>1, <3>3, <3>4, <3>5 DEF Answers, ValidateResponse
    <3> QED BY <3>1, <3>6 DEF q
  <2> QED BY <2>2, <2>3
<1>2. IInv => AnswersMatch
  BY <1>1 DEF AnswersMatch
<1> QED BY <1>2, ProxyInvariance, PTL

\* No UDP answer is too long for its client, and no TCP client is told to ask
\* over TCP but by what a server itself said over a stream (handle_query,
\* legacy::query, Entry::attempt).
THEOREM AnswersAlwaysFit == Spec => []AnswersFit
<1>1. ASSUME IInv, NEW c \in Client, At(c, "answered")
      PROVE  IF c \in Udp THEN Size(Sent(c)) <= UdpPayloadSize(Query(c))
                          ELSE Sent(c).tc => task[c].streamed
  <2> DEFINE q == Query(c)
             r == task[c].response
             limit == UdpPayloadSize(q)
  <2>1. q \in Message /\ r \in Message /\ (c \in Tcp /\ r.tc => task[c].streamed)
    BY <1>1, QueryOfTask DEF IInv, AnswersInv
  <2>2. CASE c \notin Udp
    BY <2>1, <2>2 DEF Sent, Client
  <2>3. CASE c \in Udp
    <3>1. limit \in Nat /\ HeaderSize + 1 <= limit
      BY <2>1, LimitRange, WireConstants DEF HeaderSize
    <3> HIDE DEF limit
    <3>2. Size(TruncateTo(r, limit)) <= limit
      BY <2>1, <3>1, Truncation
    <3> QED BY <2>3, <3>2 DEF Sent, limit
  <2> QED BY <2>2, <2>3
<1>2. IInv => AnswersFit
  BY <1>1 DEF AnswersFit
<1> QED BY <1>2, ProxyInvariance, PTL
=============================================================================
