------------------------------- MODULE Proxy --------------------------------
(***************************************************************************)
(* The listeners of the proxy (proxy/mod.rs) with the answer cache and the *)
(* exchange with an upstream (legacy.rs, and the checks of upstream/mod.rs *)
(* on encrypted answers): admission of queries, local answers, forwarding, *)
(* what is kept and what each client is sent.                              *)
(*                                                                         *)
(* UDP queries take a permit or are dropped; a TCP connection takes a      *)
(* permit of its own kind or is dropped, and then waits for permits for    *)
(* its queries, first come, first served.  Which upstream is asked in      *)
(* which order is the subject of Forward.                                  *)
(***************************************************************************)
EXTENDS Cache

CONSTANTS Udp, Tcp,       \* clients
          Queries,        \* what clients send
          Bodies,         \* what servers answer
          MaxInflight,    \* MAX_INFLIGHT
          MaxConnections, \* MAX_TCP_CONNECTIONS
          MaxNow          \* bound on the clock

Client == Udp \cup Tcp

ASSUME ProxyConstants ==
    /\ Udp \cap Tcp = {} /\ IsFiniteSet(Client)
    /\ Queries \subseteq Message /\ Bodies \subseteq Message
    /\ \A body \in Bodies : Edns(body) = {} \* see Reply
    /\ MaxInflight \in Nat \ {0} /\ MaxConnections \in Nat /\ MaxNow \in Nat

VARIABLES free,  \* free permits for queries
          queue, \* connections that wait for one
          slots, \* free permits for connections
          task   \* progress of each client

vars == <<now, entries, free, queue, slots, task>>
cache == <<now, entries>>

\* A client without a query, or whose response is not known yet, has NoMessage.
NoRecords == <<>>
NoMessage == [id |-> 0, response |-> FALSE, opcode |-> "other", rd |-> FALSE, tc |-> FALSE,
              dnssec |-> FALSE, rcode |-> "ok", questions |-> <<>>, answers |-> NoRecords,
              authorities |-> NoRecords, additionals |-> NoRecords, whole |-> TRUE]

\* "streamed" is history: the response is what a server sent over TCP or an
\* encrypted channel.
Holding == {"spawned", "asking", "chasing", "answered"}
Task == [pc : {"closed", "reading", "waiting"} \cup Holding,
         query : Message, response : Message, streamed : BOOLEAN]

At(c, pc) == task[c].pc = pc
Query(c) == task[c].query
Goto(c, pc) == task' = [task EXCEPT ![c].pc = pc]
NewTask(pc, q) == [pc |-> pc, query |-> q, response |-> NoMessage, streamed |-> FALSE]

Holders == {c \in Client : task[c].pc \in Holding}
Open == {c \in Tcp : ~At(c, "closed")}
Forwarding(c) == At(c, "asking") \/ At(c, "chasing")

-----------------------------------------------------------------------------
(* Admission *)

\* Without a permit the datagram is dropped.
UdpArrives(c, q) ==
    /\ c \in Udp /\ At(c, "closed")
    /\ free > 0 /\ free' = free - 1
    /\ task' = [task EXCEPT ![c] = NewTask("spawned", q)]
    /\ UNCHANGED <<cache, queue, slots>>

TcpConnects(c) ==
    /\ c \in Tcp /\ At(c, "closed")
    /\ slots > 0 /\ slots' = slots - 1
    /\ Goto(c, "reading")
    /\ UNCHANGED <<cache, free, queue>>

\* The connection is idle for too long, ends, or sends no message.
TcpCloses(c) ==
    /\ c \in Tcp /\ At(c, "reading")
    /\ slots' = slots + 1
    /\ Goto(c, "closed")
    /\ UNCHANGED <<cache, free, queue>>

TcpReads(c, q) ==
    /\ c \in Tcp /\ At(c, "reading")
    /\ IF free > 0
       THEN /\ free' = free - 1 /\ UNCHANGED queue
            /\ task' = [task EXCEPT ![c] = NewTask("spawned", q)]
       ELSE /\ queue' = Append(queue, c) /\ UNCHANGED free
            /\ task' = [task EXCEPT ![c] = NewTask("waiting", q)]
    /\ UNCHANGED <<cache, slots>>

\* Mutation of Release: a permit that comes back is anybody's.
ReleaseToAll(c, pc) ==
    /\ free' = free + 1 /\ UNCHANGED queue
    /\ task' = [task EXCEPT ![c] = NewTask(pc, NoMessage)]

\* A permit that comes back goes to the connection that waits longest.
Release(c, pc) ==
    IF queue = <<>>
    THEN /\ free' = free + 1 /\ UNCHANGED queue
         /\ task' = [task EXCEPT ![c] = NewTask(pc, NoMessage)]
    ELSE /\ queue' = Tail(queue) /\ UNCHANGED free
         /\ task' = [task EXCEPT ![c] = NewTask(pc, NoMessage), ![Head(queue)].pc = "spawned"]

-----------------------------------------------------------------------------
(* Local answers *)

Answer(c, m, streamed) ==
    task' = [task EXCEPT ![c].pc = "answered", ![c].response = m, ![c].streamed = streamed]

\* The query, question and records included, as its own answer.
Servfail(q) == [q EXCEPT !.response = TRUE, !.tc = FALSE, !.dnssec = FALSE, !.rcode = "servfail"]

Formerr(q) == [NoMessage EXCEPT !.id = q.id, !.response = TRUE, !.opcode = q.opcode,
                                !.rd = q.rd, !.rcode = "formerr"]

RejectMultiQuestion(c) ==
    /\ At(c, "spawned") /\ IsMultiQuestion(Query(c))
    /\ Answer(c, Formerr(Query(c)), FALSE)
    /\ UNCHANGED <<cache, free, queue, slots>>

\* Mutation of CacheHit: the client gets the ID of the entry.
CacheHitForeign(c) ==
    /\ At(c, "spawned") /\ ~IsMultiQuestion(Query(c)) /\ Cacheable(Query(c))
    /\ \E e \in Fresh(Key(Query(c))) :
         GetHit(Key(Query(c)), e) /\ Answer(c, Aged(e).response, FALSE)
    /\ UNCHANGED <<free, queue, slots>>

CacheHit(c) ==
    /\ At(c, "spawned") /\ ~IsMultiQuestion(Query(c)) /\ Cacheable(Query(c))
    /\ \E e \in Fresh(Key(Query(c))) :
         /\ GetHit(Key(Query(c)), e)
         /\ Answer(c, [Aged(e).response EXCEPT !.id = Query(c).id], FALSE)
    /\ UNCHANGED <<free, queue, slots>>

CacheMiss(c) ==
    /\ At(c, "spawned") /\ ~IsMultiQuestion(Query(c))
    /\ IF Cacheable(Query(c)) THEN GetMiss(Key(Query(c))) ELSE UNCHANGED cache
    /\ Goto(c, "asking")
    /\ UNCHANGED <<free, queue, slots>>

-----------------------------------------------------------------------------
(* Forwarding *)

\* A server's answer depends on the question, the flags and the options of the
\* query, and tells; other datagrams have another ID or question.
Reply(q, body, id, questions) ==
    [body EXCEPT !.id = id, !.questions = questions, !.opcode = q.opcode, !.rd = q.rd,
                 !.dnssec = q.dnssec, !.additionals = @ \o q.additionals]

Replies(q) == {Reply(q, body, id, questions) :
                   body \in Bodies, id \in {q.id, 0},
                   questions \in {q.questions} \cup {r.questions : r \in Queries}}

\* What the manager returns is inserted and then cut for its client.
Forwarded(c, m, streamed) ==
    /\ IF Cacheable(Query(c)) THEN Insert(Key(Query(c)), m) ELSE UNCHANGED cache
    /\ Answer(c, m, streamed)
    /\ UNCHANGED <<free, queue, slots>>

\* An answer of a configured upstream: SERVFAIL does not count, and the ID is
\* the client's again.
Configured(c, m, streamed) ==
    /\ m.rcode # "servfail"
    /\ Forwarded(c, [m EXCEPT !.id = Query(c).id], streamed)

\* What does not answer the query is not looked at; an answer that was cut
\* short is asked for again over TCP, if the client uses TCP.
DatagramArrives(c, m) ==
    /\ At(c, "asking")
    /\ m.id = Query(c).id /\ ValidateResponse(Query(c), m)
    /\ LET kept == TruncateTo(m, MaxPayload)
       IN  /\ ValidateResponse(Query(c), kept)
           /\ IF kept.tc /\ c \in Tcp
              THEN Goto(c, "chasing") /\ UNCHANGED <<cache, free, queue, slots>>
              ELSE Configured(c, kept, FALSE)

\* A server may call an answer cut short over TCP too: it is taken as it is.
StreamArrives(c, m) ==
    /\ At(c, "chasing")
    /\ m.id = Query(c).id /\ ValidateResponse(Query(c), m)
    /\ Configured(c, m, TRUE)

\* Encrypted upstreams take plain questions only.
SafeEncryptedQuery(q) ==
    /\ ~q.response /\ q.opcode = "query"
    /\ Len(q.questions) = 1 /\ q.answers = <<>> /\ q.authorities = <<>>
    /\ Len(q.additionals) <= 1 /\ \A rr \in ToSet(q.additionals) : rr.kind = "OPT"

EncryptedArrives(c, m) ==
    /\ At(c, "asking") /\ SafeEncryptedQuery(Query(c))
    /\ ValidateResponse(Query(c), m)
    /\ Configured(c, m, TRUE)

\* Every upstream failed, and the system's resolvers.
UpstreamsFail(c) ==
    /\ Forwarding(c)
    /\ Forwarded(c, Servfail(Query(c)), FALSE)

-----------------------------------------------------------------------------
(* Delivery *)

\* Mutation of Sent: UDP answers are sent as they are.
SentWhole(c) == task[c].response

Sent(c) == IF c \in Udp THEN TruncateTo(task[c].response, UdpPayloadSize(Query(c)))
                        ELSE task[c].response

UdpSends(c) ==
    /\ c \in Udp /\ At(c, "answered")
    /\ Release(c, "closed")
    /\ UNCHANGED <<cache, slots>>

TcpWrites(c) ==
    /\ c \in Tcp /\ At(c, "answered")
    /\ Release(c, "reading")
    /\ UNCHANGED <<cache, slots>>

\* Mutation of TcpWriteFails: the connection's own permit is not returned.
TcpWriteFailsLeaks(c) ==
    /\ c \in Tcp /\ At(c, "answered")
    /\ Release(c, "closed")
    /\ UNCHANGED <<cache, slots>>

\* The client does not take the answer in time, or is gone.
TcpWriteFails(c) ==
    /\ c \in Tcp /\ At(c, "answered")
    /\ Release(c, "closed")
    /\ slots' = slots + 1
    /\ UNCHANGED cache

TimePasses ==
    /\ now < MaxNow /\ now' = now + 1
    /\ UNCHANGED <<entries, free, queue, slots, task>>

-----------------------------------------------------------------------------
(* Specification *)

Init ==
    /\ InitCache
    /\ free = MaxInflight /\ queue = <<>> /\ slots = MaxConnections
    /\ task = [c \in Client |-> NewTask("closed", NoMessage)]

Arrives(c) == TcpConnects(c) \/ TcpCloses(c)
              \/ \E q \in Queries : UdpArrives(c, q) \/ TcpReads(c, q)
Looks(c) == RejectMultiQuestion(c) \/ CacheHit(c) \/ CacheMiss(c)
Asks(c) == \/ UpstreamsFail(c)
           \/ Forwarding(c) /\ \E m \in Replies(Query(c)) :
                DatagramArrives(c, m) \/ StreamArrives(c, m) \/ EncryptedArrives(c, m)
Delivers(c) == UdpSends(c) \/ TcpWrites(c) \/ TcpWriteFails(c)

Next == TimePasses \/ \E c \in Client : Arrives(c) \/ Looks(c) \/ Asks(c) \/ Delivers(c)

Spec == Init /\ [][Next]_vars

\* A task that runs ends: upstreams have timeouts, and so have writes.
Proceeds(c) == Looks(c) \/ Asks(c) \/ Delivers(c)
Fairness == \A c \in Client : WF_vars(Proceeds(c))

FairSpec == Spec /\ Fairness

-----------------------------------------------------------------------------
(* Properties *)

TypeOK == /\ CacheOK
          /\ free \in 0..MaxInflight /\ slots \in 0..MaxConnections
          /\ queue \in Seq(Tcp)
          /\ task \in [Client -> Task]

Options(m) == {<<opt.do, opt.plain>> : opt \in Edns(m)}

\* Each client gets an answer to its own query: its ID and question, and what
\* a server says to its flags and options, from the cache too.  An answer to a
\* client without EDNS has no OPT, and one with DNSSEC bits or EDNS options is
\* never the answer to a query without (QueryKey, legacy.rs, Manager).  Only an
\* answer cut short to several questions may have lost them.
AnswersMatch ==
    \A c \in Client : At(c, "answered") =>
        LET a == Sent(c)  q == Query(c)
        IN  /\ a.response /\ a.id = q.id /\ a.opcode = q.opcode /\ a.rd = q.rd
            /\ a.rcode \in {"ok", "nxdomain"} =>
                 /\ ValidateResponse(q, a) \/ (a.tc /\ Len(q.questions) > 1)
                 /\ a.dnssec = q.dnssec
                 /\ ~a.tc => Options(a) = Options(q)

\* No UDP answer is longer than its client accepts, and no TCP client is told
\* to ask again over TCP because of a UDP client, of the cache they share, or of
\* a datagram: only a server's own answer over a stream can say that, which the
\* code passes on (handle_query, legacy::query, Entry::attempt).
AnswersFit ==
    \A c \in Client : At(c, "answered") =>
        IF c \in Udp THEN Size(Sent(c)) <= UdpPayloadSize(Query(c))
                     ELSE Sent(c).tc => task[c].streamed

\* No permit is lost or invented on any way out of a task or a connection, and
\* none is free while a connection waits.
PermitsAccounted ==
    /\ free + Cardinality(Holders) = MaxInflight
    /\ slots + Cardinality(Open) = MaxConnections
    /\ free > 0 => queue = <<>>

\* A connection that waits for a permit gets one, however many datagrams come.
TcpServed == \A c \in Tcp : At(c, "waiting") ~> ~At(c, "waiting")
=============================================================================
