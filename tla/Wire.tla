-------------------------------- MODULE Wire --------------------------------
(***************************************************************************)
(* The part of the DNS wire format that DNSRivet looks at (wire.rs), on    *)
(* messages as records: which queries may use the cache, how long an       *)
(* answer may be kept, how its TTLs age, how it is cut to a client's       *)
(* limit, and which response answers which query.                          *)
(*                                                                         *)
(* A message has one unit of size for its header, each question and each   *)
(* record.  "whole" is false for a message with bytes after its last       *)
(* record.  Names are compared without case, so a name is one value.       *)
(***************************************************************************)
EXTENDS Naturals, Sequences, SequencesExt, FiniteSetsExt

CONSTANTS Name,           \* names of questions
          MinPayload,     \* 512: the limit of a client without EDNS
          MaxPayload,     \* 4096
          MaxTtl,         \* 86400: the longest a positive answer is kept
          MaxNegativeTtl  \* 600: the longest a negative one is

HeaderSize == 1

\* A header and one question fit every client's limit.
ASSUME WireConstants ==
    /\ MinPayload \in Nat /\ MaxPayload \in Nat /\ MinPayload <= MaxPayload
    /\ HeaderSize + 1 <= MinPayload
    /\ MaxTtl \in Nat /\ MaxNegativeTtl \in Nat

\* "minimum" is the last field of an SOA; the rest is EDNS: the DO bit, the
\* payload size, and whether there are no options and the version is zero.
Record == [kind : {"A", "CNAME", "SOA", "OPT"}, ttl : Nat, minimum : Nat,
           do : BOOLEAN, size : Nat, plain : BOOLEAN]

Question == [name : Name, kind : {"A", "CNAME", "SOA", "OPT"}]

\* "dnssec" stands for the header bits AD and CD, "rd" for recursion desired.
Message == [id : Nat, response : BOOLEAN, opcode : {"query", "other"}, rd : BOOLEAN,
            tc : BOOLEAN, dnssec : BOOLEAN, rcode : {"ok", "nxdomain", "servfail", "formerr"},
            questions : Seq(Question), answers : Seq(Record), authorities : Seq(Record),
            additionals : Seq(Record), whole : BOOLEAN]

Records(m) == m.answers \o m.authorities \o m.additionals
Size(m) == HeaderSize + Len(m.questions) + Len(Records(m))

-----------------------------------------------------------------------------
(* Queries *)

Clamp(size) == Max({MinPayload, Min({size, MaxPayload})})

\* Whether a query is conventional enough for the cache: an answer to it
\* depends on nothing but its key.
Cacheable(q) ==
    /\ q.whole /\ ~q.response /\ q.opcode = "query" /\ q.rd
    /\ Len(q.questions) = 1
    /\ Len(q.additionals) <= 1
    /\ \A opt \in ToSet(q.additionals) : opt.kind = "OPT" /\ opt.plain

Edns(q) == {rr \in ToSet(q.additionals) : rr.kind = "OPT"}

\* Mutation of Key: the DO bit is left out.
KeyWithoutDo(q) ==
    [question |-> q.questions[1], edns |-> Edns(q) # {}, do |-> FALSE, dnssec |-> q.dnssec]

\* What an answer in the cache is found by; the payload size is not part of it.
Key(q) ==
    [question |-> q.questions[1], edns |-> Edns(q) # {},
     do |-> \E opt \in Edns(q) : opt.do, dnssec |-> q.dnssec]

\* The client's limit for a UDP answer, also of queries that bypass the cache.
UdpPayloadSize(q) ==
    LET opt == SelectInSeq(q.additionals, LAMBDA rr : rr.kind = "OPT")
    IN  IF opt # 0 THEN Clamp(q.additionals[opt].size) ELSE MinPayload

IsMultiQuestion(q) == ~q.response /\ q.opcode = "query" /\ Len(q.questions) > 1

-----------------------------------------------------------------------------
(* Answers *)

\* EDNS keeps flags where other records have their TTL.
AgedRecord(rr, elapsed) ==
    IF rr.kind = "OPT" THEN rr
    ELSE [rr EXCEPT !.ttl = IF @ > elapsed THEN @ - elapsed ELSE 0]

AgedRecords(rrs, elapsed) == [i \in DOMAIN rrs |-> AgedRecord(rrs[i], elapsed)]

AdjustTtls(m, elapsed) ==
    [m EXCEPT !.answers = AgedRecords(@, elapsed),
              !.authorities = AgedRecords(@, elapsed),
              !.additionals = AgedRecords(@, elapsed)]

Ttls(rrs) == {rr.ttl : rr \in ToSet(rrs)}

\* What RFC 2308 allows for the absence that each SOA states.
SoaTtls(m) == {Min({rr.ttl, rr.minimum}) :
                   rr \in {rr \in ToSet(m.authorities) : rr.kind = "SOA"}}

Has(rrs, kind) == \E rr \in ToSet(rrs) : rr.kind = kind

Negative(m, kind) ==
    m.rcode = "nxdomain" \/ (SoaTtls(m) # {} /\ ~Has(m.answers, kind))

\* Everything that bounds how long an answer may be kept.  The records that
\* lead to the absence count only if an alias does.
TtlBounds(m, kind) ==
    LET positive == Ttls(m.answers) \cup Ttls(m.authorities)
    IN  IF ~Negative(m, kind) THEN positive
        ELSE IF Has(m.answers, "CNAME") /\ SoaTtls(m) # {} THEN SoaTtls(m) \cup positive
        ELSE SoaTtls(m)

Keepable(m) == m.whole /\ m.response /\ ~m.tc /\ m.rcode \in {"ok", "nxdomain"}

\* Seconds that an answer may be kept, 0 for never.
CacheTtl(m, kind) ==
    IF ~Keepable(m) \/ TtlBounds(m, kind) = {} THEN 0
    ELSE Min(TtlBounds(m, kind) \cup {IF Negative(m, kind) THEN MaxNegativeTtl ELSE MaxTtl})

\* Nothing but the header, and the questions if they fit, with the TC bit set.
TruncateTo(m, limit) ==
    IF Size(m) <= limit THEN m
    ELSE [m EXCEPT !.tc = TRUE, !.answers = <<>>, !.authorities = <<>>, !.additionals = <<>>,
                   !.questions = IF HeaderSize + Len(@) <= limit THEN @ ELSE <<>>]

\* Mutation of ValidateResponse: the question is not compared.
ValidateCountOnly(q, m) ==
    m.response /\ m.opcode = q.opcode /\ Len(m.questions) = Len(q.questions)

\* The IDs are not compared here: encrypted transports pin them to 0.
ValidateResponse(q, m) ==
    /\ m.response /\ m.opcode = q.opcode
    /\ Len(m.questions) = Len(q.questions)
    /\ Len(q.questions) = 1 => m.questions[1] = q.questions[1]
=============================================================================
