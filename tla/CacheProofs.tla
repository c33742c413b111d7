----------------------------- MODULE CacheProofs ----------------------------
(***************************************************************************)
(* Lemmas about the operators on messages of Wire and on the entries of    *)
(* Cache, for messages of any length, any limits and any TTLs.             *)
(*                                                                         *)
(* Minima exist because the strict subsets of a finite set are well        *)
(* founded: this needs no induction theorem over an operator.              *)
(***************************************************************************)
EXTENDS Cache, SequenceTheorems, FiniteSetTheorems, TLAPS

-----------------------------------------------------------------------------
(* Minima *)

\* A set of numbers that is not empty has a minimum, which Min chooses: the
\* smallest TTL of an answer, the first OPT record, the place of an entry.
LEMMA NatMinimum ==
    ASSUME NEW S, S \subseteq Nat, S # {}
    PROVE  Min(S) \in S /\ \A x \in S : Min(S) <= x
<1>1. PICK k \in S : TRUE
  OBVIOUS
<1> DEFINE Below == {0..n : n \in {i \in S : i <= k}}
<1>2. Below \subseteq FiniteSubsetsOf(0..k) /\ Below # {}
  <2>1. IsFiniteSet(0..k)
    BY FS_Interval
  <2>2. Below \subseteq SUBSET (0..k)
    OBVIOUS
  <2> QED BY <2>1, <2>2, <1>1, FS_FiniteSubsetsOfFinite
<1> HIDE DEF Below
<1>3. PICK X \in Below : \A Y \in Below : <<Y, X>> \notin StrictSubsetOrdering(0..k)
  BY <1>2, FS_StrictSubsetOrderingWellFounded, WFMin
<1>4. PICK m \in S : m <= k /\ X = 0..m
  BY <1>3 DEF Below
<1>5. ASSUME NEW y \in S PROVE m <= y
  <2> SUFFICES ASSUME y < m PROVE FALSE
    BY <1>4
  <2>1. 0..y \in Below
    BY <1>4 DEF Below
  <2>2. 0..y \subseteq 0..m /\ 0..y # 0..m
    <3>1. m \in 0..m /\ m \notin 0..y
      OBVIOUS
    <3> QED BY <3>1
  <2>3. 0..y \subseteq 0..k /\ 0..m \subseteq 0..k
    BY <1>4
  <2>4. <<0..y, 0..m>> \in StrictSubsetOrdering(0..k)
    BY <2>2, <2>3 DEF StrictSubsetOrdering
  <2> QED BY <2>1, <2>4, <1>3, <1>4
<1> QED BY <1>5 DEF Min

\* clamp(512, 4096) of udp_payload_size and parse_query_meta.
LEMMA ClampRange ==
    ASSUME NEW size \in Nat
    PROVE  Clamp(size) \in MinPayload..MaxPayload
<1> DEFINE m == Min({size, MaxPayload})
<1>1. m \in Nat /\ m <= MaxPayload
  BY NatMinimum, WireConstants
<1> HIDE DEF m
<1>2. \E x \in {MinPayload, m} : \A y \in {MinPayload, m} : x >= y
  BY <1>1, WireConstants
<1>3. Max({MinPayload, m}) \in {MinPayload, m} /\ Max({MinPayload, m}) >= MinPayload
  BY <1>2 DEF Max
<1> QED BY <1>1, <1>3, WireConstants DEF Clamp, m

-----------------------------------------------------------------------------
(* Messages *)

\* The parts of a message.
LEMMA MessageParts ==
    ASSUME NEW m \in Message
    PROVE  /\ m.questions \in Seq(Question) /\ m.answers \in Seq(Record)
           /\ m.authorities \in Seq(Record) /\ m.additionals \in Seq(Record)
           /\ m.id \in Nat /\ Len(m.questions) \in Nat
           /\ Records(m) \in Seq(Record) /\ Size(m) \in Nat
<1>1. /\ m.questions \in Seq(Question) /\ m.answers \in Seq(Record)
      /\ m.authorities \in Seq(Record) /\ m.additionals \in Seq(Record) /\ m.id \in Nat
  BY DEF Message
<1>2. Records(m) \in Seq(Record)
  BY <1>1, ConcatProperties DEF Records
<1> QED BY <1>1, <1>2, LenProperties DEF Size, HeaderSize

\* A limit that udp_payload_size reads is one between 512 and 4096.
LEMMA LimitRange ==
    ASSUME NEW q \in Message
    PROVE  UdpPayloadSize(q) \in MinPayload..MaxPayload
<1> DEFINE opts == {i \in 1..Len(q.additionals) : q.additionals[i].kind = "OPT"}
           opt == SelectInSeq(q.additionals, LAMBDA rr : rr.kind = "OPT")
<1>1. opt = IF opts # {} THEN Min(opts) ELSE 0
  BY DEF SelectInSeq
<1>2. opts # {} => opt \in 1..Len(q.additionals)
  <2>1. opts \subseteq 1..Len(q.additionals) /\ opts \subseteq Nat
    OBVIOUS
  <2> HIDE DEF opts, opt
  <2> QED BY <1>1, <2>1, NatMinimum
<1>3. opt # 0 => q.additionals[opt] \in Record
  <2> HIDE DEF opts, opt
  <2> QED BY <1>1, <1>2, MessageParts, ElementOfSeq
<1>4. opt # 0 => q.additionals[opt].size \in Nat
  BY <1>3 DEF Record
<1> QED BY <1>4, ClampRange, WireConstants DEF UdpPayloadSize

\* truncate_to keeps the limit, drops all records or none, and keeps the
\* question if it is the only one.
THEOREM Truncation ==
    ASSUME NEW m \in Message, NEW limit \in Nat, HeaderSize + 1 <= limit
    PROVE  LET t == TruncateTo(m, limit)
           IN  /\ t \in Message /\ Size(t) <= limit
               /\ t = m \/ t.tc
               /\ \A f \in {"id", "response", "opcode", "rd", "dnssec", "rcode"} : t[f] = m[f]
               /\ Len(m.questions) <= 1 => t.questions = m.questions
<1> DEFINE kept == IF HeaderSize + Len(m.questions) <= limit THEN m.questions ELSE <<>>
           t == [m EXCEPT !.tc = TRUE, !.answers = <<>>, !.authorities = <<>>,
                          !.additionals = <<>>, !.questions = kept]
<1>1. CASE Size(m) <= limit
  BY <1>1 DEF TruncateTo
<1>2. CASE ~(Size(m) <= limit)
  <2>1. TruncateTo(m, limit) = t
    BY <1>2 DEF TruncateTo
  <2>2. kept \in Seq(Question) /\ HeaderSize + Len(kept) <= limit
    BY MessageParts, EmptySeq DEF HeaderSize
  <2> HIDE DEF kept
  <2>3. t \in Message /\ t.questions = kept /\ Records(t) = <<>> \o <<>> \o <<>>
    BY <2>2, EmptySeq DEF Message, Records
  <2>4. Size(t) = HeaderSize + Len(kept)
    <3>1. <<>> \o <<>> \o <<>> = <<>>
      BY EmptySeq, ConcatEmptySeq
    <3> QED BY <2>2, <2>3, <3>1, EmptySeq, LenProperties DEF Size, HeaderSize
  <2>5. Len(m.questions) <= 1 => kept = m.questions
    BY MessageParts DEF kept, HeaderSize
  <2>6. /\ t.tc
        /\ \A f \in {"id", "response", "opcode", "rd", "dnssec", "rcode"} : t[f] = m[f]
    BY DEF Message
  <2> QED BY <2>1, <2>2, <2>3, <2>4, <2>5, <2>6
<1> QED BY <1>1, <1>2

-----------------------------------------------------------------------------
(* Aging *)

\* A record with another TTL.
LEMMA NewTtl ==
    ASSUME NEW rr \in Record, NEW x \in Nat
    PROVE  /\ [rr EXCEPT !.ttl = x] \in Record
           /\ [rr EXCEPT !.ttl = x].ttl = x
           /\ [rr EXCEPT !.ttl = x].kind = rr.kind
           /\ \A y \in Nat : [[rr EXCEPT !.ttl = x] EXCEPT !.ttl = y] = [rr EXCEPT !.ttl = y]
BY DEF Record

\* What a TTL of t has left after n seconds.
Left(t, n) == IF t > n THEN t - n ELSE 0

\* Time adds up.
LEMMA LeftTwice ==
    ASSUME NEW t \in Nat, NEW a \in Nat, NEW b \in Nat
    PROVE  /\ Left(t, a) \in Nat /\ Left(t, 0) = t
           /\ Left(Left(t, a), b) = Left(t, a + b)
BY DEF Left

\* A record ages by its TTL alone, unless it is an OPT.
LEMMA Aging ==
    ASSUME NEW rr \in Record, NEW n \in Nat
    PROVE  /\ AgedRecord(rr, n) \in Record /\ AgedRecord(rr, n).kind = rr.kind
           /\ rr.ttl \in Nat
           /\ rr.kind # "OPT" => AgedRecord(rr, n) = [rr EXCEPT !.ttl = Left(rr.ttl, n)]
<1>1. rr.ttl \in Nat
  BY DEF Record
<1>2. Left(rr.ttl, n) \in Nat
  BY <1>1, LeftTwice
<1>3. CASE rr.kind = "OPT"
  BY <1>1, <1>3 DEF AgedRecord
<1>4. CASE rr.kind # "OPT"
  <2>1. AgedRecord(rr, n) = [rr EXCEPT !.ttl = Left(rr.ttl, n)]
    BY <1>4 DEF AgedRecord, Left
  <2> DEFINE x == Left(rr.ttl, n)
  <2> HIDE DEF x
  <2>2. AgedRecord(rr, n) = [rr EXCEPT !.ttl = x] /\ x \in Nat
    BY <1>2, <2>1 DEF x
  <2>3. [rr EXCEPT !.ttl = x] \in Record /\ [rr EXCEPT !.ttl = x].kind = rr.kind
    BY <2>2, NewTtl
  <2> QED BY <1>1, <2>1, <2>2, <2>3
<1> QED BY <1>3, <1>4

\* Records stay records, with the same kinds and options.
LEMMA AgedSequence ==
    ASSUME NEW rrs \in Seq(Record), NEW n \in Nat
    PROVE  /\ AgedRecords(rrs, n) \in Seq(Record)
           /\ DOMAIN AgedRecords(rrs, n) = DOMAIN rrs
           /\ \A i \in DOMAIN rrs : AgedRecords(rrs, n)[i] = AgedRecord(rrs[i], n)
<1>1. DOMAIN rrs = 1..Len(rrs) /\ Len(rrs) \in Nat
  BY LenProperties
<1>2. ASSUME NEW i \in DOMAIN rrs PROVE AgedRecord(rrs[i], n) \in Record
  <2>1. rrs[i] \in Record
    BY <1>1, ElementOfSeq
  <2> QED BY <2>1, Aging
<1>3. AgedRecords(rrs, n) \in [1..Len(rrs) -> Record]
  BY <1>1, <1>2 DEF AgedRecords
<1>4. AgedRecords(rrs, n) \in Seq(Record)
  BY <1>1, <1>3, SeqDef
<1> QED BY <1>4 DEF AgedRecords

\* Nothing ages in no time.
LEMMA AgedNot ==
    ASSUME NEW rrs \in Seq(Record)
    PROVE  AgedRecords(rrs, 0) = rrs
<1>1. DOMAIN rrs = 1..Len(rrs) /\ Len(rrs) \in Nat
  BY LenProperties
<1>2. ASSUME NEW i \in DOMAIN rrs PROVE AgedRecord(rrs[i], 0) = rrs[i]
  <2>1. rrs[i] \in Record
    BY <1>1, ElementOfSeq
  <2> QED BY <2>1 DEF AgedRecord, Record
<1>3. rrs = [i \in DOMAIN rrs |-> rrs[i]]
  BY LenProperties
<1> QED BY <1>2, <1>3 DEF AgedRecords

\* Aging twice is aging by the sum: nothing is lost between hits.
LEMMA AgedTwice ==
    ASSUME NEW rrs \in Seq(Record), NEW a \in Nat, NEW b \in Nat
    PROVE  AgedRecords(AgedRecords(rrs, a), b) = AgedRecords(rrs, a + b)
<1>1. DOMAIN rrs = 1..Len(rrs) /\ Len(rrs) \in Nat
  BY LenProperties
<1>2. ASSUME NEW i \in DOMAIN rrs
      PROVE  AgedRecord(AgedRecord(rrs[i], a), b) = AgedRecord(rrs[i], a + b)
  <2>1. rrs[i] \in Record
    BY <1>1, ElementOfSeq
  <2>2. CASE rrs[i].kind = "OPT"
    BY <2>2 DEF AgedRecord
  <2>3. CASE rrs[i].kind # "OPT"
    <3> DEFINE t == rrs[i].ttl
               once == AgedRecord(rrs[i], a)
    <3>0. a + b \in Nat
      OBVIOUS
    <3>1. t \in Nat /\ Left(t, a) \in Nat /\ Left(t, a + b) \in Nat
      <4>1. t \in Nat
        BY <2>1 DEF Record
      <4> HIDE DEF t
      <4> QED BY <3>0, <4>1, LeftTwice
    <3>2. once = [rrs[i] EXCEPT !.ttl = Left(t, a)]
      BY <2>1, <2>3, Aging
    <3>3. once \in Record /\ once.kind # "OPT" /\ once.ttl = Left(t, a)
      BY <2>1, <2>3, <3>1, <3>2 DEF Record
    <3>4. AgedRecord(once, b) = [once EXCEPT !.ttl = Left(Left(t, a), b)]
      <4> HIDE DEF once
      <4> QED BY <3>3, Aging
    <3>5. Left(Left(t, a), b) = Left(t, a + b)
      <4> HIDE DEF t
      <4> QED BY <3>1, LeftTwice
    <3>7. AgedRecord(rrs[i], a + b) = [rrs[i] EXCEPT !.ttl = Left(t, a + b)]
      BY <2>1, <2>3, <3>0, Aging
    <3>8. [once EXCEPT !.ttl = Left(t, a + b)] = [rrs[i] EXCEPT !.ttl = Left(t, a + b)]
      BY <2>1, <3>1, <3>2, NewTtl
    <3> QED BY <3>4, <3>5, <3>7, <3>8
  <2> QED BY <2>2, <2>3
<1> QED BY <1>2 DEF AgedRecords

\* The same for messages: adjust_ttls by the seconds of several hits.
THEOREM AdjustedTtls ==
    ASSUME NEW m \in Message, NEW a \in Nat
    PROVE  /\ AdjustTtls(m, a) \in Message
           /\ AdjustTtls(m, 0) = m
           /\ \A b \in Nat : AdjustTtls(AdjustTtls(m, a), b) = AdjustTtls(m, a + b)
<1>1. /\ AgedRecords(m.answers, a) \in Seq(Record)
      /\ AgedRecords(m.authorities, a) \in Seq(Record)
      /\ AgedRecords(m.additionals, a) \in Seq(Record)
  BY MessageParts, AgedSequence
<1>2. AdjustTtls(m, a) \in Message
  BY <1>1 DEF AdjustTtls, Message
<1>3. AdjustTtls(m, 0) = m
  BY MessageParts, AgedNot DEF AdjustTtls, Message
<1>4. ASSUME NEW b \in Nat
      PROVE  AdjustTtls(AdjustTtls(m, a), b) = AdjustTtls(m, a + b)
  <2>1. /\ AgedRecords(AgedRecords(m.answers, a), b) = AgedRecords(m.answers, a + b)
        /\ AgedRecords(AgedRecords(m.authorities, a), b) = AgedRecords(m.authorities, a + b)
        /\ AgedRecords(AgedRecords(m.additionals, a), b) = AgedRecords(m.additionals, a + b)
    BY MessageParts, AgedTwice
  <2> QED BY <2>1 DEF AdjustTtls, Message
<1> QED BY <1>2, <1>3, <1>4

\* The flags of OPT records are not TTLs: aging leaves them.
LEMMA AgedEdns ==
    ASSUME NEW m \in Message, NEW a \in Nat
    PROVE  Edns(AdjustTtls(m, a)) = Edns(m)
<1> DEFINE aged == AgedRecords(m.additionals, a)
<1>1. /\ DOMAIN aged = DOMAIN m.additionals
      /\ \A i \in DOMAIN m.additionals : aged[i] = AgedRecord(m.additionals[i], a)
  BY MessageParts, AgedSequence
<1>2. AdjustTtls(m, a).additionals = aged
  BY DEF AdjustTtls, Message
<1>3. \A i \in DOMAIN m.additionals : m.additionals[i] \in Record
  BY MessageParts, LenProperties, ElementOfSeq
<1> HIDE DEF aged
<1>4. \A i \in DOMAIN m.additionals :
        /\ aged[i].kind = m.additionals[i].kind
        /\ m.additionals[i].kind = "OPT" => aged[i] = m.additionals[i]
  BY <1>1, <1>3 DEF AgedRecord, Record
<1> QED BY <1>1, <1>2, <1>4 DEF Edns, ToSet

-----------------------------------------------------------------------------
(* How long an answer may be kept *)

\* The TTLs of records are numbers.
LEMMA TtlsAreNumbers ==
    ASSUME NEW rrs \in Seq(Record)
    PROVE  /\ \A rr \in ToSet(rrs) : rr \in Record
           /\ Ttls(rrs) \subseteq Nat
<1>1. \A rr \in ToSet(rrs) : rr \in Record
  BY LenProperties, ElementOfSeq DEF ToSet
<1> QED BY <1>1 DEF Ttls, Record

\* cache_ttl is a number of seconds, no longer than any bound, a day for a
\* positive answer and ten minutes for a negative one.
THEOREM CacheTtlBounds ==
    ASSUME NEW m \in Message, NEW kind
    PROVE  /\ CacheTtl(m, kind) \in Nat
           /\ CacheTtl(m, kind) <= IF Negative(m, kind) THEN MaxNegativeTtl ELSE MaxTtl
           /\ Keepable(m) => \A t \in TtlBounds(m, kind) : CacheTtl(m, kind) <= t
<1> DEFINE cap == IF Negative(m, kind) THEN MaxNegativeTtl ELSE MaxTtl
           bounds == TtlBounds(m, kind) \cup {cap}
<1>1. cap \in Nat
  BY WireConstants
<1>2. TtlBounds(m, kind) \subseteq Nat
  <2>1. SoaTtls(m) \subseteq Nat
    <3>1. ASSUME NEW rr \in ToSet(m.authorities) PROVE Min({rr.ttl, rr.minimum}) \in Nat
      <4>1. {rr.ttl, rr.minimum} \subseteq Nat
        BY MessageParts, TtlsAreNumbers DEF Record
      <4> QED BY <4>1, NatMinimum
    <3> QED BY <3>1 DEF SoaTtls
  <2>2. Ttls(m.answers) \subseteq Nat /\ Ttls(m.authorities) \subseteq Nat
    BY MessageParts, TtlsAreNumbers
  <2> QED BY <2>1, <2>2 DEF TtlBounds
<1>3. Min(bounds) \in bounds /\ \A x \in bounds : Min(bounds) <= x
  <2>1. bounds \subseteq Nat /\ bounds # {}
    BY <1>1, <1>2
  <2> HIDE DEF bounds
  <2> QED BY <2>1, NatMinimum
<1>4. CASE ~Keepable(m) \/ TtlBounds(m, kind) = {}
  <2>1. CacheTtl(m, kind) = 0
    BY <1>4 DEF CacheTtl
  <2> QED BY <1>1, <1>2, <2>1
<1>5. CASE Keepable(m) /\ TtlBounds(m, kind) # {}
  <2>1. CacheTtl(m, kind) = Min(bounds)
    BY <1>5 DEF CacheTtl
  <2> HIDE DEF cap
  <2> QED BY <1>1, <1>2, <1>3, <2>1 DEF cap
<1> QED BY <1>4, <1>5

-----------------------------------------------------------------------------
(* Entries of the cache *)

\* Whole seconds of a time.
LEMMA WholeSeconds ==
    ASSUME NEW n \in Nat
    PROVE  /\ n \div PerSecond \in Nat /\ (n \div PerSecond) * PerSecond \in Nat
           /\ (n \div PerSecond) * PerSecond <= n
BY CacheConstants

\* As many seconds.
LEMMA SecondsBack ==
    ASSUME NEW k \in Nat
    PROVE  (k * PerSecond) \div PerSecond = k
BY CacheConstants

\* An entry as insertion and aging leave it.
EntryInv(e) ==
    /\ e \in Entry
    /\ e.born <= e.agedAt /\ e.agedAt <= now
    /\ e.agedAt = e.born + Age(e) * PerSecond
    /\ Age(e) + e.ttl = CacheTtl(e.origin, e.key.question.kind)
    /\ e.response = AdjustTtls(e.origin, Age(e))

\* A hit ages an entry that has not expired by whole seconds, in get_into.
LEMMA AgedEntry ==
    ASSUME now \in Nat, NEW e, EntryInv(e), ~Expired(e)
    PROVE  /\ EntryInv(Aged(e))
           /\ Aged(e).key = e.key /\ Aged(e).origin = e.origin
<1> DEFINE s == Elapsed(e)
           k == Age(e)
           a == Aged(e)
<1>1. /\ e.agedAt \in Nat /\ e.born \in Nat /\ e.ttl \in Nat /\ PerSecond \in Nat
      /\ e.origin \in Message /\ e.response \in Message
  BY CacheConstants DEF EntryInv, Entry
<1>2. s \in Nat /\ s * PerSecond \in Nat /\ e.agedAt + s * PerSecond <= now /\ s < e.ttl
  <2>1. now - e.agedAt \in Nat
    BY <1>1 DEF EntryInv
  <2>2. s \in Nat /\ s * PerSecond \in Nat /\ s * PerSecond <= now - e.agedAt
    BY <2>1, WholeSeconds DEF Elapsed
  <2>3. s < e.ttl
    BY <1>1, <2>2 DEF Expired
  <2> HIDE DEF s
  <2> QED BY <1>1, <2>2, <2>3
<1>3. k \in Nat
  <2>1. e.agedAt - e.born \in Nat
    BY <1>1 DEF EntryInv
  <2> QED BY <2>1, WholeSeconds DEF Age
<1>4. /\ a.agedAt = e.agedAt + s * PerSecond /\ a.ttl = e.ttl - s
      /\ a.response = AdjustTtls(e.response, s)
      /\ a.key = e.key /\ a.origin = e.origin /\ a.born = e.born
  BY DEF Aged, EntryInv, Entry
<1>5. a \in Entry
  <2> HIDE DEF s
  <2>1. AdjustTtls(e.response, s) \in Message
    BY <1>1, <1>2, AdjustedTtls
  <2>2. e.ttl - s \in Nat /\ e.agedAt + s * PerSecond \in Nat
    BY <1>1, <1>2
  <2>3. a = [e EXCEPT !.response = AdjustTtls(e.response, s), !.ttl = e.ttl - s,
                      !.agedAt = e.agedAt + s * PerSecond]
    BY DEF Aged, s
  <2> HIDE DEF a
  <2>4. e \in Entry
    BY DEF EntryInv
  <2> QED BY <2>1, <2>2, <2>3, <2>4 DEF Entry
<1>6. Age(a) = k + s
  <2>1. e.agedAt = e.born + k * PerSecond
    BY DEF EntryInv
  <2> HIDE DEF k, s, a
  <2>2. a.agedAt - a.born = (k + s) * PerSecond
    BY <1>1, <1>2, <1>3, <1>4, <2>1
  <2> QED BY <1>2, <1>3, <2>2, SecondsBack DEF Age
<1>7. a.response = AdjustTtls(a.origin, k + s)
  <2>1. e.response = AdjustTtls(e.origin, k)
    BY DEF EntryInv
  <2> HIDE DEF k, s, a
  <2>2. \A b \in Nat : AdjustTtls(AdjustTtls(e.origin, k), b) = AdjustTtls(e.origin, k + b)
    BY <1>1, <1>3, AdjustedTtls
  <2> QED BY <1>2, <1>4, <2>1, <2>2
<1>8. /\ a.born <= a.agedAt /\ a.agedAt <= now
      /\ a.agedAt = a.born + Age(a) * PerSecond
      /\ Age(a) + a.ttl = CacheTtl(a.origin, a.key.question.kind)
  <2>1. /\ e.agedAt = e.born + k * PerSecond /\ e.born <= e.agedAt
        /\ k + e.ttl = CacheTtl(e.origin, e.key.question.kind)
    BY DEF EntryInv
  <2> HIDE DEF k, s, a
  <2> QED BY <1>1, <1>2, <1>3, <1>4, <1>6, <2>1
<1> HIDE DEF a, k, s
<1>9. EntryInv(a)
  BY <1>5, <1>6, <1>7, <1>8 DEF EntryInv
<1> QED BY <1>4, <1>9 DEF a

\* An answer that is inserted starts its life.
LEMMA FreshEntry ==
    ASSUME now \in Nat, NEW key \in KeyRecord, NEW m \in Message
    PROVE  EntryInv(NewEntry(key, m))
<1> DEFINE e == NewEntry(key, m)
           stored == [m EXCEPT !.id = 0]
<1>1. stored \in Message
  BY DEF Message
<1>2. CacheTtl(m, key.question.kind) = CacheTtl(stored, key.question.kind)
  <2>1. /\ stored.answers = m.answers /\ stored.authorities = m.authorities
        /\ stored.whole = m.whole /\ stored.response = m.response /\ stored.tc = m.tc
        /\ stored.rcode = m.rcode
    BY DEF Message
  <2> HIDE DEF stored
  <2> QED BY <2>1 DEF CacheTtl, Keepable, TtlBounds, Negative, SoaTtls
<1> HIDE DEF stored
<1>3. e = [key |-> key, response |-> stored, agedAt |-> now,
           ttl |-> CacheTtl(m, key.question.kind), born |-> now, origin |-> stored]
  BY DEF NewEntry, stored
<1>4. Age(e) = 0
  BY <1>3, SecondsBack, CacheConstants DEF Age
<1>5. e \in Entry
  BY <1>1, <1>3, CacheTtlBounds DEF Entry
<1>6. stored = AdjustTtls(stored, 0)
  BY <1>1, AdjustedTtls
<1> HIDE DEF e
<1>7. CacheTtl(stored, key.question.kind) \in Nat
  BY <1>1, CacheTtlBounds
<1>8. EntryInv(e)
  BY <1>2, <1>3, <1>4, <1>5, <1>6, <1>7, CacheConstants DEF EntryInv
<1> QED BY <1>8 DEF e

-----------------------------------------------------------------------------
(* The list of entries *)

\* The cache is a bounded map.
MapInv ==
    /\ entries \in Seq(Entry) /\ Len(entries) <= Capacity
    /\ \A i, j \in 1..Len(entries) : entries[i].key = entries[j].key => i = j

\* A list of entries of distinct keys without one of them.
LEMMA WithoutKey ==
    ASSUME MapInv, NEW key
    PROVE  LET w == Without(key)
           IN  /\ w \in Seq(Entry) /\ Len(w) <= Capacity
               /\ \A i \in 1..Len(w) : w[i] \in ToSet(entries) /\ w[i].key # key
               /\ \A i, j \in 1..Len(w) : w[i].key = w[j].key => i = j
               /\ (\E e \in ToSet(entries) : e.key = key) => Len(w) < Capacity
<1> DEFINE places == {i \in 1..Len(entries) : entries[i].key = key}
           n == SelectInSeq(entries, LAMBDA e : e.key = key)
<1>1. /\ Len(entries) \in Nat /\ DOMAIN entries = 1..Len(entries) /\ Capacity \in Nat
      /\ \A i \in 1..Len(entries) : entries[i] \in Entry
  BY LenProperties, ElementOfSeq, CacheConstants DEF MapInv
<1>2. n = IF places # {} THEN Min(places) ELSE 0
  BY DEF SelectInSeq
<1>3. n = 0 <=> places = {}
  <2>1. places \subseteq 1..Len(entries) /\ places \subseteq Nat
    BY <1>1
  <2>2. 0 \notin places
    OBVIOUS
  <2> HIDE DEF places, n
  <2> QED BY <1>2, <2>1, <2>2, NatMinimum
<1>4. n # 0 => n \in places
  <2>1. places \subseteq Nat
    BY <1>1
  <2> HIDE DEF places, n
  <2> QED BY <1>2, <1>3, <2>1, NatMinimum
<1>5. CASE n = 0
  <2>1. Without(key) = entries
    BY <1>5 DEF Without
  <2>2. \A e \in ToSet(entries) : e.key # key
    BY <1>1, <1>3, <1>5 DEF ToSet
  <2> QED BY <1>1, <2>1, <2>2 DEF MapInv, ToSet
<1>6. CASE n # 0
  <2> DEFINE front == SubSeq(entries, 1, n - 1)
             back == SubSeq(entries, n + 1, Len(entries))
             w == front \o back
  <2>1. Without(key) = w
    BY <1>6 DEF Without, RemoveAt
  <2>2. n \in 1..Len(entries) /\ entries[n].key = key
    BY <1>4, <1>6
  <2> HIDE DEF n
  <2>3. /\ front \in Seq(Entry) /\ Len(front) = n - 1
        /\ \A i \in 1..(n - 1) : front[i] = entries[i]
    <3>1. \A i \in 1..(n - 1) : entries[i] \in Entry
      BY <1>1, <2>2
    <3> QED BY <1>1, <2>2, <3>1, SubSeqProperties
  <2>4. /\ back \in Seq(Entry) /\ Len(back) = Len(entries) - n
        /\ \A i \in 1..(Len(entries) - n) : back[i] = entries[n + i]
    <3> DEFINE m == n + 1  k == Len(entries)
    <3>1. m \in Int /\ k \in Int /\ \A i \in m..k : entries[i] \in Entry
      BY <1>1, <2>2
    <3>4. k - m + 1 = k - n /\ \A i \in 1..(k - n) : m + i - 1 = n + i
      <4>1. n \in Int /\ k \in Int /\ m = n + 1
        BY <1>1, <2>2
      <4> HIDE DEF m, k
      <4> QED BY <4>1
    <3>2. (IF m <= k THEN k - m + 1 ELSE 0) = k - n
      <4>1. n \in Int /\ k \in Int /\ m = n + 1 /\ n <= k
        BY <1>1, <2>2
      <4> HIDE DEF m, k
      <4> QED BY <4>1
    <3> HIDE DEF m, k
    <3>3. /\ SubSeq(entries, m, k) \in Seq(Entry)
          /\ Len(SubSeq(entries, m, k)) = IF m <= k THEN k - m + 1 ELSE 0
          /\ \A i \in 1..(k - m + 1) : SubSeq(entries, m, k)[i] = entries[m + i - 1]
      BY <3>1, SubSeqProperties
    <3>5. back = SubSeq(entries, m, k) /\ k = Len(entries)
      BY DEF m, k
    <3> QED BY <3>2, <3>3, <3>4, <3>5
  <2> HIDE DEF front, back
  <2>5. /\ w \in Seq(Entry) /\ Len(w) = Len(entries) - 1
        /\ \A i \in 1..Len(w) : w[i] = IF i < n THEN entries[i] ELSE entries[i + 1]
    <3>1. /\ w \in Seq(Entry) /\ Len(w) = Len(front) + Len(back)
          /\ \A i \in 1..(Len(front) + Len(back)) :
               w[i] = IF i <= Len(front) THEN front[i] ELSE back[i - Len(front)]
      BY <2>3, <2>4, ConcatProperties
    <3> HIDE DEF w
    <3>2. Len(w) = Len(entries) - 1
      BY <1>1, <2>2, <2>3, <2>4, <3>1
    <3>3. ASSUME NEW i \in 1..Len(w)
          PROVE  w[i] = IF i < n THEN entries[i] ELSE entries[i + 1]
      <4>1. CASE i < n
        BY <1>1, <2>2, <2>3, <2>4, <3>1, <4>1
      <4>2. CASE ~(i < n)
        <5>1. w[i] = back[i - (n - 1)]
          BY <1>1, <2>2, <2>3, <2>4, <3>1, <4>2
        <5>2. i - (n - 1) \in 1..(Len(entries) - n)
          BY <1>1, <2>2, <3>2, <4>2
        <5> QED BY <1>1, <2>2, <2>4, <4>2, <5>1, <5>2
      <4> QED BY <4>1, <4>2
    <3> QED BY <3>1, <3>2, <3>3
  <2> HIDE DEF w
  <2>6. ASSUME NEW i \in 1..Len(w)
        PROVE  LET o == IF i < n THEN i ELSE i + 1
               IN  o \in 1..Len(entries) /\ o # n /\ w[i] = entries[o]
    BY <1>1, <2>2, <2>5
  <2>7. \A i \in 1..Len(w) : w[i] \in ToSet(entries) /\ w[i].key # key
    BY <1>1, <2>2, <2>6 DEF MapInv, ToSet
  <2>8. \A i, j \in 1..Len(w) : w[i].key = w[j].key => i = j
    <3> SUFFICES ASSUME NEW i \in 1..Len(w), NEW j \in 1..Len(w), w[i].key = w[j].key
                 PROVE  i = j
      OBVIOUS
    <3>1. PICK p \in 1..Len(entries) : p = (IF i < n THEN i ELSE i + 1) /\ w[i] = entries[p]
      BY <2>6
    <3>2. PICK q \in 1..Len(entries) : q = (IF j < n THEN j ELSE j + 1) /\ w[j] = entries[q]
      BY <2>6
    <3>3. p = q
      BY <3>1, <3>2 DEF MapInv
    <3> QED BY <1>1, <2>2, <2>5, <3>1, <3>2, <3>3
  <2>9. Len(w) < Capacity
    BY <1>1, <2>5 DEF MapInv
  <2> QED BY <1>1, <2>1, <2>5, <2>7, <2>8, <2>9
<1> QED BY <1>5, <1>6

\* An entry in front of the others, as get_into and insert leave it.  The least
\* recently used entry is dropped only if the key is new.
LEMMA Pushed ==
    ASSUME MapInv, NEW key, NEW e \in Entry, e.key = key
    PROVE  LET list == <<e>> \o Without(key)
               p == Bounded(list)
           IN  /\ p \in Seq(Entry) /\ Len(p) <= Capacity
               /\ \A i, j \in 1..Len(p) : p[i].key = p[j].key => i = j
               /\ \A i \in 1..Len(p) : p[i] = e \/ p[i] \in ToSet(entries)
               /\ (\E f \in ToSet(entries) : f.key = key) => p = list
<1> DEFINE w == Without(key)
           list == <<e>> \o w
           p == Bounded(list)
<1>1. /\ w \in Seq(Entry) /\ Len(w) \in Nat
      /\ \A i \in 1..Len(w) : w[i] \in ToSet(entries) /\ w[i].key # key
      /\ \A i, j \in 1..Len(w) : w[i].key = w[j].key => i = j
      /\ (\E f \in ToSet(entries) : f.key = key) => Len(w) < Capacity
  BY WithoutKey, LenProperties
<1>2. Capacity \in Nat \ {0}
  BY CacheConstants
<1> HIDE DEF w
<1>3. /\ list \in Seq(Entry) /\ Len(list) = 1 + Len(w)
      /\ \A i \in 1..Len(list) : list[i] = IF i = 1 THEN e ELSE w[i - 1]
  <2>1. <<e>> \in Seq(Entry) /\ Len(<<e>>) = 1 /\ <<e>>[1] = e
    OBVIOUS
  <2> DEFINE one == <<e>>
  <2> HIDE DEF one
  <2>2. /\ one \o w \in Seq(Entry) /\ Len(one \o w) = Len(one) + Len(w)
        /\ \A i \in 1..(Len(one) + Len(w)) :
             (one \o w)[i] = IF i <= Len(one) THEN one[i] ELSE w[i - Len(one)]
    BY <1>1, <2>1, ConcatProperties DEF one
  <2>3. Len(one) = 1 /\ one[1] = e
    BY <2>1 DEF one
  <2>4. \A i \in 1..(1 + Len(w)) : i <= 1 => i = 1
    BY <1>1
  <2> QED BY <1>1, <2>2, <2>3, <2>4 DEF one
<1> HIDE DEF list
<1>4. /\ p \in Seq(Entry) /\ Len(p) <= Capacity /\ Len(p) <= Len(list)
      /\ \A i \in 1..Len(p) : p[i] = list[i]
  <2>1. CASE Len(list) > Capacity
    <3>1. \A i \in 1..Capacity : list[i] \in Entry
      BY <1>1, <1>2, <1>3, <2>1, ElementOfSeq
    <3>2. /\ SubSeq(list, 1, Capacity) \in Seq(Entry)
          /\ Len(SubSeq(list, 1, Capacity)) = IF 1 <= Capacity THEN Capacity - 1 + 1 ELSE 0
          /\ \A i \in 1..(Capacity - 1 + 1) : SubSeq(list, 1, Capacity)[i] = list[1 + i - 1]
      BY <1>2, <3>1, SubSeqProperties
    <3>3. p = SubSeq(list, 1, Capacity)
      BY <2>1 DEF Bounded
    <3> QED BY <1>1, <1>2, <1>3, <2>1, <3>2, <3>3
  <2>2. CASE ~(Len(list) > Capacity)
    <3>1. p = list
      BY <2>2 DEF Bounded
    <3> QED BY <1>1, <1>2, <1>3, <2>2, <3>1
  <2> QED BY <2>1, <2>2
<1>5. (\E f \in ToSet(entries) : f.key = key) => p = list
  BY <1>1, <1>2, <1>3 DEF Bounded
<1> HIDE DEF p
<1>6. Len(p) \in Nat /\ \A i \in 1..Len(p) : i \in 1..Len(list) /\ p[i] = list[i]
  BY <1>1, <1>3, <1>4, LenProperties
<1>7. \A i \in 1..Len(p) : p[i] = e \/ p[i] \in ToSet(entries)
  BY <1>1, <1>3, <1>6
<1>8. ASSUME NEW i \in 1..Len(p), NEW j \in 1..Len(p), p[i].key = p[j].key
      PROVE  i = j
  <2>1. CASE i = 1 \/ j = 1
    BY <1>1, <1>3, <1>6, <1>8, <2>1
  <2>2. CASE i # 1 /\ j # 1
    <3>1. /\ i - 1 \in 1..Len(w) /\ j - 1 \in 1..Len(w)
          /\ p[i] = w[i - 1] /\ p[j] = w[j - 1]
      BY <1>1, <1>3, <1>6, <2>2
    <3>2. i - 1 = j - 1
      BY <1>1, <1>8, <3>1
    <3> QED BY <1>6, <3>2
  <2> QED BY <2>1, <2>2
<1> QED BY <1>4, <1>5, <1>7, <1>8 DEF p, list, w
=============================================================================
