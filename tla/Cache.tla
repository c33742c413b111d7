------------------------------- MODULE Cache --------------------------------
(***************************************************************************)
(* The answer cache (proxy/cache.rs): a bounded map, the most recently     *)
(* used entry first.  An entry ages when it is hit, by whole seconds: the  *)
(* rest of a second stays in "agedAt".  The clock runs in fractions of a   *)
(* second.                                                                 *)
(*                                                                         *)
(* "born" and "origin" are history: when an answer came, and the answer.   *)
(***************************************************************************)
EXTENDS Wire

CONSTANTS Capacity, \* cache_size
          PerSecond \* clock ticks of a second

ASSUME CacheConstants == Capacity \in Nat \ {0} /\ PerSecond \in Nat \ {0}

VARIABLES now, entries

KeyRecord == [question : Question, edns : BOOLEAN, do : BOOLEAN, dnssec : BOOLEAN]
Entry == [key : KeyRecord, response : Message, agedAt : Nat, ttl : Nat,
          born : Nat, origin : Message]

CacheOK == now \in Nat /\ entries \in Seq(Entry)

-----------------------------------------------------------------------------
(* Lookup *)

Elapsed(e) == (now - e.agedAt) \div PerSecond

\* Mutation of Aged: the fraction of a second is dropped.
AgedNow(e) ==
    LET seconds == Elapsed(e)
    IN  IF seconds = 0 THEN e
        ELSE [e EXCEPT !.response = AdjustTtls(@, seconds), !.ttl = @ - seconds,
                       !.agedAt = now]

\* The entry, with its TTLs relative to the last whole second of its life.
Aged(e) ==
    LET seconds == Elapsed(e)
    IN  [e EXCEPT !.response = AdjustTtls(@, seconds), !.ttl = @ - seconds,
                  !.agedAt = @ + seconds * PerSecond]

Found(key) == {e \in ToSet(entries) : e.key = key}
Expired(e) == Elapsed(e) >= e.ttl
Fresh(key) == {e \in Found(key) : ~Expired(e)}

\* A key has one entry at most.
Without(key) ==
    LET i == SelectInSeq(entries, LAMBDA e : e.key = key)
    IN  IF i = 0 THEN entries ELSE RemoveAt(entries, i)

\* A hit is the most recently used entry from now on.
GetHit(key, e) == entries' = <<Aged(e)>> \o Without(key) /\ UNCHANGED now

\* An expired entry is removed.
GetMiss(key) == Fresh(key) = {} /\ entries' = Without(key) /\ UNCHANGED now

-----------------------------------------------------------------------------
(* Insertion *)

\* The least recently used entry makes room.
Bounded(s) == IF Len(s) > Capacity THEN SubSeq(s, 1, Capacity) ELSE s

NewEntry(key, m) ==
    [key |-> key, response |-> [m EXCEPT !.id = 0], agedAt |-> now,
     ttl |-> CacheTtl(m, key.question.kind), born |-> now, origin |-> [m EXCEPT !.id = 0]]

Insert(key, m) ==
    /\ entries' = IF CacheTtl(m, key.question.kind) = 0 THEN entries
                  ELSE Bounded(<<NewEntry(key, m)>> \o Without(key))
    /\ UNCHANGED now

InitCache == now = 0 /\ entries = <<>>

-----------------------------------------------------------------------------
(* Properties *)

Age(e) == (e.agedAt - e.born) \div PerSecond

\* However often an entry is hit, and at whatever fractions of a second, it
\* expires when the answer does, and shows the TTLs that the answer has left:
\* aging in steps neither extends nor shortens its life (get_into).
AgingExact ==
    \A e \in ToSet(entries) :
        /\ e.agedAt = e.born + Age(e) * PerSecond
        /\ Age(e) + e.ttl = CacheTtl(e.origin, e.key.question.kind)
        /\ e.response = AdjustTtls(e.origin, Age(e))
=============================================================================
