------------------------------ MODULE MCProxy -------------------------------
(* Small instances of Proxy for TLC. *)
EXTENDS Proxy

CONSTANTS u1, t1, t2, \* clients
          www         \* a name

Rr(kind, ttl) == [kind |-> kind, ttl |-> ttl, minimum |-> 1, do |-> FALSE, size |-> 0,
                  plain |-> TRUE]
Opt(do, size, plain) == [kind |-> "OPT", ttl |-> 0, minimum |-> 0, do |-> do, size |-> size,
                         plain |-> plain]

Ask(id, kinds, options) ==
    [NoMessage EXCEPT !.id = id, !.opcode = "query", !.rd = TRUE, !.additionals = options,
                      !.questions = [i \in DOMAIN kinds |-> [name |-> www, kind |-> kinds[i]]]]

Say(rcode, answers, authorities) ==
    [NoMessage EXCEPT !.response = TRUE, !.rcode = rcode, !.answers = answers,
                      !.authorities = authorities]

\* A plain question, the same with EDNS and with DO, one with an EDNS option
\* that keeps it from the cache, and two questions at once.
SomeQueries == {Ask(1, <<"A">>, <<>>), Ask(2, <<"A">>, <<Opt(FALSE, 5, TRUE)>>),
                Ask(3, <<"A">>, <<Opt(TRUE, 4, TRUE)>>), Ask(4, <<"A">>, <<Opt(FALSE, 5, FALSE)>>),
                Ask(5, <<"A", "A">>, <<>>)}

\* An address behind an alias, the absence of the name, and an answer cut short.
SomeBodies == {Say("ok", <<Rr("CNAME", 3), Rr("A", 2)>>, <<>>),
               Say("nxdomain", <<>>, <<Rr("SOA", 2)>>),
               [Say("ok", <<>>, <<>>) EXCEPT !.tc = TRUE]}
=============================================================================
