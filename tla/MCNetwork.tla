----------------------------- MODULE MCNetwork -----------------------------
(* A small instance of Network for TLC. *)
EXTENDS Network

CONSTANTS managed, dashed, foreign, k1, k2, a1, long, missing

HostInterfaces ==
    {[publicKey |-> k1, peers |-> {}, addresses |-> {}],
     [publicKey |-> k1, peers |-> {k1, k2}, addresses |-> {a1}],
     [publicKey |-> k2, peers |-> {k2}, addresses |-> {a1}]}

UpTo(n, S) == UNION {[1 .. m -> S] : m \in 0 .. n}

(* A sound body, with one part of it varied at a time, and any three peers. *)
Sound == [form |-> "decoded", mode |-> "APPLY", name |-> managed, port |-> 65535,
          addresses |-> <<"cidr">>, peers |-> <<>>]
Peers == [key : {k1, k2, long, missing}, allowedIps : {<<>>, <<"no cidr">>}]
             \union [key : {k1}, allowedIps : UpTo(2, {"cidr", "long"})]

HostBodies ==
    {[form |-> f] : f \in {"missing", "undecodable", "unknown field"}}
        \union {[Sound EXCEPT !.mode = m, !.name = n] : m \in {"DRY_RUN", "APPLY", "PLAN"}, n \in Names}
        \union {[Sound EXCEPT !.port = p] : p \in {0, 1, 65535, 65536}}
        \union {[Sound EXCEPT !.addresses = s] : s \in UpTo(2, {"cidr", "no cidr", "long"})}
        \union {[Sound EXCEPT !.peers = s] : s \in UpTo(3, Peers)}
=============================================================================
