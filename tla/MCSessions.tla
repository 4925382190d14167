------------------------------ MODULE MCSessions ----------------------------
(***************************************************************************)
(* Sessions for TLC: connections and players may be exchanged.             *)
(***************************************************************************)
EXTENDS Sessions, TLC

CONSTANTS c1, c2, c3, p1, p2, p3

\* Quick play without wishes, for a region, and with a latency; and a join by number.
MCRequests ==
    {[preferred |-> "", latency |-> <<>>, match |-> 0],
     [preferred |-> "eu", latency |-> <<>>, match |-> 0],
     [preferred |-> "", latency |-> [eu |-> 20, us |-> 90], match |-> 0],
     [preferred |-> "", latency |-> <<>>, match |-> 1]}

Exchange == Permutations(Conns) \cup Permutations(Players)

=============================================================================
