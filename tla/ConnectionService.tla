------------------------- MODULE ConnectionService --------------------------
(***************************************************************************)
(* What the client promises about its connections, without its stages,     *)
(* goroutines and channels: it uses one connection at a time, that of the  *)
(* latest request, and every other one that is established is closed.  A   *)
(* connection that is over is not used again.                              *)
(***************************************************************************)
EXTENDS Naturals, Sequences

VARIABLE life   \* what has become of every request so far: "asked", "ready", "used", "over"

Init == life = <<>>

\* The connection in use is given up.
GivenUp == [i \in DOMAIN life |-> IF life[i] = "used" THEN "over" ELSE life[i]]

\* A new request; one that cannot be made is over at once.
Ask == \E outcome \in {"asked", "over"} : life' = Append(GivenUp, outcome)

\* It is established, or fails, or nobody waits for it any more.
Answer(i) ==
    /\ life[i] = "asked"
    /\ \E outcome \in {"ready", "over"} : life' = [life EXCEPT ![i] = outcome]

\* Only the connection asked for last is used, in place of the one there is.
Use ==
    /\ life # <<>>
    /\ life[Len(life)] = "ready"
    /\ life' = [GivenUp EXCEPT ![Len(life)] = "used"]

\* Only a connection that was overtaken by a later request is turned away.
Discard(i) ==
    /\ i # Len(life)
    /\ life[i] = "ready"
    /\ life' = [life EXCEPT ![i] = "over"]

Leave == life' = GivenUp

\* The process ends.
Stop == life' = [i \in DOMAIN life |-> "over"]

Next ==
    \/ Ask \/ Use \/ Leave \/ Stop
    \/ \E i \in DOMAIN life : Answer(i) \/ Discard(i)

Spec == Init /\ [][Next]_life

=============================================================================
