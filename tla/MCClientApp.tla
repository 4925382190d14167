----------------------------- MODULE MCClientApp ----------------------------
(***************************************************************************)
(* ClientApp for TLC.  A behaviour is long in one direction: a match on    *)
(* one session, attempts and fetches without a match, or sessions and      *)
(* processes one after the other.                                          *)
(***************************************************************************)
EXTENDS ClientApp

Within(ticks, commands, sess, fetches, procs) ==
    [ticks |-> ticks, commands |-> commands, sessions |-> sess,
     fetches |-> fetches, processes |-> procs]

MCBounds ==
    {Within(3, 2, 1, 0, 1), Within(0, 0, 3, 0, 1), Within(0, 0, 2, 1, 1),
     Within(0, 0, 1, 2, 1), Within(1, 1, 2, 0, 2)}

=============================================================================
