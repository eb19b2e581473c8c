---------------------------- MODULE MCTransport ----------------------------
(***************************************************************************)
(* Transport for TLC.  Three processes of one source: `first', `second'    *)
(* which is `first' restarted with a greater incarnation, and `other'      *)
(* which was started in a later epoch without one.  `first' may repeat a   *)
(* sequence number with other content, `second' may be asked to publish a  *)
(* snapshot `first' collected.  Two connections are enough for `first' to  *)
(* race its own abandoned session, and for any two of them to race; two    *)
(* frames in flight are what one late answer takes.  The ledger the server *)
(* starts on is empty or holds what `first' sent to an earlier server.     *)
(***************************************************************************)
EXTENDS Transport, TLC

CONSTANTS src, first, second, other, c1, c2

Sent(e, i, q, d) ==
    [source |-> src, epoch |-> e, incarnation |-> i, sequence |-> q, content |-> d]

Greeting(e, i) == [source |-> src, epoch |-> e, incarnation |-> i]

Processes == first :> Greeting(1, 1) @@ second :> Greeting(1, 2) @@ other :> Greeting(2, 1)

Readings ==
    first :> {Sent(1, 1, 1, c1), Sent(1, 1, 1, c2), Sent(1, 1, 2, c1)}
    @@ second :> {Sent(1, 2, 1, c2), Sent(1, 1, 2, c1)}
    @@ other :> {Sent(2, 1, 1, c2)}

Earlier == {Sent(1, 1, 1, c1), Sent(1, 1, 2, c2)}
=============================================================================
