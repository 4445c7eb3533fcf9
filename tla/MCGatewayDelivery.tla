------------------------- MODULE MCGatewayDelivery -------------------------
(***************************************************************************)
(* Instances of GatewayDelivery for TLC: which faults the environment may  *)
(* make, and how often.                                                    *)
(***************************************************************************)
EXTENDS GatewayDelivery

NoFaults == [f \in Faults |-> 0]

\* Events are dropped, by the gateway or by the full queue; the socket stays.
LossyFrames == [NoFaults EXCEPT !["drop"] = 2, !["call"] = 1]

\* The socket closes, and no event is dropped while it is open.  Calls fail
\* when it is closed.
LossySocket == [NoFaults EXCEPT !["cut"] = 2]

\* An event is dropped between two closings of the socket.
Both == [NoFaults EXCEPT !["cut"] = 2, !["drop"] = 1]

\* One of everything.
Everything == [f \in Faults |-> 1]

SortsOfLoss == {LossyFrames, LossySocket, Both, Everything}

\* Two rows of any kind when everything may happen, else more rows, of the kinds
\* that losses are about; five, when they are replies, so that a second gap can
\* be found while the first is chased.
WorthWhile ==
    CASE faults.budget = Everything -> Len(rows) <= 2
      [] faults.budget = Both ->
            Len(rows) <= 4 /\ \A i \in DOMAIN rows : rows[i] = "reply"
      [] faults.budget = LossySocket ->
            Len(rows) <= 4 /\ \A i \in DOMAIN rows : rows[i] \in {"folded", "reply"}
      [] OTHER ->
            \A i \in DOMAIN rows :
                rows[i] = "reply" \/ (rows[i] = "folded" /\ Len(rows) <= 4)

OneCut == {[NoFaults EXCEPT !["cut"] = 1]}
=============================================================================
