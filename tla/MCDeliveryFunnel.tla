-------------------------- MODULE MCDeliveryFunnel --------------------------
(***************************************************************************)
(* Instances of DeliveryFunnel for TLC.                                    *)
(***************************************************************************)
EXTENDS DeliveryFunnel, TLC

CONSTANTS m1, m2, done

MCWords == {done}

\* Two replies that say the same.
MCReplies == {m1, m2}
MCWording == [m \in MCReplies |-> done]

\* Nothing tells the two apart.
EitherReply == Permutations(MCReplies)

=============================================================================
