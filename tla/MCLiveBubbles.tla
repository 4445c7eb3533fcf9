-------------------------- MODULE MCLiveBubbles ----------------------------
EXTENDS LiveBubbles

(* A reply that is started over.                                           *)
Again == << <<"so", "replace", "far">>, <<"on">> >>

(* A reply that begins with a directive.                                   *)
Directive == << <<"[[", "]]", "so">>, <<"on">> >>

(* A reply that begins with a directive and is started over.               *)
Both == << <<"[[", "]]", "so">>, <<"on", "replace", "off">> >>

AnyEnding == {"reply", "silent", "failed"}
=============================================================================
