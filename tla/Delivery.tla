------------------------------ MODULE Delivery ------------------------------
(***************************************************************************)
(* What relaying one message promises its client, with no upstream         *)
(* connection, API or body in sight.  The client hears one of three        *)
(* things: accepted, refused, or nothing but the close of its connection.  *)
(* Accepted means the upstream has taken the message; refused means it     *)
(* never will; after a close the client cannot know, and may retry.        *)
(***************************************************************************)
VARIABLES
  delivered,  \* the upstream has taken the message
  heard       \* what the client has been told

vars == <<delivered, heard>>

Init == delivered = FALSE /\ heard = "nothing"

Deliver ==
  /\ ~delivered /\ heard \in {"nothing", "closed"}
  /\ delivered' = TRUE
  /\ UNCHANGED heard

Accept == heard = "nothing" /\ delivered /\ heard' = "accepted" /\ UNCHANGED delivered

Refuse == heard = "nothing" /\ ~delivered /\ heard' = "refused" /\ UNCHANGED delivered

Close == heard = "nothing" /\ heard' = "closed" /\ UNCHANGED delivered

Next == Deliver \/ Accept \/ Refuse \/ Close

Spec == Init /\ [][Next]_vars
=============================================================================
