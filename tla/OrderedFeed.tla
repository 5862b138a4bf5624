----------------------------- MODULE OrderedFeed -----------------------------
(***************************************************************************)
(* What the AIS reader promises to those who take its messages.  A server  *)
(* sends sentences, numbered one by one.  Every message delivered is made  *)
(* of one sentence or of two, in the order they were sent, all of them     *)
(* sent before and newer than anything delivered so far; what has been     *)
(* delivered stays so.  Sentences may be lost.  Connections, buffers and   *)
(* the queue do not show.                                                  *)
(***************************************************************************)
EXTENDS Integers, Sequences

VARIABLES
  sent,       \* the number of sentences sent
  delivered   \* each message's first and last sentence

Init == sent = 0 /\ delivered = <<>>

Newest == IF delivered = <<>> THEN 0 ELSE delivered[Len(delivered)][2]

Send == sent' = sent + 1 /\ UNCHANGED delivered

Deliver ==
  /\ \E first \in (Newest + 1)..sent : \E last \in first..sent :
       delivered' = Append(delivered, <<first, last>>)
  /\ UNCHANGED sent

Next == Send \/ Deliver

Spec == Init /\ [][Next]_<<sent, delivered>>
=============================================================================
