------------------------------ MODULE Portnet ------------------------------
(***************************************************************************)
(* The Portnet server as its clients use it: it stamps the versions of its *)
(* records (port calls, vessel details) and answers requests for the ones  *)
(* stamped in a time window.  Nodes read clocks of their own.              *)
(***************************************************************************)
EXTENDS Integers

CONSTANTS
  Ids,        (* of the records *)
  Skews,      (* how far the nodes' clocks are ahead of the server's *)
  MaxDelay,   (* a version becomes visible at most this long after its stamp *)
  Second,     (* milliseconds (ticks) in a second *)
  MaxClock    (* bound: the clock stops there *)

ASSUME PortnetAssumption ==
  /\ Skews \subseteq Int /\ Skews # {}
  /\ MaxDelay \in Nat /\ MaxClock \in Nat /\ Second \in Nat \ {0}

VARIABLES
  clock,      \* the server's
  published   \* stamp of each record's newest version; 0: not published yet

portnetVars == <<clock, published>>

Stamps == Nat
Nothing == [id \in Ids |-> 0]

PortnetInit == clock = 1 /\ published = Nothing

Ticks == clock < MaxClock /\ clock' = clock + 1 /\ UNCHANGED published

Publishes ==
  \E id \in Ids : \E t \in (clock - MaxDelay)..clock :
    /\ t > published[id]
    /\ published' = [published EXCEPT ![id] = t]
    /\ UNCHANGED clock

-----------------------------------------------------------------------------
\* Request parameters are formatted as HHmmss: milliseconds are cut off.
Floor(t) == t - (t % Second)

\* The answer to a request: the versions stamped from start up to, but without,
\* end; a server that includes the end answers more, never less.
Answer(start, end) ==
  [id \in Ids |-> IF start <= published[id] /\ published[id] < end THEN published[id] ELSE 0]

\* A list saved over the data: known records are updated, new ones are added.
Overwrite(data, list) == [id \in Ids |-> IF list[id] # 0 THEN list[id] ELSE data[id]]

PortnetTypeOK == clock \in Nat /\ published \in [Ids -> Stamps]
=============================================================================
