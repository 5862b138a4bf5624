----------------------------- MODULE FeedMirror -----------------------------
(***************************************************************************)
(* What the incremental updates from Portnet promise.  A source publishes  *)
(* versions of records; a mirror holds one version of each and knows a     *)
(* horizon: up to there it has everything stamped since it was started,    *)
(* apart from versions that were given up, or that came too late.  How the *)
(* mirror asks for changes, and what fails meanwhile, does not show.       *)
(***************************************************************************)
EXTENDS Integers

CONSTANTS
  Ids, Null,
  MayBeLate   (* whether the source may publish a version behind the horizon *)

VARIABLES
  source, mirror,
  givenUp,    \* the records whose newest version was given up
  horizon, start

vars == <<source, mirror, givenUp, horizon, start>>

Init ==
  /\ source = [id \in Ids |-> 0] /\ mirror = source /\ givenUp = {}
  /\ horizon = Null /\ start = Null

\* A new version.  One that is stamped behind the horizon is given up.
Publish ==
  /\ \E id \in Ids :
       /\ source' = [source EXCEPT ![id] = source'[id]]
       /\ source'[id] > source[id]
       /\ \/ (horizon # Null => source'[id] >= horizon) /\ givenUp' = givenUp \ {id}
          \/ /\ MayBeLate /\ horizon # Null /\ source'[id] < horizon
             /\ givenUp' = givenUp \cup {id}
  /\ UNCHANGED <<mirror, horizon, start>>

\* The mirror catches up with the source to a new horizon.  It takes versions
\* the source has or had, and no older ones than it holds.
Synchronize ==
  /\ horizon' # Null /\ start' # Null /\ (start # Null => start' = start)
  /\ DOMAIN mirror' = Ids /\ givenUp' \subseteq Ids
  /\ \A id \in Ids :
       /\ mirror[id] <= mirror'[id] /\ mirror'[id] <= source[id]
       /\ start' <= source[id] /\ source[id] < horizon'
            => mirror'[id] = source[id] \/ id \in givenUp'
  /\ UNCHANGED source

Next == Publish \/ Synchronize

Spec == Init /\ [][Next]_vars
=============================================================================
