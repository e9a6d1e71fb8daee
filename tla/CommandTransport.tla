------------------------- MODULE CommandTransport -------------------------
(***************************************************************************)
(* The request/reply transport of the main thread                          *)
(* (js/src/shared/command-transport.ts).  Every command posted to the      *)
(* worklet carries a fresh request id; the promise of the command waits in *)
(* _pendingCommands until a reply with that id, the 10 s timer or close()  *)
(* settles it.                                                             *)
(*                                                                         *)
(* TransportSpec is also the abstract promise of the component: replies    *)
(* may be late, repeated or for a request that is gone, and a request is   *)
(* still settled at most once.  AudioPipelineTrackProcessor implements it. *)
(***************************************************************************)
EXTENDS Naturals

CONSTANT MaxRequests    \* bound on the request ids handed out

ASSUME RequestsAssumption == MaxRequests \in Nat

VARIABLES
    nextRequestId,      \* _nextRequestId
    pending,            \* the keys of _pendingCommands
    outcome             \* history: how the promise of each request ended

transportVars == <<nextRequestId, pending, outcome>>

RequestIds == 1 .. MaxRequests
Settled == {"ok", "error", "timeout", "closed"}
Outcomes == {"unsent", "waiting"} \cup Settled

TransportInit ==
    /\ nextRequestId = 1
    /\ pending = {}
    /\ outcome = [id \in RequestIds |-> "unsent"]

\* The state change of every way to settle one pending command.
Settle(id, how) ==
    /\ pending' = pending \ {id}
    /\ outcome' = [outcome EXCEPT ![id] = how]
    /\ UNCHANGED nextRequestId

-----------------------------------------------------------------------------
Send ==
    /\ nextRequestId \in RequestIds
    /\ nextRequestId' = nextRequestId + 1
    /\ pending' = pending \cup {nextRequestId}
    /\ outcome' = [outcome EXCEPT ![nextRequestId] = "waiting"]

\* postMessage throws: the id is used up and the promise rejects at once.
SendFails ==
    /\ nextRequestId \in RequestIds
    /\ nextRequestId' = nextRequestId + 1
    /\ outcome' = [outcome EXCEPT ![nextRequestId] = "error"]
    /\ UNCHANGED pending

\* A reply for a request that is no longer pending is ignored.
Resolve(id) ==
    \/ id \in pending /\ Settle(id, "ok")
    \/ id \notin pending /\ UNCHANGED transportVars

Reject(id) ==
    \/ id \in pending /\ Settle(id, "error")
    \/ id \notin pending /\ UNCHANGED transportVars

Timeout(id) == id \in pending /\ Settle(id, "timeout")

\* Mutant: the promises are rejected but stay in the map.
CloseKeepingMap ==
    /\ outcome' = [id \in RequestIds |-> IF id \in pending THEN "closed" ELSE outcome[id]]
    /\ UNCHANGED <<nextRequestId, pending>>

Close ==
    /\ pending' = {}
    /\ outcome' = [id \in RequestIds |-> IF id \in pending THEN "closed" ELSE outcome[id]]
    /\ UNCHANGED nextRequestId

TransportNext ==
    \/ Send
    \/ SendFails
    \/ \E id \in RequestIds : Resolve(id) \/ Reject(id) \/ Timeout(id)
    \/ Close

TransportSpec == TransportInit /\ [][TransportNext]_transportVars

-----------------------------------------------------------------------------
TransportTypeOK ==
    /\ nextRequestId \in 1 .. MaxRequests + 1
    /\ pending \in SUBSET RequestIds
    /\ outcome \in [RequestIds -> Outcomes]

\* The pending map and the promises agree: a promise is unsettled exactly
\* while its request is in the map, so none is forgotten by settle or close.
PendingAreWaiting == pending = {id \in RequestIds : outcome[id] = "waiting"}

\* Ids are handed out in order and never reused.
IdsAreFresh == \A id \in RequestIds : outcome[id] = "unsent" <=> id >= nextRequestId

TransportInv == TransportTypeOK /\ PendingAreWaiting /\ IdsAreFresh

\* A command's promise settles at most once: no late reply, timer or close
\* changes how it ended.
SettledForGood ==
    [][\A id \in RequestIds : outcome[id] \in Settled => outcome'[id] = outcome[id]]_transportVars

=============================================================================
