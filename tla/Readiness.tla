------------------------------ MODULE Readiness ------------------------------
(***************************************************************************)
(* GET /readyz: handleReadiness and its few-second cache                   *)
(* (internal/api/handlers.go) in front of Prober.Ready                     *)
(* (internal/probe/ready.go).                                              *)
(*                                                                         *)
(* Each request is handled by a goroutine of its own.  The cache's mutex   *)
(* is held for the look-up and for the store, never across the two RPCs    *)
(* between them, so several requests probe at once and store in any order. *)
(* The age of the stored result is abstracted to whether it is still       *)
(* fresh: it becomes stale at some moment after it was stored.             *)
(***************************************************************************)
EXTENDS Naturals

CONSTANT Handlers   \* the requests being handled at one time

(* What the RPC endpoint would answer: "sick" is a getHealth status other  *)
(* than healthy, "foreign" a healthy endpoint of another network, "down"   *)
(* one that times out or refuses connections.                              *)
Endpoint == {"ok", "sick", "foreign", "down"}

(* nil and the classes of error Ready returns.                             *)
Verdicts == {"ready", "unreachable", "unhealthy", "wrongNetwork"}

VARIABLES
    endpoint,  \* what the endpoint would answer now
    stored,    \* readyErr; its zero value, nil, reads as ready
    set,       \* readySet
    fresh,     \* time.Since(readyAt) < readinessTTL
    pc,        \* pc[h]: "idle", "health", "network" or "store"
    verdict,   \* verdict[h]: what Ready returned to handler h
    gone,      \* gone[h]: the client of h has hung up, r.Context() is done
    answered,  \* the last answer written, "none" before the first
    met,       \* history, met[h]: what the calls of h met: states of the
               \* endpoint, or "hangup" where the context stopped a call
    basis      \* history: met[h] of the handler whose result is stored

cache == <<stored, set, fresh, basis>>

vars == <<endpoint, cache, pc, verdict, gone, answered, met>>
-----------------------------------------------------------------------------
Init ==
    /\ endpoint \in Endpoint
    /\ stored = "ready"
    /\ set = FALSE
    /\ fresh = FALSE
    /\ pc = [h \in Handlers |-> "idle"]
    /\ verdict = [h \in Handlers |-> "ready"]
    /\ gone = [h \in Handlers |-> FALSE]
    /\ answered = "none"
    /\ met = [h \in Handlers |-> {}]
    /\ basis = {}

(* Slip: only a success is given a lifetime.                               *)
CacheUsableForever == set /\ (fresh \/ stored # "ready")

(* cachedReadiness: there is a result and it is younger than the TTL.      *)
CacheUsable == set /\ fresh

(* A request that the cache answers.                                       *)
ServeCached(h) ==
    /\ pc[h] = "idle"
    /\ CacheUsable
    /\ answered' = stored
    /\ UNCHANGED <<endpoint, cache, pc, verdict, gone, met>>

(* A request that has to probe.                                            *)
StartProbe(h) ==
    /\ pc[h] = "idle"
    /\ ~CacheUsable
    /\ pc' = [pc EXCEPT ![h] = "health"]
    /\ UNCHANGED <<endpoint, cache, verdict, gone, answered, met>>

(* The client hangs up, or the deadline of middleware.Timeout passes.      *)
HangUp(h) ==
    /\ pc[h] \in {"health", "network"}
    /\ ~gone[h]
    /\ gone' = [gone EXCEPT ![h] = TRUE]
    /\ UNCHANGED <<endpoint, cache, pc, verdict, answered, met>>

Conclude(h, v, what) ==
    /\ pc' = [pc EXCEPT ![h] = "store"]
    /\ verdict' = [verdict EXCEPT ![h] = v]
    /\ met' = [met EXCEPT ![h] = @ \cup {what}]
    /\ UNCHANGED <<endpoint, cache, gone, answered>>

(* Either RPC of Ready under a context that is done fails without being    *)
(* sent, and that failure is classified like any other.  One that is       *)
(* already in flight is not interrupted.                                   *)
FailFast(h) ==
    /\ pc[h] \in {"health", "network"}
    /\ gone[h]
    /\ Conclude(h, "unreachable", "hangup")

(* GetHealth.                                                              *)
GetHealth(h) ==
    /\ pc[h] = "health"
    /\ \/ endpoint = "down" /\ Conclude(h, "unreachable", endpoint)
       \/ endpoint = "sick" /\ Conclude(h, "unhealthy", endpoint)
       \/ /\ endpoint \in {"ok", "foreign"}
          /\ pc' = [pc EXCEPT ![h] = "network"]
          /\ met' = [met EXCEPT ![h] = {endpoint}]
          /\ UNCHANGED <<endpoint, cache, verdict, gone, answered>>

(* Slip: the passphrase is fetched and not compared.                       *)
GetNetworkUncompared(h) ==
    /\ pc[h] = "network"
    /\ \/ endpoint = "down" /\ Conclude(h, "unreachable", endpoint)
       \/ endpoint # "down" /\ Conclude(h, "ready", endpoint)

(* Slip: the error of the second call is returned without its class.       *)
GetNetworkUnwrapped(h) ==
    /\ pc[h] = "network"
    /\ \/ endpoint = "down" /\ Conclude(h, "unclassified", endpoint)
       \/ endpoint = "foreign" /\ Conclude(h, "wrongNetwork", endpoint)
       \/ endpoint \in {"ok", "sick"} /\ Conclude(h, "ready", endpoint)

(* GetNetwork, after a healthy answer.  The endpoint may have changed.     *)
GetNetwork(h) ==
    /\ pc[h] = "network"
    /\ \/ endpoint = "down" /\ Conclude(h, "unreachable", endpoint)
       \/ endpoint = "foreign" /\ Conclude(h, "wrongNetwork", endpoint)
       \/ endpoint \in {"ok", "sick"} /\ Conclude(h, "ready", endpoint)

Answer(h) ==
    /\ answered' = verdict[h]
    /\ pc' = [pc EXCEPT ![h] = "idle"]
    /\ gone' = [gone EXCEPT ![h] = FALSE]
    /\ verdict' = [verdict EXCEPT ![h] = "ready"]
    /\ met' = [met EXCEPT ![h] = {}]
    /\ UNCHANGED endpoint

(* The result is stored, stamped with the time of the store, and written   *)
(* to the client.                                                          *)
Store(h) ==
    /\ pc[h] = "store"
    /\ stored' = verdict[h]
    /\ set' = TRUE
    /\ fresh' = TRUE
    /\ basis' = met[h]
    /\ Answer(h)

(* readinessTTL passes.                                                    *)
Age ==
    /\ fresh
    /\ fresh' = FALSE
    /\ UNCHANGED <<endpoint, stored, set, basis, pc, verdict, gone, answered, met>>

(* The endpoint fails, recovers, or is replaced.                           *)
EndpointChanges ==
    /\ \E e \in Endpoint \ {endpoint} : endpoint' = e
    /\ UNCHANGED <<cache, pc, verdict, gone, answered, met>>

Handle(h) ==
    \/ ServeCached(h)
    \/ StartProbe(h)
    \/ FailFast(h)
    \/ GetHealth(h)
    \/ GetNetwork(h)
    \/ Store(h)

Next ==
    \/ \E h \in Handlers : Handle(h) \/ HangUp(h)
    \/ Age
    \/ EndpointChanges

Spec == Init /\ [][Next]_vars
-----------------------------------------------------------------------------
(* Type invariant.                                                         *)
TypeOK ==
    /\ endpoint \in Endpoint
    /\ stored \in Verdicts
    /\ {set, fresh} \subseteq BOOLEAN
    /\ pc \in [Handlers -> {"idle", "health", "network", "store"}]
    /\ verdict \in [Handlers -> Verdicts]
    /\ gone \in [Handlers -> BOOLEAN]
    /\ answered \in Verdicts \cup {"none"}
    /\ met \in [Handlers -> SUBSET (Endpoint \cup {"hangup"})]
    /\ basis \in SUBSET (Endpoint \cup {"hangup"})

(* A 200, and each of the two reasons that speak of what the endpoint      *)
(* answered, is served only on the evidence of the one probe that stored   *)
(* it: the zero value of the cache, the result of another handler or half  *)
(* of a replaced one never stands in for it (handlers.go:41-66).           *)
AnswerHasEvidence ==
    CacheUsable =>
        CASE stored = "ready"        -> /\ basis \cap {"ok", "foreign"} # {}
                                        /\ basis \cap {"ok", "sick"} # {}
          [] stored = "unhealthy"    -> "sick" \in basis
          [] stored = "wrongNetwork" -> "foreign" \in basis
          [] stored = "unreachable"  -> basis \cap {"down", "hangup"} # {}

(* ready.go:13-16: unreachable means that "the endpoint is down, timing    *)
(* out, or refusing connections".  A client that hangs up before getHealth *)
(* is sent, as one may before getNetwork is, makes the call fail with the  *)
(* endpoint not asked; that failure is cached and served to the others, so *)
(* this does not hold.                                                     *)
UnreachableMeansEndpoint ==
    CacheUsable /\ stored = "unreachable" => "down" \in basis
=============================================================================
