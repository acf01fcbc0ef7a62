---------------------------- MODULE ServerProofs ----------------------------
(***************************************************************************)
(* Theorems about Server and the readiness probes that it serves, for any  *)
(* set of handlers.                                                        *)
(***************************************************************************)
EXTENDS Server, TLAPS

(* What a verdict says was met by the probe that came to it.               *)
Supports(met_, v) ==
    /\ v = "ready"        => met_ \cap {"ok", "foreign"} # {} /\ met_ \cap {"ok", "sick"} # {}
    /\ v = "unhealthy"    => "sick" \in met_
    /\ v = "wrongNetwork" => "foreign" \in met_
    /\ v = "unreachable"  => met_ \cap {"down", "hangup"} # {}

(* A probe that has passed getHealth met an endpoint that answered it; a   *)
(* verdict has its evidence from then on, in the handler and in the cache. *)
EvidenceIsKept ==
    /\ \A h \in Handlers :
          /\ pc[h] = "network" => met[h] \cap {"ok", "foreign"} # {}
          /\ pc[h] = "store" => Supports(met[h], verdict[h])
    /\ set => Supports(basis, stored)

(* What each phase of Serve knows of the context and of the listener, and  *)
(* what the channel says of the latter.                                    *)
PhasesAgree ==
    /\ phase \in {"start", "select", "shutdown", "returned"}
    /\ phase = "start" => listener = "none"
    /\ phase = "select" => listener \in {"open", "failed"}
    /\ phase = "shutdown" => ctxDone /\ listener # "open"
    /\ phase # "returned" => result = "none"
    /\ errCh \in {"empty", "nil", "error"}
    /\ errCh = "error" => listener = "failed"
    /\ errCh = "nil" => listener = "closed"

IInv == TypeOK /\ EvidenceIsKept /\ PhasesAgree /\ ReturnIsHonest

(* A server that has not started.                                          *)
LEMMA InitIInv == ServerInit => IInv
BY DEF ServerInit, Init, IInv, TypeOK, EvidenceIsKept, PhasesAgree, ReturnIsHonest, Endpoint,
       Verdicts, Supports

(* The verdict of a probe is typed and supported by what it met last.      *)
LEMMA ConcludeKeeps ==
  ASSUME TypeOK, EvidenceIsKept, NEW h \in Handlers, NEW v \in Verdicts,
         NEW what \in Endpoint \cup {"hangup"}, Conclude(h, v, what),
         Supports(met[h] \cup {what}, v)
  PROVE  TypeOK' /\ EvidenceIsKept'
<1>1. TypeOK'
  BY DEF TypeOK, Conclude, cache
<1>2. EvidenceIsKept'
  BY DEF TypeOK, EvidenceIsKept, Conclude, cache, Supports
<1> QED  BY <1>1, <1>2

(* A step of a handler.                                                    *)
LEMMA HandleKeeps ==
  ASSUME TypeOK, EvidenceIsKept, NEW h \in Handlers, Handle(h)
  PROVE  TypeOK' /\ EvidenceIsKept'
<1> USE DEF Endpoint, Verdicts
<1>1. CASE ServeCached(h)
  BY <1>1 DEF ServeCached, TypeOK, EvidenceIsKept, cache, Supports
<1>2. CASE StartProbe(h)
  BY <1>2 DEF StartProbe, TypeOK, EvidenceIsKept, cache, Supports
<1>3. CASE FailFast(h)
  <2>1. Supports(met[h] \cup {"hangup"}, "unreachable")
    BY DEF Supports
  <2> QED  BY <1>3, <2>1, ConcludeKeeps DEF FailFast
<1>4. CASE GetHealth(h)
  <2>1. CASE endpoint = "down" /\ Conclude(h, "unreachable", endpoint)
    <3>1. Supports(met[h] \cup {endpoint}, "unreachable")
      BY <2>1 DEF Supports
    <3> QED  BY <2>1, <3>1, ConcludeKeeps
  <2>2. CASE endpoint = "sick" /\ Conclude(h, "unhealthy", endpoint)
    <3>1. Supports(met[h] \cup {endpoint}, "unhealthy")
      BY <2>2 DEF Supports
    <3> QED  BY <2>2, <3>1, ConcludeKeeps
  <2>3. CASE /\ endpoint \in {"ok", "foreign"}
             /\ pc' = [pc EXCEPT ![h] = "network"]
             /\ met' = [met EXCEPT ![h] = {endpoint}]
             /\ UNCHANGED <<endpoint, cache, verdict, gone, answered>>
    BY <2>3 DEF TypeOK, EvidenceIsKept, cache, Supports
  <2> QED  BY <1>4, <2>1, <2>2, <2>3 DEF GetHealth
<1>5. CASE GetNetwork(h)
  <2>1. met[h] \cap {"ok", "foreign"} # {}
    BY <1>5 DEF GetNetwork, EvidenceIsKept
  <2>2. /\ endpoint = "down" => Supports(met[h] \cup {endpoint}, "unreachable")
        /\ endpoint = "foreign" => Supports(met[h] \cup {endpoint}, "wrongNetwork")
        /\ endpoint \in {"ok", "sick"} => Supports(met[h] \cup {endpoint}, "ready")
    BY <2>1 DEF Supports
  <2>3. endpoint \in Endpoint \cup {"hangup"}
    BY DEF TypeOK
  <2> QED  BY <1>5, <2>2, <2>3, ConcludeKeeps DEF GetNetwork
<1>6. CASE Store(h)
  <2>1. TypeOK'
    BY <1>6 DEF Store, Answer, TypeOK
  <2>2. EvidenceIsKept'
    BY <1>6 DEF Store, Answer, TypeOK, EvidenceIsKept, Supports
  <2> QED  BY <2>1, <2>2
<1> QED  BY <1>1, <1>2, <1>3, <1>4, <1>5, <1>6 DEF Handle

(* A handler that is idle stays so unless the server lets a request in.    *)
LEMMA HandlersStayIdle ==
  ASSUME NEW h \in Handlers, HandleRequest(h), phase = "returned",
         \A g \in Handlers : pc[g] = "idle"
  PROVE  FALSE
BY DEF HandleRequest, Admits

(* Every step keeps the invariant: a step of a handler or of what is       *)
(* around it cannot disturb the phases, a step of Serve not the evidence.  *)
LEMMA NextIInv == IInv /\ [ServerNext]_svars => IInv'
<1> SUFFICES ASSUME IInv, [ServerNext]_svars PROVE IInv'
  OBVIOUS
<1> USE DEF IInv
<1> DEFINE Same == /\ UNCHANGED <<ctxDone, phase, listener, errCh, result>>
                   /\ phase = "returned" /\ (\A h \in Handlers : pc[h] = "idle")
                         => \A h \in Handlers : pc'[h] = "idle"
<1>0. Same => PhasesAgree' /\ ReturnIsHonest'
  BY DEF PhasesAgree, ReturnIsHonest
<1>a. UNCHANGED vars => TypeOK' /\ EvidenceIsKept'
  BY DEF vars, cache, TypeOK, EvidenceIsKept, Supports
<1>b. UNCHANGED vars => pc' = pc
  BY DEF vars
<1>1. ASSUME NEW h \in Handlers, HandleRequest(h) PROVE IInv'
  <2>1. TypeOK' /\ EvidenceIsKept'
    BY <1>1, HandleKeeps DEF HandleRequest
  <2>2. Same
    BY <1>1, HandlersStayIdle DEF HandleRequest, server
  <2> QED  BY <1>0, <2>1, <2>2
<1>2. CASE Environment
  <2>1. TypeOK' /\ EvidenceIsKept'
    <3> USE DEF TypeOK, EvidenceIsKept, Supports, cache
    <3>1. CASE \E h \in Handlers : HangUp(h)
      BY <3>1 DEF HangUp
    <3>2. CASE Age
      BY <3>2 DEF Age
    <3>3. CASE EndpointChanges
      BY <3>3 DEF EndpointChanges, Endpoint
    <3> QED  BY <1>2, <3>1, <3>2, <3>3 DEF Environment
  <2>2. Same
    BY <1>2 DEF Environment, HangUp, Age, EndpointChanges, server
  <2> QED  BY <1>0, <2>1, <2>2
<1>3. CASE Listen \/ ListenFails
  BY <1>3, <1>a, <1>b DEF Listen, ListenFails, Return, PhasesAgree, ReturnIsHonest
<1>4. CASE SeeListenerEnd
  BY <1>4, <1>a, <1>b DEF SeeListenerEnd, Return, PhasesAgree, ReturnIsHonest
<1>5. CASE BeginShutdown
  BY <1>5, <1>a, <1>b DEF BeginShutdown, PhasesAgree, ReturnIsHonest
<1>6. CASE Drained \/ DrainTimesOut
  BY <1>6, <1>a, <1>b DEF Drained, DrainTimesOut, Return, PhasesAgree, ReturnIsHonest
<1>7. CASE AcceptFails \/ AcceptEnds
  BY <1>7, <1>a, <1>b DEF AcceptFails, AcceptEnds, PhasesAgree, ReturnIsHonest
<1>8. CASE Cancel
  BY <1>8, <1>a, <1>b DEF Cancel, PhasesAgree, ReturnIsHonest
<1>9. CASE UNCHANGED svars
  BY <1>9, <1>0, <1>a, <1>b DEF svars, server
<1> QED  BY <1>1, <1>2, <1>3, <1>4, <1>5, <1>6, <1>7, <1>8, <1>9 DEF ServerNext, ServeStep

(* The state of the cache and of the handlers is well typed.               *)
THEOREM ServerTypeCorrect == ServerSpec => []TypeOK
<1> QED  BY InitIInv, NextIInv, PTL DEF ServerSpec, IInv

(* No answer of /readyz without the evidence of one probe, however many    *)
(* handlers probe and store at once.                                       *)
THEOREM ServerAnswerHasEvidence == ServerSpec => []AnswerHasEvidence
<1>1. IInv => AnswerHasEvidence
  BY DEF IInv, TypeOK, EvidenceIsKept, Supports, AnswerHasEvidence, CacheUsable, Verdicts
<1> QED  BY <1>1, InitIInv, NextIInv, PTL DEF ServerSpec

(* What Serve returns tells how it ended.                                  *)
THEOREM ServerReturnIsHonest == ServerSpec => []ReturnIsHonest
<1> QED  BY InitIInv, NextIInv, PTL DEF ServerSpec, IInv
=============================================================================
