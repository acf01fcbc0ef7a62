------------------------------- MODULE Server -------------------------------
(***************************************************************************)
(* The life of the HTTP API: Server.ListenAndServe and Server.Serve        *)
(* (internal/api/api.go) around the readiness handlers, which stand for    *)
(* the requests in flight.                                                 *)
(*                                                                         *)
(* One goroutine accepts connections until the listener fails or the       *)
(* server is shut down, and sends how it ended to a channel; Serve selects *)
(* between that channel and its context.  Requests have contexts of their  *)
(* own, so the end of that context stops none of them.  A handler may be   *)
(* stuck for ever, as there is no write timeout.                           *)
(***************************************************************************)
EXTENDS Readiness

VARIABLES
    ctxDone,   \* the context of Serve is done
    phase,     \* Serve: "start", "select", "shutdown" or "returned"
    listener,  \* "none", "open", "failed" or "closed"
    errCh,     \* the buffered channel: "empty", "nil" or "error"
    result     \* what was returned: "none", "nil", "error" or "deadline"

server == <<ctxDone, phase, listener, errCh, result>>
svars == <<vars, server>>

ServerInit ==
    /\ Init
    /\ ctxDone = FALSE
    /\ phase = "start"
    /\ listener = "none"
    /\ errCh = "empty"
    /\ result = "none"

Return(r) == phase' = "returned" /\ result' = r

(* ListenAndServe up to Serve.                                             *)
Listen ==
    /\ phase = "start"
    /\ phase' = "select" /\ listener' = "open"
    /\ UNCHANGED <<vars, ctxDone, errCh, result>>

(* TLS files that do not load, or an address that is taken.                *)
ListenFails ==
    /\ phase = "start"
    /\ Return("error") /\ listener' = "failed"
    /\ UNCHANGED <<vars, ctxDone, errCh>>

(* Shutdown closes the listener first; before that, a connection that is   *)
(* kept alive outlives a listener that failed.                             *)
Admits == phase = "select"

(* A handler, which begins on a new request only where one is let in.      *)
HandleRequest(h) ==
    /\ pc[h] = "idle" => Admits
    /\ Handle(h)
    /\ UNCHANGED server

(* What happens to the requests from outside.                              *)
Environment ==
    /\ (\E h \in Handlers : HangUp(h)) \/ Age \/ EndpointChanges
    /\ UNCHANGED server

Cancel ==
    /\ ~ctxDone
    /\ ctxDone' = TRUE
    /\ UNCHANGED <<vars, phase, listener, errCh, result>>

(* srv.Serve returns an error of the listener.                             *)
AcceptFails ==
    /\ listener = "open"
    /\ listener' = "failed" /\ errCh' = "error"
    /\ UNCHANGED <<vars, ctxDone, phase, result>>

(* srv.Serve returns ErrServerClosed.                                      *)
AcceptEnds ==
    /\ listener = "closed" /\ errCh = "empty"
    /\ errCh' = "nil"
    /\ UNCHANGED <<vars, ctxDone, phase, listener, result>>

(* Slip: an error of the listener waits for the context.                   *)
SeeListenerEndLate ==
    /\ phase = "select" /\ errCh # "empty" /\ ctxDone
    /\ Return("nil")
    /\ UNCHANGED <<vars, ctxDone, listener, errCh>>

(* Select takes the channel: an error counts for nothing once the context  *)
(* is done.                                                                *)
SeeListenerEnd ==
    /\ phase = "select" /\ errCh # "empty"
    /\ Return(IF ctxDone THEN "nil" ELSE errCh)
    /\ UNCHANGED <<vars, ctxDone, listener, errCh>>

(* Slip: Close in the place of Shutdown.                                   *)
BeginShutdownAtOnce ==
    /\ phase = "select" /\ ctxDone
    /\ Return("nil")
    /\ listener' = IF listener = "open" THEN "closed" ELSE listener
    /\ UNCHANGED <<vars, ctxDone, errCh>>

(* Select takes ctx.Done, also while the channel holds something.          *)
BeginShutdown ==
    /\ phase = "select" /\ ctxDone
    /\ phase' = "shutdown"
    /\ listener' = IF listener = "open" THEN "closed" ELSE listener
    /\ UNCHANGED <<vars, ctxDone, errCh, result>>

(* Shutdown finds every connection idle.                                   *)
Drained ==
    /\ phase = "shutdown"
    /\ \A h \in Handlers : pc[h] = "idle"
    /\ Return("nil")
    /\ UNCHANGED <<vars, ctxDone, listener, errCh>>

(* The ten seconds of Shutdown are over; those requests are left alone.    *)
DrainTimesOut ==
    /\ phase = "shutdown"
    /\ Return("deadline")
    /\ UNCHANGED <<vars, ctxDone, listener, errCh>>

ServeStep ==
    \/ Listen
    \/ ListenFails
    \/ SeeListenerEnd
    \/ BeginShutdown

ServerNext ==
    \/ \E h \in Handlers : HandleRequest(h)
    \/ Environment
    \/ ServeStep
    \/ Drained
    \/ DrainTimesOut
    \/ AcceptFails
    \/ AcceptEnds
    \/ Cancel

(* Both goroutines run and the timers fire.  A handler need not end.       *)
ServerSpec ==
    /\ ServerInit /\ [][ServerNext]_svars
    /\ WF_svars(ServeStep)
    /\ WF_svars(Drained)
    /\ WF_svars(DrainTimesOut)
    /\ WF_svars(AcceptEnds)
    /\ WF_svars(Environment /\ Age)
-----------------------------------------------------------------------------
(* What Serve returns tells how it ended, whichever of the two ends was    *)
(* seen first: nil only after it was told to stop, with every request it   *)
(* let in answered unless the listener had failed; an error only of the    *)
(* listener; and nothing is returned while the server still listens        *)
(* (api.go:192-193, 211, 246-261).                                         *)
ReturnIsHonest ==
    /\ result = "nil" => ctxDone /\ (listener = "failed" \/ \A h \in Handlers : pc[h] = "idle")
    /\ result = "error" => listener = "failed"
    /\ result = "deadline" => ctxDone
    /\ phase = "returned" => listener # "open" /\ result # "none"

(* Whatever its requests do, a server that is told to stop returns, as     *)
(* does one whose listener has failed (api.go:246-260).                    *)
StopsOnceCancelled == (ctxDone \/ listener = "failed") ~> (phase = "returned")

(* The cache keeps an instance neither out of rotation nor in it: while it *)
(* serves and no handler is stuck, 200 is the answer from some moment on   *)
(* once the endpoint has recovered for good and clients wait for their     *)
(* answers, and no longer while it stays down or serves another network,   *)
(* however many late results of slow probes are stored over newer ones     *)
(* (handlers.go:55-66).                                                    *)
ReadinessFollowsEndpoint ==
    (\A h \in Handlers : WF_svars(HandleRequest(h))) =>
        /\ <>[](phase = "select" /\ endpoint = "ok" /\ \A h \in Handlers : ~gone[h])
              => <>[](answered = "ready")
        /\ <>[](phase = "select" /\ endpoint \in {"down", "foreign"}) => <>[](answered # "ready")
=============================================================================
