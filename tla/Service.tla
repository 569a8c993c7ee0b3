------------------------------ MODULE Service ------------------------------
(***************************************************************************)
(* The process: how cmd/service.go starts the certificate manager and the  *)
(* web server on top of the connections, unwinds a start that fails, and   *)
(* on a signal stops them again against a watchdog, with requests and the  *)
(* manager's refresh going on meanwhile.                                   *)
(*                                                                         *)
(* Time is counted from the signal; before it only how long a request has  *)
(* run matters.                                                            *)
(***************************************************************************)
EXTENDS Naturals, Sequences, Functions

CONSTANTS
    Listeners,  \* the three listeners, in the order they are bound
    Requests,
    Grace,      \* of Server.Stop, for all of its listeners together
    Budget,     \* shutdownTimeout, after which the watchdog exits
    MaxRequest  \* the time a request takes at most

Everything == Range(Listeners)

Nowhere == "nowhere"

ASSUME ListenersAssumption ==
    Listeners \in Seq(STRING) /\ IsInjective(Listeners) /\ Nowhere \notin Everything

ASSUME TimesAssumption ==
    /\ Grace \in Nat /\ MaxRequest \in Nat
    /\ Budget \in Nat /\ Grace < Budget

VARIABLES
    main,       \* where the main goroutine is
    bound,      \* the listeners whose sockets are open
    accepting,  \* the listeners whose servers take requests
    shutting,   \* the listener whose server is being shut down, if any
    left,       \* the listeners whose servers Server.Stop hasn't come to
    manager,    \* the manager's goroutine
    stopped,    \* the manager's stop channel is closed
    open,       \* the connections of the runtime are
    req,        \* the listener each request is on, if any, and how long it has run
    elapsed,    \* the time since the signal
    wedged      \* history: how long stop has waited for a refresh of the manager

vars == <<main, bound, accepting, shutting, left, manager, stopped, open, req, elapsed, wedged>>

NoRequest == [on |-> Nowhere, age |-> 0]

TypeOK ==
    /\ main \in {"creating", "starting", "binding", "unwinding", "failed", "serving",
                 "shutting", "joining", "closing", "done", "killed"}
    /\ bound \subseteq Everything /\ accepting \subseteq Everything /\ left \subseteq Everything
    /\ shutting \in Everything \cup {Nowhere}
    /\ manager \in {"none", "waiting", "refreshing", "ended"}
    /\ stopped \in BOOLEAN /\ open \in BOOLEAN
    /\ req \in [Requests -> [on : Everything \cup {Nowhere}, age : 0 .. MaxRequest]]
    /\ elapsed \in 0 .. Budget /\ wedged \in 0 .. elapsed

-----------------------------------------------------------------------------
Running(r) == req[r].on # Nowhere

Over == main \in {"failed", "done", "killed"}

\* the service has been signalled, and isn't gone yet
Stopping == main \in {"shutting", "joining", "closing"}

Quiet(l) == \A r \in Requests : req[r].on # l

\* NewRuntime has opened the connections
Init ==
    /\ main = "creating"
    /\ bound = {} /\ accepting = {} /\ left = {} /\ shutting = Nowhere
    /\ manager = "none" /\ stopped = FALSE
    /\ open = TRUE
    /\ req = [r \in Requests |-> NoRequest]
    /\ elapsed = 0 /\ wedged = 0

\* NewManager, which fails if the table isn't there, and its Start, which fails if
\* the verified domains can't be loaded: rt.Stop, and the error is returned
CreateManager ==
    /\ main = "creating"
    /\ \/ main' = "starting" /\ UNCHANGED open
       \/ main' = "failed" /\ open' = FALSE
    /\ UNCHANGED <<bound, accepting, shutting, left, manager, stopped, req, elapsed, wedged>>

StartManager ==
    /\ main = "starting"
    /\ \/ main' = "binding" /\ manager' = "waiting" /\ UNCHANGED open
       \/ main' = "failed" /\ open' = FALSE /\ UNCHANGED manager
    /\ UNCHANGED <<bound, accepting, shutting, left, stopped, req, elapsed, wedged>>

FirstClosed(sockets) == sockets \ {Listeners[1]}

\* what is still bound when the next listener can't be
Unbound(sockets) == {}

ManagerForgotten ==
    /\ bound' = Unbound(bound)
    /\ main' = "unwinding"
    /\ UNCHANGED <<accepting, stopped>>

\* the server closes what it has bound, and startService stops what else runs
GiveUp ==
    /\ bound' = Unbound(bound)
    /\ main' = "unwinding" /\ stopped' = TRUE
    /\ UNCHANGED accepting

\* Server.Start binds each in turn, and takes requests once it has them all
Bind ==
    /\ main = "binding"
    /\ \E i \in DOMAIN Listeners :
        /\ bound = {Listeners[j] : j \in 1 .. i - 1}
        /\ \/ /\ bound' = bound \cup {Listeners[i]}
              /\ IF bound' = Everything
                 THEN main' = "serving" /\ accepting' = Everything
                 ELSE UNCHANGED <<main, accepting>>
              /\ UNCHANGED stopped
           \/ GiveUp
    /\ UNCHANGED <<shutting, left, manager, open, req, elapsed, wedged>>

NoWait == stopped

\* Manager.Stop has waited for the goroutine
ManagerGone == manager = "ended"

\* the rest of stop, without a server: the manager's Stop waits for its goroutine
Unwind ==
    /\ main = "unwinding"
    /\ ManagerGone
    /\ main' = "failed" /\ open' = FALSE
    /\ UNCHANGED <<bound, accepting, shutting, left, manager, stopped, req, elapsed, wedged>>

-----------------------------------------------------------------------------
\* The goroutine of the manager: either of what its select has, a refresh for a
\* tick or its end once the channel is closed.  A refresh has no time limit.
Refresh ==
    /\ manager = "waiting" /\ ~Over
    /\ manager' = "refreshing"
    /\ UNCHANGED <<main, bound, accepting, shutting, left, stopped, open, req, elapsed, wedged>>

Refreshed ==
    /\ manager = "refreshing" /\ ~Over
    /\ manager' = "waiting"
    /\ UNCHANGED <<main, bound, accepting, shutting, left, stopped, open, req, elapsed, wedged>>

EndManager ==
    /\ manager = "waiting" /\ stopped /\ ~Over
    /\ manager' = "ended"
    /\ UNCHANGED <<main, bound, accepting, shutting, left, stopped, open, req, elapsed, wedged>>

Begin(r, l) ==
    /\ ~Over /\ l \in accepting /\ ~Running(r)
    /\ req' = [req EXCEPT ![r] = [on |-> l, age |-> 0]]
    /\ UNCHANGED <<main, bound, accepting, shutting, left, manager, stopped, open, elapsed, wedged>>

\* answered, if only with an error
End(r) ==
    /\ ~Over /\ Running(r)
    /\ req' = [req EXCEPT ![r] = NoRequest]
    /\ UNCHANGED <<main, bound, accepting, shutting, left, manager, stopped, open, elapsed, wedged>>

-----------------------------------------------------------------------------
\* The signal: the watchdog is started, and Server.Stop with its time limit.  A
\* second signal waits in the channel and nobody takes it.
Signal ==
    /\ main = "serving"
    /\ main' = "shutting"
    /\ left' = accepting
    /\ UNCHANGED <<bound, accepting, shutting, manager, stopped, open, req, elapsed, wedged>>

\* http.Server.Shutdown of the next, in the order the map happens to have: its
\* listener is closed at once
Shutdown(l) ==
    /\ main = "shutting" /\ shutting = Nowhere /\ l \in left
    /\ shutting' = l
    /\ left' = left \ {l}
    /\ bound' = bound \ {l} /\ accepting' = accepting \ {l}
    /\ UNCHANGED <<main, manager, stopped, open, req, elapsed, wedged>>

WaitedFull == Quiet(shutting)

\* it returns when the listener's requests have ended, or the time that all of
\* them have is up
Waited == Quiet(shutting) \/ elapsed >= Grace

DoneShutdown ==
    /\ main = "shutting" /\ shutting # Nowhere
    /\ Waited
    /\ shutting' = Nowhere
    /\ UNCHANGED <<main, bound, accepting, left, manager, stopped, open, req, elapsed, wedged>>

\* every server has been shut down, and the manager is stopped
StopManager ==
    /\ main = "shutting" /\ shutting = Nowhere /\ left = {}
    /\ main' = "joining" /\ stopped' = TRUE
    /\ UNCHANGED <<bound, accepting, shutting, left, manager, open, req, elapsed, wedged>>

JoinManager ==
    /\ main = "joining"
    /\ ManagerGone
    /\ main' = "closing" /\ open' = FALSE
    /\ UNCHANGED <<bound, accepting, shutting, left, manager, stopped, req, elapsed, wedged>>

Exit ==
    /\ main = "closing"
    /\ main' = "done"
    /\ UNCHANGED <<bound, accepting, shutting, left, manager, stopped, open, req, elapsed, wedged>>

Early == elapsed > Grace

Unwatched == FALSE

Expired == elapsed >= Budget

LogOnly == Stopping /\ Expired /\ UNCHANGED vars

\* the watchdog, if stop has taken that long
Kill ==
    /\ Stopping /\ Expired
    /\ main' = "killed"
    /\ UNCHANGED <<bound, accepting, shutting, left, manager, stopped, open, req, elapsed, wedged>>

\* Time passes while the main goroutine waits: for the signal, for requests while
\* it shuts a server down, or for the manager to end.
Tick ==
    /\ \/ main \in {"serving", "unwinding"} /\ ~ManagerGone
       \/ main = "shutting" /\ shutting # Nowhere /\ ~Waited
       \/ main = "joining" /\ ~ManagerGone /\ manager # "waiting"
    /\ \A r \in Requests : Running(r) => req[r].age < MaxRequest
    /\ req' = [r \in Requests |-> IF Running(r) THEN [req[r] EXCEPT !.age = @ + 1] ELSE req[r]]
    /\ ~Expired
    /\ IF Stopping
       THEN /\ elapsed' = elapsed + 1
            /\ wedged' = IF main = "joining" THEN wedged + 1 ELSE wedged
       ELSE UNCHANGED <<elapsed, wedged>>
    /\ UNCHANGED <<main, bound, accepting, shutting, left, manager, stopped, open>>

Next ==
    \/ CreateManager \/ StartManager \/ Bind \/ Unwind
    \/ Refresh \/ Refreshed \/ EndManager
    \/ \E r \in Requests : End(r) \/ \E l \in Everything : Begin(r, l)
    \/ Signal \/ \E l \in Everything : Shutdown(l)
    \/ DoneShutdown \/ StopManager \/ JoinManager \/ Exit \/ Kill \/ Tick

Spec == Init /\ [][Next]_vars

(***************************************************************************)
(* Fairness: the main goroutine and the manager's are run, requests end by *)
(* their timeouts and time goes by.  The manager's refresh isn't assumed   *)
(* to end, nor a signal to come.                                           *)
(***************************************************************************)
Main ==
    \/ CreateManager \/ StartManager \/ Bind \/ Unwind
    \/ \E l \in Everything : Shutdown(l)
    \/ DoneShutdown \/ StopManager \/ JoinManager \/ Exit \/ Kill

FairSpec ==
    /\ Spec
    /\ WF_vars(Main) /\ SF_vars(EndManager) /\ WF_vars(Tick)
    /\ \A r \in Requests : WF_vars(End(r) /\ req[r].age = MaxRequest)

-----------------------------------------------------------------------------
\* "a failure part way through doesn't leave the process with half a runtime"
\* (service.go:69-70): once a start has failed no socket is open, the manager's
\* goroutine isn't running and the connections are closed, whichever step it was.
NothingHalf ==
    main = "failed" =>
        bound = {} /\ accepting = {} /\ manager \in {"none", "ended"} /\ ~open

\* The connections are closed under no refresh of the manager, and under a request
\* only when the time the servers had together is up (service.go:95-107,
\* server.go:273-291); and no server takes requests by then.
ClosedLast ==
    ~open =>
        /\ manager # "refreshing"
        /\ accepting = {}
        /\ (\E r \in Requests : Running(r)) => elapsed >= Grace

\* "Past this budget something is genuinely wedged" (service.go:16-18): requests
\* that take as long as they can, on each of the listeners, never make the watchdog
\* exit; only refreshes that go on for all that the servers leave of the budget.
KilledOnlyIfWedged ==
    main = "killed" => wedged >= Budget - Grace

\* Once signalled the service is gone, whatever the manager's refresh does.
Stops == Stopping ~> main \in {"done", "killed"}

\* A start that fails comes to its end and returns the error, unless a refresh of
\* the manager never does: no watchdog runs yet (service.go:81-89).
Unwinds == main = "unwinding" ~> (main = "failed" \/ [](manager = "refreshing"))
=============================================================================
