--------------------------- MODULE ServiceProofs ---------------------------
(***************************************************************************)
(* Starting and stopping the process, for any listeners, any number of     *)
(* requests and any times: that a failed start leaves nothing running,     *)
(* that the connections are closed last, and what the watchdog says.       *)
(***************************************************************************)
EXTENDS Service, TLAPS

LEMMA ListenersType == \A i \in DOMAIN Listeners : Listeners[i] \in Everything
BY DEF Everything, Range

\* The type invariant of the process holds in every state.
THEOREM Typing == Spec => []TypeOK
<1> USE TimesAssumption
<1>1. Init => TypeOK
  <2> SUFFICES ASSUME Init PROVE TypeOK
    OBVIOUS
  <2>1. NoRequest \in [on : Everything \cup {Nowhere}, age : 0 .. MaxRequest]
    BY DEF NoRequest
  <2>2. req \in [Requests -> [on : Everything \cup {Nowhere}, age : 0 .. MaxRequest]]
    BY <2>1 DEF Init
  <2>3. elapsed \in 0 .. Budget /\ wedged \in 0 .. elapsed
    BY DEF Init
  <2>4. bound \subseteq Everything /\ accepting \subseteq Everything /\ left \subseteq Everything
    BY DEF Init
  <2>5. main = "creating" /\ manager = "none" /\ shutting = Nowhere /\ stopped = FALSE /\ open = TRUE
    BY DEF Init
  <2> QED
    BY <2>2, <2>3, <2>4, <2>5 DEF TypeOK
<1>2. TypeOK /\ [Next]_vars => TypeOK'
  <2> SUFFICES ASSUME TypeOK, [Next]_vars
               PROVE  TypeOK'
    OBVIOUS
  <2>1. CASE CreateManager \/ StartManager \/ Unwind
    BY <2>1 DEF CreateManager, StartManager, Unwind, TypeOK
  <2>2. CASE Bind
    BY <2>2, ListenersType DEF Bind, GiveUp, Unbound, TypeOK
  <2>3. CASE Refresh \/ Refreshed \/ EndManager
    BY <2>3 DEF Refresh, Refreshed, EndManager, TypeOK
  <2>4. ASSUME NEW r \in Requests, NEW l \in Everything, Begin(r, l) PROVE TypeOK'
    BY <2>4 DEF Begin, TypeOK
  <2>5. ASSUME NEW r \in Requests, End(r) PROVE TypeOK'
    BY <2>5 DEF End, NoRequest, TypeOK
  <2>6. CASE Signal \/ StopManager \/ DoneShutdown
    BY <2>6 DEF Signal, StopManager, DoneShutdown, TypeOK
  <2>7. ASSUME NEW l \in Everything, Shutdown(l) PROVE TypeOK'
    BY <2>7 DEF Shutdown, TypeOK
  <2>8. CASE JoinManager \/ Exit \/ Kill
    BY <2>8 DEF JoinManager, Exit, Kill, TypeOK
  <2>9. CASE Tick
    <3>1. req' \in [Requests -> [on : Everything \cup {Nowhere}, age : 0 .. MaxRequest]]
      <4>1. \A r \in Requests : Running(r) => req[r].age + 1 \in 0 .. MaxRequest
        BY <2>9 DEF Tick, TypeOK
      <4> QED
        BY <2>9, <4>1 DEF Tick, TypeOK
    <3>2. elapsed' \in 0 .. Budget /\ wedged' \in 0 .. elapsed'
      BY <2>9 DEF Tick, Expired, TypeOK
    <3> QED
      BY <2>9, <3>1, <3>2 DEF Tick, TypeOK
  <2>10. CASE UNCHANGED vars
    BY <2>10 DEF vars, TypeOK
  <2> QED
    BY <2>1, <2>2, <2>3, <2>4, <2>5, <2>6, <2>7, <2>8, <2>9, <2>10 DEF Next
<1> QED
  BY <1>1, <1>2, PTL DEF Spec

-----------------------------------------------------------------------------
(***************************************************************************)
(* The invariant: what is up at each place of the main goroutine; that a   *)
(* request is on a server that takes requests or waits for them, until the *)
(* servers' time is up; and that the time since the signal is at most that *)
(* and what the manager has been waited for.                               *)
(***************************************************************************)
Up ==
    /\ main \in {"creating", "starting"} => manager = "none"
    /\ main \in {"creating", "starting", "binding", "unwinding"} =>
        accepting = {} /\ open /\ \A r \in Requests : ~Running(r)
    /\ main \in {"creating", "starting", "unwinding", "failed"} => bound = {}
    /\ main \in {"serving", "shutting", "joining"} => open
    /\ main = "shutting" => accepting \subseteq left
    /\ main \in {"joining", "closing"} => accepting = {} /\ shutting = Nowhere

Down ==
    ~open =>
        /\ main \in {"failed", "closing", "done", "killed"}
        /\ manager \in {"none", "ended"} /\ accepting = {}
        /\ main # "failed" => manager = "ended"

Failed == main = "failed" => ~open

Served ==
    \A r \in Requests : Running(r) =>
        \/ req[r].on \in accepting
        \/ main = "shutting" /\ req[r].on = shutting
        \/ elapsed >= Grace

Clock ==
    /\ main \in {"creating", "starting", "binding", "unwinding", "failed", "serving"} =>
        elapsed = 0 /\ wedged = 0
    /\ main = "shutting" => elapsed <= Grace /\ wedged = 0
    /\ main \in {"joining", "closing", "done", "killed"} => elapsed <= Grace + wedged
    /\ main = "killed" => elapsed >= Budget

IInv == TypeOK /\ Up /\ Down /\ Failed /\ Served /\ Clock

LEMMA InitIInv == Init => Up /\ Down /\ Failed /\ Served /\ Clock
BY DEF Init, Up, Down, Failed, Served, Clock, Running, NoRequest

LEMMA UpStep ==
    ASSUME IInv, [Next]_vars
    PROVE  Up' /\ Down' /\ Failed'
<1> USE DEF IInv
<1>1. CASE CreateManager \/ StartManager \/ Unwind
  BY <1>1 DEF CreateManager, StartManager, Unwind, ManagerGone, Up, Down, Failed, TypeOK, Running
<1>2. CASE Bind
  BY <1>2 DEF Bind, GiveUp, Unbound, Up, Down, Failed, TypeOK, Running
<1>3. CASE Refresh \/ Refreshed \/ EndManager
  BY <1>3 DEF Refresh, Refreshed, EndManager, Up, Down, Failed, TypeOK, Running
<1>4. ASSUME NEW r \in Requests, NEW l \in Everything, Begin(r, l)
      PROVE  Up' /\ Down' /\ Failed'
  BY <1>4 DEF Begin, Up, Down, Failed, TypeOK, Running
<1>5. ASSUME NEW r \in Requests, End(r) PROVE Up' /\ Down' /\ Failed'
  BY <1>5 DEF End, NoRequest, Up, Down, Failed, TypeOK, Running
<1>6. CASE Signal \/ StopManager \/ DoneShutdown
  BY <1>6 DEF Signal, StopManager, DoneShutdown, Up, Down, Failed, TypeOK, Running
<1>7. ASSUME NEW l \in Everything, Shutdown(l) PROVE Up' /\ Down' /\ Failed'
  BY <1>7 DEF Shutdown, Up, Down, Failed, TypeOK, Running
<1>8. CASE JoinManager \/ Exit \/ Kill
  BY <1>8 DEF JoinManager, Exit, Kill, Stopping, ManagerGone, Up, Down, Failed, TypeOK, Running
<1>9. CASE Tick
  <2>1. \A r \in Requests : Running(r)' <=> Running(r)
    BY <1>9 DEF Tick, TypeOK, Running
  <2> QED
    BY <1>9, <2>1 DEF Tick, Up, Down, Failed
<1>10. CASE UNCHANGED vars
  BY <1>10 DEF vars, Up, Down, Failed, Running
<1> QED
  BY <1>1, <1>2, <1>3, <1>4, <1>5, <1>6, <1>7, <1>8, <1>9, <1>10 DEF Next

LEMMA ServedStep ==
    ASSUME IInv, [Next]_vars
    PROVE  Served'
<1> USE TimesAssumption, ListenersAssumption DEF IInv
<1> SUFFICES ASSUME NEW r \in Requests, Running(r)'
             PROVE  \/ req'[r].on \in accepting'
                    \/ main' = "shutting" /\ req'[r].on = shutting'
                    \/ elapsed' >= Grace
  BY DEF Served
<1> DEFINE Placed == \/ req'[r].on \in accepting'
                     \/ main' = "shutting" /\ req'[r].on = shutting'
                     \/ elapsed' >= Grace
<1>1. CASE CreateManager \/ StartManager \/ Unwind
  BY <1>1 DEF CreateManager, StartManager, Unwind, Up, Running
<1>2. CASE Bind
  BY <1>2 DEF Bind, GiveUp, Up, Running
<1>3. CASE Refresh \/ Refreshed \/ EndManager \/ UNCHANGED vars
  BY <1>3 DEF Refresh, Refreshed, EndManager, vars, Served, Running
<1>4. ASSUME NEW s \in Requests, NEW l \in Everything, Begin(s, l)
      PROVE  Placed
  <2>1. CASE r = s
    <3>1. req'[r] = [on |-> l, age |-> 0] /\ accepting' = accepting /\ l \in accepting
      BY <1>4, <2>1 DEF Begin, TypeOK
    <3> QED
      BY <3>1
  <2>2. CASE r # s
    <3>1. req'[r] = req[r] /\ UNCHANGED <<accepting, main, shutting, elapsed>>
      BY <1>4, <2>2 DEF Begin, TypeOK
    <3> QED
      BY <3>1 DEF Served, Running
  <2> QED
    BY <2>1, <2>2
<1>5. ASSUME NEW s \in Requests, End(s)
      PROVE  Placed
  <2>1. r # s
    BY <1>5 DEF End, NoRequest, TypeOK, Running
  <2>2. req'[r] = req[r] /\ UNCHANGED <<accepting, main, shutting, elapsed>>
    BY <1>5, <2>1 DEF End, TypeOK
  <2> QED
    BY <2>2 DEF Served, Running
<1>6. CASE Signal \/ StopManager
  BY <1>6 DEF Signal, StopManager, Served, Running, TypeOK
<1>7. CASE DoneShutdown
  BY <1>7 DEF DoneShutdown, Waited, Quiet, Served, Running, TypeOK
<1>8. ASSUME NEW l \in Everything, Shutdown(l)
      PROVE  Placed
  <2>1. req' = req /\ main' = main /\ elapsed' = elapsed /\ Running(r)
    BY <1>8 DEF Shutdown, Running
  <2>2. req[r].on \in accepting \/ elapsed >= Grace
    BY <1>8, <2>1 DEF Shutdown, Served, Running
  <2> QED
    BY <1>8, <2>1, <2>2 DEF Shutdown
<1>9. CASE JoinManager \/ Exit \/ Kill
  BY <1>9 DEF JoinManager, Exit, Kill, Stopping, Expired, Served, Running, TypeOK
<1>10. CASE Tick
  <2>1. req'[r].on = req[r].on /\ elapsed' >= elapsed
    BY <1>10 DEF Tick, TypeOK, Running
  <2> QED
    BY <1>10, <2>1 DEF Tick, Served, Running, TypeOK
<1> QED
  BY <1>1, <1>2, <1>3, <1>4, <1>5, <1>6, <1>7, <1>8, <1>9, <1>10 DEF Next

LEMMA ClockStep ==
    ASSUME IInv, [Next]_vars
    PROVE  Clock'
<1> USE TimesAssumption DEF IInv
<1>1. CASE CreateManager \/ StartManager \/ Unwind \/ Bind
  BY <1>1 DEF CreateManager, StartManager, Unwind, Bind, GiveUp, Clock
<1>2. CASE Refresh \/ Refreshed \/ EndManager \/ UNCHANGED vars
  BY <1>2 DEF Refresh, Refreshed, EndManager, vars, Clock
<1>3. ASSUME NEW r \in Requests, NEW l \in Everything, Begin(r, l) \/ End(r) \/ Shutdown(l)
      PROVE  Clock'
  BY <1>3 DEF Begin, End, Shutdown, Clock
<1>4. ASSUME NEW r \in Requests, End(r) PROVE Clock'
  BY <1>4 DEF End, Clock
<1>5. ASSUME NEW l \in Everything, Shutdown(l) PROVE Clock'
  BY <1>5 DEF Shutdown, Clock
<1>6. CASE Signal \/ StopManager \/ DoneShutdown
  BY <1>6 DEF Signal, StopManager, DoneShutdown, Clock, TypeOK
<1>7. CASE JoinManager \/ Exit
  BY <1>7 DEF JoinManager, Exit, Clock, TypeOK
<1>8. CASE Kill
  BY <1>8 DEF Kill, Stopping, Expired, Clock, TypeOK
<1>9. CASE Tick
  BY <1>9 DEF Tick, Stopping, Waited, Clock, TypeOK
<1> QED
  BY <1>1, <1>2, <1>3, <1>4, <1>5, <1>6, <1>7, <1>8, <1>9 DEF Next

LEMMA Invariance == Spec => []IInv
<1>1. Init => Up /\ Down /\ Failed /\ Served /\ Clock
  BY InitIInv
<1>2. IInv /\ [Next]_vars => (Up /\ Down /\ Failed /\ Served /\ Clock)'
  BY UpStep, ServedStep, ClockStep
<1> QED
  BY <1>1, <1>2, Typing, PTL DEF Spec, IInv

\* However far a failed start got, it leaves nothing of itself.
THEOREM Unwound == Spec => []NothingHalf
<1>1. IInv => NothingHalf
  BY DEF IInv, Up, Down, Failed, NothingHalf
<1> QED
  BY <1>1, Invariance, PTL

\* The connections are closed when nothing is left to use them, but for requests
\* that have had all the time the servers have.
THEOREM LastClosed == Spec => []ClosedLast
<1>1. IInv => ClosedLast
  BY DEF IInv, Up, Down, Served, ClosedLast
<1> QED
  BY <1>1, Invariance, PTL

\* The watchdog exits only if the manager has been waited for at least as long as
\* the servers leave of its budget, however many requests there are.
THEOREM Wedged == Spec => []KilledOnlyIfWedged
<1>1. IInv => KilledOnlyIfWedged
  BY TimesAssumption DEF IInv, TypeOK, Clock, KilledOnlyIfWedged
<1> QED
  BY <1>1, Invariance, PTL
=============================================================================
