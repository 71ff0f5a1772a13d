---------------------------- MODULE DaemonProofs -----------------------------
(***************************************************************************)
(* Proofs about Daemon: whatever addresses it listens on, whoever connects *)
(* and however often it is started, its exit status tells the truth.       *)
(***************************************************************************)
EXTENDS Daemon, TLAPS

USE AddressAssumption, ListenAssumption, StartsAssumption

(***************************************************************************)
(* The inductive invariant.                                                *)
(***************************************************************************)

\* An address is ours only where the listener that bound it is, and no longer
\* than the process.
AddressInv ==
    /\ \A a \in Tcp \cup Unix : at[a] \in Listener => Listen[at[a]] = a
    /\ main = "exited" => \A a \in Tcp \cup Unix : at[a] \notin Listener

\* Where the process is in its course: listeners come with the run, those
\* before the awaited one are done, and none is without a shutdown.
CourseInv ==
    /\ main # "exited" => status = "-"
    /\ main \in {"load", "state"} => awaited = 1 /\ listener = NoListener
    /\ \A l \in Listener : l < awaited => listener[l] = "done"
    /\ \A l \in Listener : listener[l] = "done" => shutdown

DaemonInv == TypeOK /\ AddressInv /\ CourseInv /\ StatusIsTrue

LEMMA Listeners ==
    /\ Len(Listen) \in Nat /\ Listener = 1..Len(Listen)
    /\ 1 \in Listener
    /\ \A l \in Listener : Listen[l] \in Tcp \cup Unix
    /\ Free \notin Listener /\ Stale \notin Listener
    /\ Alive \notin Listener /\ Denied \notin Listener
BY DEF Listener, Free, Stale, Alive, Denied

LEMMA DaemonInit == Init => DaemonInv
<1> SUFFICES ASSUME Init PROVE DaemonInv
    OBVIOUS
<1>1. TypeOK
    <2>1. /\ at \in [Tcp \cup Unix -> {Free, Stale, Alive, Denied}]
          /\ listener = NoListener /\ conn = NoConnection
        BY DEF Init
    <2>2. /\ listener \in [Listener -> {"none", "spawned", "removed", "bound",
                                        "retrying", "failed", "done"}]
          /\ conn \in [Client -> {"none", "idle", "busy", "closed", "dropped"}]
        BY <2>1 DEF NoListener, NoConnection
    <2>3. /\ \A a \in Tcp \cup Unix : at[a] \notin Listener
          /\ at \in [Tcp \cup Unix -> {Free, Stale, Alive, Denied} \cup Listener]
        BY <2>1, Listeners
    <2>4. /\ awaited \in 1..(Len(Listen) + 1)
          /\ starts \in 1..MaxStarts
        BY Listeners DEF Init
    <2>5. /\ main \in {"load", "state", "run", "exited"}
          /\ status \in {"-", "ok", "error", "killed"}
          /\ sigterm \in {"default", "handled", "pending", "done"}
          /\ shutdown \in BOOLEAN
        BY DEF Init
    <2> QED
        BY <2>2, <2>3, <2>4, <2>5 DEF TypeOK
<1>2. AddressInv
    BY Listeners DEF Init, AddressInv
<1>3. CourseInv
    BY Listeners DEF Init, CourseInv, NoListener
<1> QED
    BY <1>1, <1>2, <1>3 DEF DaemonInv, StatusIsTrue, Init

\* An end leaves no address ours.
LEMMA ExitKeeps ==
    ASSUME TypeOK, AddressInv, CourseInv, NEW s \in {"ok", "error", "killed"}, Exit(s),
           s = "ok" => shutdown /\ \A l \in Listener : listener[l] = "done",
           s = "error" => \/ \A l \in Listener : listener[l] = "none"
                          \/ \E l \in Listener : listener[l] = "failed"
    PROVE  DaemonInv'
<1>1. \A l \in Listener : Leaves(l) \in {Free, Stale}
    BY DEF Leaves
<1>2. at' \in [Tcp \cup Unix -> {Free, Stale, Alive, Denied}]
    BY <1>1 DEF Exit, TypeOK
<1>3. \A a \in Tcp \cup Unix : at'[a] \notin Listener
    BY <1>2, Listeners
<1>4. conn' \in [Client -> {"none", "idle", "busy", "closed", "dropped"}]
    BY DEF Exit, TypeOK
<1>5. TypeOK'
    BY <1>2, <1>3, <1>4 DEF Exit, TypeOK
<1>6. AddressInv' /\ CourseInv' /\ StatusIsTrue'
    BY <1>3 DEF Exit, AddressInv, CourseInv, StatusIsTrue
<1> QED
    BY <1>5, <1>6 DEF DaemonInv

LEMMA DaemonNext == DaemonInv /\ [Next]_vars => DaemonInv'
<1> SUFFICES ASSUME DaemonInv, [Next]_vars PROVE DaemonInv'
    OBVIOUS
<1>0. TypeOK /\ AddressInv /\ CourseInv /\ StatusIsTrue
    BY DEF DaemonInv
<1>1. CASE LoadConfig
    <2>1. CASE Exit("error")
        <3>1. \A l \in Listener : listener[l] = "none"
            BY <1>0, <1>1 DEF LoadConfig, CourseInv, NoListener
        <3> QED
            BY <1>0, <2>1, <3>1, ExitKeeps
    <2>2. CASE main' = "state" /\ UNCHANGED <<awaited, status, sigterm, shutdown, tasks,
                                              starts>>
        BY <1>0, <1>1, <2>2 DEF LoadConfig, tasks, DaemonInv, TypeOK, Serving, AddressInv,
                                CourseInv, StatusIsTrue
    <2> QED
        BY <1>1, <2>1, <2>2 DEF LoadConfig
<1>2. CASE SpawnListeners
    <2>1. \A l \in Listener : listener[l] = "none"
        BY <1>0, <1>2 DEF SpawnListeners, CourseInv, NoListener
    <2>2. CASE Exit("error")
        BY <1>0, <2>1, <2>2, ExitKeeps
    <2>3. CASE /\ main' = "run"
               /\ listener' = [l \in Listener |-> "spawned"]
               /\ UNCHANGED <<awaited, status, sigterm, shutdown, at, conn, starts>>
        <3>1. \A a \in Tcp \cup Unix : at[a] \notin Listener
            BY <1>0, <2>1 DEF TypeOK, Serving
        <3>2. awaited = 1 /\ status = "-"
            BY <1>0, <1>2 DEF SpawnListeners, CourseInv
        <3>3. TypeOK'
            BY <1>0, <2>3, <3>1 DEF TypeOK
        <3>4. AddressInv' /\ CourseInv' /\ StatusIsTrue'
            BY <2>3, <3>1, <3>2, Listeners DEF AddressInv, CourseInv, StatusIsTrue
        <3> QED
            BY <3>3, <3>4 DEF DaemonInv
    <2> QED
        BY <1>2, <2>2, <2>3 DEF SpawnListeners
<1>3. CASE AwaitListener
    <2>1. CASE listener[awaited] = "failed" /\ Exit("error")
        BY <1>0, <1>3, <2>1, ExitKeeps DEF AwaitListener
    <2>2. CASE /\ listener[awaited] = "done"
               /\ awaited' = awaited + 1
               /\ UNCHANGED <<main, status, sigterm, shutdown, tasks, starts>>
        BY <1>0, <1>3, <2>2, Listeners
           DEF AwaitListener, tasks, DaemonInv, TypeOK, Serving, AddressInv, CourseInv,
               StatusIsTrue
    <2> QED
        BY <1>3, <2>1, <2>2 DEF AwaitListener
<1>4. CASE RunReturns
    <2>1. \A l \in Listener : listener[l] = "done"
        BY <1>0, <1>4, Listeners DEF RunReturns, TypeOK, CourseInv
    <2>2. shutdown
        BY <1>0, <2>1, Listeners DEF CourseInv
    <2> QED
        BY <1>0, <1>4, <2>1, <2>2, ExitKeeps DEF RunReturns
<1>5. CASE InstallHandler \/ CancelToken
    BY <1>0, <1>5 DEF InstallHandler, CancelToken, tasks, DaemonInv, TypeOK, Serving,
                      AddressInv, CourseInv, StatusIsTrue
<1>6. ASSUME NEW l \in Listener, NEW from, NEW to, ListenerStep(l, from, to),
             from # "done", from \notin {"bound", "retrying"} \/ to = "done",
             to \in {"removed", "bound", "failed", "done"}, to = "done" => shutdown,
             at' \in [Tcp \cup Unix -> {Free, Stale, Alive, Denied} \cup Listener],
             \A a \in Tcp \cup Unix : at'[a] \in Listener =>
                 \/ at'[a] = at[a] /\ at[a] # l
                 \/ at'[a] = l /\ to = "bound" /\ a = Listen[l]
      PROVE  DaemonInv'
    <2>1. \A m \in Listener : listener'[m] = IF m = l THEN to ELSE listener[m]
        BY <1>0, <1>6 DEF ListenerStep, TypeOK
    <2>2. \A a \in Tcp \cup Unix : at'[a] \in Listener => Serving(at[a])'
        BY <1>0, <1>6, <2>1 DEF TypeOK, Serving
    <2>3. TypeOK'
        BY <1>0, <1>6, <2>2 DEF ListenerStep, TypeOK, Serving
    <2>4. AddressInv'
        BY <1>0, <1>6 DEF ListenerStep, AddressInv
    <2>5. CourseInv'
        BY <1>0, <1>6, <2>1 DEF ListenerStep, CourseInv
    <2>6. StatusIsTrue'
        BY <1>0, <1>6 DEF ListenerStep, CourseInv, StatusIsTrue
    <2> QED
        BY <2>3, <2>4, <2>5, <2>6 DEF DaemonInv
<1>7. ASSUME NEW l \in Listener, NEW from \in {"spawned", "removed"}, Bind(l, from)
      PROVE  DaemonInv'
    <2>0. \A a \in Tcp \cup Unix : listener[l] = from => at[a] # l
        BY <1>0 DEF TypeOK, Serving
    <2>1. CASE ListenerStep(l, from, "bound") /\ at' = [at EXCEPT ![Listen[l]] = l]
        <3>1. at' \in [Tcp \cup Unix -> {Free, Stale, Alive, Denied} \cup Listener]
            BY <1>0, <2>1 DEF TypeOK
        <3>2. \A a \in Tcp \cup Unix : at'[a] = IF a = Listen[l] THEN l ELSE at[a]
            BY <1>0, <2>1 DEF TypeOK
        <3>3. \A a \in Tcp \cup Unix : at[a] # l
            BY <2>0, <2>1 DEF ListenerStep
        <3>4. \A a \in Tcp \cup Unix : at'[a] \in Listener =>
                 \/ at'[a] = at[a] /\ at[a] # l
                 \/ at'[a] = l /\ a = Listen[l]
            BY <3>2, <3>3
        <3> QED
            BY <1>6, <2>1, <3>1, <3>4
    <2>2. CASE ListenerStep(l, from, "failed") /\ UNCHANGED at
        <3>1. at' \in [Tcp \cup Unix -> {Free, Stale, Alive, Denied} \cup Listener]
            BY <1>0, <2>2 DEF TypeOK
        <3>2. \A a \in Tcp \cup Unix : at'[a] = at[a] /\ at[a] # l
            BY <2>0, <2>2 DEF ListenerStep
        <3> QED
            BY <1>6, <2>2, <3>1, <3>2
    <2> QED
        BY <1>7, <2>1, <2>2 DEF Bind
<1>8. ASSUME NEW l \in Listener, RemoveSocket(l) PROVE DaemonInv'
    <2>1. \A a \in Tcp \cup Unix : at[a] # l
        BY <1>0, <1>8 DEF RemoveSocket, ListenerStep, TypeOK, Serving
    <2>2. at' \in [Tcp \cup Unix -> {Free, Stale, Alive, Denied} \cup Listener]
        BY <1>0, <1>8 DEF RemoveSocket, TypeOK
    <2>3. \A a \in Tcp \cup Unix : at'[a] \in Listener => at'[a] = at[a]
        BY <1>0, <1>8, Listeners DEF RemoveSocket, TypeOK
    <2> QED
        BY <1>6, <1>8, <2>1, <2>2, <2>3 DEF RemoveSocket
<1>9. ASSUME NEW l \in Listener, StopListening(l) PROVE DaemonInv'
    <2>1. Leaves(l) \in {Free, Stale}
        BY DEF Leaves
    <2>2. at' \in [Tcp \cup Unix -> {Free, Stale, Alive, Denied} \cup Listener]
        BY <1>0, <1>9, <2>1 DEF StopListening, TypeOK
    <2>3. \A a \in Tcp \cup Unix : at'[a] \in Listener => at'[a] = at[a] /\ at[a] # l
        BY <1>0, <1>9, <2>1, Listeners DEF StopListening, TypeOK, AddressInv
    <2> QED
        BY <1>6, <1>9, <2>2, <2>3 DEF StopListening
<1>10. ASSUME NEW c \in Client, NEW from, NEW to \in {"idle", "busy", "closed"},
              ConnectionStep(c, from, to)
       PROVE  DaemonInv'
    BY <1>0, <1>10 DEF ConnectionStep, DaemonInv, TypeOK, Serving, AddressInv, CourseInv,
                       StatusIsTrue
<1>11. CASE Terminate
    <2>1. CASE Exit("killed")
        BY <1>0, <2>1, ExitKeeps
    <2>2. CASE /\ sigterm' = "pending"
               /\ UNCHANGED <<main, awaited, status, shutdown, tasks, starts>>
        BY <1>0, <2>2 DEF tasks, DaemonInv, TypeOK, Serving, AddressInv, CourseInv,
                          StatusIsTrue
    <2> QED
        BY <1>11, <2>1, <2>2 DEF Terminate
<1>12. CASE Crash
    BY <1>0, <1>12, ExitKeeps DEF Crash
<1>13. CASE Restart
    <2>1. /\ listener' = NoListener /\ conn' = NoConnection /\ awaited' = 1
          /\ status' = "-" /\ main' = "load" /\ at' = at /\ shutdown' = FALSE
          /\ sigterm' = "default" /\ starts' = starts + 1 /\ starts < MaxStarts
        BY <1>13 DEF Restart
    <2>2. \A a \in Tcp \cup Unix : at[a] \notin Listener
        BY <1>0, <1>13 DEF Restart, AddressInv
    <2>3. /\ listener' \in [Listener -> {"none", "spawned", "removed", "bound",
                                         "retrying", "failed", "done"}]
          /\ conn' \in [Client -> {"none", "idle", "busy", "closed", "dropped"}]
        BY <2>1 DEF NoListener, NoConnection
    <2>4. TypeOK'
        <3>1. /\ starts' \in 1..MaxStarts
              /\ awaited' \in 1..(Len(Listen) + 1)
            BY <1>0, <2>1, Listeners DEF TypeOK
        <3>2. /\ at' \in [Tcp \cup Unix -> {Free, Stale, Alive, Denied} \cup Listener]
              /\ \A a \in Tcp \cup Unix : at'[a] \notin Listener
            BY <1>0, <2>1, <2>2 DEF TypeOK
        <3>3. /\ main' \in {"load", "state", "run", "exited"}
              /\ status' \in {"-", "ok", "error", "killed"}
              /\ sigterm' \in {"default", "handled", "pending", "done"}
              /\ shutdown' \in BOOLEAN
            BY <2>1
        <3> QED
            BY <2>3, <3>1, <3>2, <3>3 DEF TypeOK
    <2>5. AddressInv' /\ CourseInv' /\ StatusIsTrue'
        BY <2>1, <2>2, Listeners DEF AddressInv, CourseInv, StatusIsTrue, NoListener
    <2> QED
        BY <2>4, <2>5 DEF DaemonInv
<1>14. CASE UNCHANGED vars
    BY <1>0, <1>14 DEF vars, DaemonInv, TypeOK, Serving, AddressInv, CourseInv, StatusIsTrue
<1>15. ASSUME NEW l \in Listener,
              Listening(l) \/ StopListening(l) \/ AcceptFails(l)
       PROVE  DaemonInv'
    <2>1. ASSUME NEW from \in {"bound", "retrying"}, NEW to \in {"bound", "retrying"},
                 ListenerStep(l, from, to), UNCHANGED at
          PROVE  DaemonInv'
        <3>1. \A m \in Listener : listener'[m] = IF m = l THEN to ELSE listener[m]
            BY <1>0, <2>1 DEF ListenerStep, TypeOK
        <3>2. \A m \in Listener : Serving(m) => Serving(m)'
            BY <2>1, <3>1 DEF Serving
        <3>3. TypeOK'
            BY <1>0, <2>1, <3>2 DEF ListenerStep, TypeOK
        <3>4. AddressInv' /\ CourseInv' /\ StatusIsTrue'
            BY <1>0, <2>1, <3>1 DEF ListenerStep, AddressInv, CourseInv, StatusIsTrue
        <3> QED
            BY <3>3, <3>4 DEF DaemonInv
    <2>2. CASE AcceptFails(l) \/ AcceptAgain(l)
        BY <2>1, <2>2 DEF AcceptFails, AcceptAgain
    <2> QED
        BY <1>7, <1>8, <1>9, <1>15, <2>2 DEF Listening, BindTcp, BindUnix
<1>16. ASSUME NEW c \in Client,
              Accept(c) \/ Ask(c) \/ Answer(c) \/ HangUp(c) \/ SeeShutdown(c)
       PROVE  DaemonInv'
    BY <1>10, <1>16 DEF Accept, Ask, Answer, HangUp, SeeShutdown
<1> QED
    BY <1>1, <1>2, <1>3, <1>4, <1>5, <1>11, <1>12, <1>13, <1>14, <1>15, <1>16
       DEF Next, Main

\* The invariant is inductive.
THEOREM DaemonInvariance == Spec => []DaemonInv
BY DaemonInit, DaemonNext, PTL DEF Spec

\* The state keeps its types, and an address is ours only while a listener of
\* this process is bound to it, over every end and restart.
THEOREM DaemonTypes == Spec => []TypeOK
<1>1. DaemonInv => TypeOK
    BY DEF DaemonInv
<1> QED
    BY <1>1, DaemonInvariance, PTL

\* The status the process ends with is true: "ok" only after a shutdown that
\* every listener saw, an error only if a listener failed or none was there.
THEOREM StatusTrue == Spec => []StatusIsTrue
<1>1. DaemonInv => StatusIsTrue
    BY DEF DaemonInv
<1> QED
    BY <1>1, DaemonInvariance, PTL
=============================================================================
