------------------------------- MODULE Daemon -------------------------------
(***************************************************************************)
(* The life of the rspfd process: main (rspfd/src/main.rs) with its signal *)
(* task, run with one task per listener and the connection tasks they      *)
(* spawn (rspf/src/server.rs), from the start to the shutdown and the      *)
(* exit, and the restart by the supervisor after an exit or a crash.       *)
(* A request is being handled or it is not; Connection and HotReload look  *)
(* inside.                                                                 *)
(***************************************************************************)
EXTENDS Naturals, Sequences

CONSTANTS Tcp, Unix,   \* the addresses, of either kind
          Listen,      \* server.listen, a sequence of them
          Client,      \* the connections
          MaxStarts    \* bound on the lives of the process

ASSUME AddressAssumption == Tcp \cap Unix = {}
ASSUME ListenAssumption == Listen \in Seq(Tcp \cup Unix) /\ Listen # << >>
ASSUME StartsAssumption == MaxStarts \in Nat \ {0}

VARIABLES main,      \* "load", "state", "run" or "exited"
          awaited,   \* the listener task that run awaits
          status,    \* how the process ended: "-", "ok", "error" or "killed"
          sigterm,   \* SIGTERM: "default", "handled", "pending" or "done"
          shutdown,  \* the CancellationToken
          listener,  \* the state of each listener task
          at,        \* what is at each address
          conn,      \* the state of each connection
          starts     \* the lives of the process so far

vars == <<main, awaited, status, sigterm, shutdown, listener, at, conn, starts>>

tasks == <<listener, at, conn>>

Listener == DOMAIN Listen

\* What may be at an address, next to a listener of this process: nothing; the
\* socket file of a process that ended; the socket of another process; what
\* can be neither removed nor bound, as a directory.
Free == 0
Stale == Len(Listen) + 1
Alive == Len(Listen) + 2
Denied == Len(Listen) + 3

NoListener == [l \in Listener |-> "none"]
NoConnection == [c \in Client |-> "none"]

Init == /\ main = "load" /\ awaited = 1 /\ status = "-"
        /\ sigterm = "default" /\ shutdown = FALSE
        /\ listener = NoListener
        /\ at \in {f \in [Tcp \cup Unix -> {Free, Stale, Alive, Denied}] :
                     \A a \in Tcp : f[a] # Stale}
        /\ conn = NoConnection
        /\ starts = 1

-----------------------------------------------------------------------------
(* The end of the process. *)

\* The address of a listener that is gone; nobody unlinks a socket file.
Leaves(l) == IF Listen[l] \in Unix THEN Stale ELSE Free

\* The runtime is dropped with all its tasks, whatever they are doing.
Exit(s) ==
    /\ main' = "exited" /\ status' = s
    /\ at' = [a \in DOMAIN at |-> IF at[a] \in Listener THEN Leaves(at[a]) ELSE at[a]]
    /\ conn' = [c \in Client |-> CASE conn[c] = "busy" -> "dropped"
                                   [] conn[c] = "idle" -> "closed"
                                   [] OTHER -> conn[c]]
    /\ UNCHANGED <<awaited, sigterm, shutdown, listener, starts>>

Crash == main # "exited" /\ Exit("killed")

\* The supervisor starts the program again.
Restart ==
    /\ main = "exited" /\ starts < MaxStarts
    /\ main' = "load" /\ awaited' = 1 /\ status' = "-"
    /\ sigterm' = "default" /\ shutdown' = FALSE
    /\ listener' = NoListener /\ conn' = NoConnection
    /\ starts' = starts + 1
    /\ UNCHANGED at

-----------------------------------------------------------------------------
(* The signals.  SIGINT takes the same way as SIGTERM. *)

InstallHandler ==
    /\ main \in {"state", "run"} /\ sigterm = "default"
    /\ sigterm' = "handled"
    /\ UNCHANGED <<main, awaited, status, shutdown, tasks, starts>>

\* Before the signal task runs, the signal ends the process.
Terminate ==
    /\ main # "exited"
    /\ \/ sigterm = "default" /\ Exit("killed")
       \/ /\ sigterm = "handled"
          /\ sigterm' = "pending"
          /\ UNCHANGED <<main, awaited, status, shutdown, tasks, starts>>

CancelToken ==
    /\ main # "exited" /\ sigterm = "pending"
    /\ shutdown' = TRUE /\ sigterm' = "done"
    /\ UNCHANGED <<main, awaited, status, tasks, starts>>

-----------------------------------------------------------------------------
(* main and run. *)

LoadConfig ==
    /\ main = "load"
    /\ \/ main' = "state" /\ UNCHANGED <<awaited, status, sigterm, shutdown, tasks, starts>>
       \/ Exit("error")

\* AppState::new, and a task for each of the listeners.
SpawnListeners ==
    /\ main = "state"
    /\ \/ /\ main' = "run"
          /\ listener' = [l \in Listener |-> "spawned"]
          /\ UNCHANGED <<awaited, status, sigterm, shutdown, at, conn, starts>>
       \/ Exit("error")

\* Mutant of AwaitListener: the first task to return ends the wait for all.
AwaitAnyListener ==
    /\ main = "run"
    /\ \/ \E l \in Listener : listener[l] = "failed" /\ Exit("error")
       \/ \E l \in Listener : listener[l] = "done" /\ Exit("ok")

\* run awaits the tasks in the order of the configuration.
AwaitListener ==
    /\ main = "run" /\ awaited \in Listener
    /\ \/ listener[awaited] = "failed" /\ Exit("error")
       \/ /\ listener[awaited] = "done"
          /\ awaited' = awaited + 1
          /\ UNCHANGED <<main, status, sigterm, shutdown, tasks, starts>>

RunReturns == main = "run" /\ awaited \notin Listener /\ Exit("ok")

-----------------------------------------------------------------------------
(* A listener task. *)

\* It holds its address: it waits at its select!, or an accept has failed and it
\* is on its way back there.
Serving(l) == listener[l] \in {"bound", "retrying"}

ListenerStep(l, from, to) ==
    /\ main = "run" /\ listener[l] = from
    /\ listener' = [listener EXCEPT ![l] = to]
    /\ UNCHANGED <<main, awaited, status, sigterm, shutdown, conn, starts>>

\* Binding works where there is nothing.
Bind(l, from) ==
    \/ /\ at[Listen[l]] = Free
       /\ ListenerStep(l, from, "bound")
       /\ at' = [at EXCEPT ![Listen[l]] = l]
    \/ /\ at[Listen[l]] # Free
       /\ ListenerStep(l, from, "failed")
       /\ UNCHANGED at

BindTcp(l) == Listen[l] \in Tcp /\ Bind(l, "spawned")

\* Mutant of RemoveSocket: a socket file that is there is left there.
KeepSocket(l) ==
    /\ Listen[l] \in Unix
    /\ ListenerStep(l, "spawned", "removed")
    /\ UNCHANGED at

RemoveSocket(l) ==
    /\ Listen[l] \in Unix
    /\ ListenerStep(l, "spawned", "removed")
    /\ at' = [at EXCEPT ![Listen[l]] = IF @ = Denied THEN Denied ELSE Free]

BindUnix(l) == Listen[l] \in Unix /\ Bind(l, "removed")

\* Mutant of StopListening: the listener is gone and its address still ours.
StopListeningInPlace(l) ==
    /\ shutdown
    /\ ListenerStep(l, "bound", "done")
    /\ UNCHANGED at

StopListening(l) ==
    /\ shutdown
    /\ ListenerStep(l, "bound", "done")
    /\ at' = [at EXCEPT ![Listen[l]] = IF @ = l THEN Leaves(l) ELSE @]

\* As when the process is out of descriptors; it may do so every time.
AcceptFails(l) ==
    /\ ListenerStep(l, "bound", "retrying")
    /\ UNCHANGED at

\* Mutant of AcceptAgain: it tries until a client is there, not at the select!.
AcceptUntilItWorks(l) ==
    /\ \E c \in Client : conn[c] = "none"
    /\ ListenerStep(l, "retrying", "bound")
    /\ UNCHANGED at

AcceptAgain(l) ==
    /\ ListenerStep(l, "retrying", "bound")
    /\ UNCHANGED at

-----------------------------------------------------------------------------
(* A connection task. *)

ConnectionStep(c, from, to) ==
    /\ main = "run" /\ conn[c] = from
    /\ conn' = [conn EXCEPT ![c] = to]
    /\ UNCHANGED <<main, awaited, status, sigterm, shutdown, listener, at, starts>>

\* A client reaches the listener that is at its address.
Accept(c) ==
    /\ \E l \in Listener : listener[l] = "bound" /\ at[Listen[l]] = l
    /\ ConnectionStep(c, "none", "idle")

\* A connection is busy until its reply is written, which a client that reads
\* none can put off for ever.
Ask(c) == ConnectionStep(c, "idle", "busy")

Answer(c) == ConnectionStep(c, "busy", "idle")

HangUp(c) == ConnectionStep(c, "idle", "closed")

SeeShutdown(c) == shutdown /\ ConnectionStep(c, "idle", "closed")

-----------------------------------------------------------------------------
Main == LoadConfig \/ SpawnListeners \/ AwaitListener \/ RunReturns

Listening(l) == BindTcp(l) \/ RemoveSocket(l) \/ BindUnix(l) \/ AcceptAgain(l)

Next == \/ Main \/ InstallHandler \/ CancelToken
        \/ \E l \in Listener : Listening(l) \/ StopListening(l) \/ AcceptFails(l)
        \/ \E c \in Client : \/ Accept(c) \/ Ask(c) \/ Answer(c)
                             \/ HangUp(c) \/ SeeShutdown(c)
        \/ Terminate \/ Crash \/ Restart

Spec == Init /\ [][Next]_vars

\* main, the signal task and the listener tasks are scheduled.  Of two branches
\* that are ready select! takes either at random, so that a listener that comes
\* to it again and again sees the token (server.rs:197-200).  Nothing is owed by
\* the clients, the operator or the supervisor, and no accept has to fail.
FairSpec == /\ Spec
            /\ WF_vars(Main) /\ WF_vars(InstallHandler) /\ WF_vars(CancelToken)
            /\ \A l \in Listener : WF_vars(Listening(l)) /\ SF_vars(StopListening(l))
-----------------------------------------------------------------------------
\* The types of the state; no more addresses are ours than there are listeners
\* that serve them.
TypeOK ==
    /\ main \in {"load", "state", "run", "exited"}
    /\ awaited \in 1..(Len(Listen) + 1)
    /\ status \in {"-", "ok", "error", "killed"}
    /\ sigterm \in {"default", "handled", "pending", "done"}
    /\ shutdown \in BOOLEAN
    /\ listener \in [Listener -> {"none", "spawned", "removed", "bound",
                                  "retrying", "failed", "done"}]
    /\ at \in [Tcp \cup Unix -> {Free, Stale, Alive, Denied} \cup Listener]
    /\ \A a \in Tcp \cup Unix : at[a] \in Listener => Serving(at[a])
    /\ conn \in [Client -> {"none", "idle", "busy", "closed", "dropped"}]
    /\ starts \in 1..MaxStarts

\* The process ends well only after a signal, when every listener has served
\* until then; a failure to bind, whenever it is found, ends it with an error
\* (server.rs:246-272, main.rs:70).
StatusIsTrue ==
    /\ status = "ok" => shutdown /\ \A l \in Listener : listener[l] = "done"
    /\ status = "error" =>
          \/ \A l \in Listener : listener[l] = "none"
          \/ \E l \in Listener : listener[l] = "failed"

Distinct == \A l, m \in Listener : l # m => Listen[l] # Listen[m]

Available(l) == \/ Listen[l] \in Tcp /\ at[Listen[l]] \in {Free, l}
                \/ Listen[l] \in Unix /\ at[Listen[l]] # Denied

\* Every life of the process ends up listening at all its addresses, also the
\* one after a crash, which left its socket files behind, unless it is
\* stopped before or another has the address (server.rs:221-223).
ListensAgain ==
    Distinct =>
        (main = "run" /\ \A l \in Listener : Available(l))
            ~> \/ \A l \in Listener : Serving(l)
               \/ shutdown
               \/ status \in {"ok", "killed"}

\* A SIGTERM ends the process, whatever its clients and listeners are doing: also
\* while every accept fails and is retried at once (server.rs:202-205), and with
\* connections that wait for ever to write a reply (server.rs:181).
SigtermEnds == sigterm = "pending" ~> main = "exited"

-----------------------------------------------------------------------------
(* What is said of the program and does not hold. *)

\* run has one accept loop per configured listener until the token is
\* cancelled (server.rs:246), else it ends.
OneLoopPerListener ==
    \A l \in Listener :
        main = "run" ~> Serving(l) \/ shutdown \/ main = "exited"

\* SIGTERM is a graceful shutdown (README.md:74): no request that is being
\* handled is dropped by it.
GracefulShutdown == status = "ok" => \A c \in Client : conn[c] # "dropped"
=============================================================================
