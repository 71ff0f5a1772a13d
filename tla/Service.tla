------------------------------- MODULE Service -------------------------------
(***************************************************************************)
(* The service over several lives of the process: HotReload, with the      *)
(* evaluator that keeps the [overrides] and [spf] of the start (AppState   *)
(* in rspf/src/server.rs), the replies as clients get them or lose them    *)
(* (handle_connection), and a process that ends and is started again by    *)
(* its supervisor (rspfd/src/main.rs, examples/daemontools/rspfd/run).     *)
(***************************************************************************)
EXTENDS HotReload

CONSTANTS MaxStarts   \* bound on the lives of the process

ASSUME MaxStartsAssumption == MaxStarts \in Nat \ {0}

VARIABLES evaluator,   \* the version whose [overrides] and [spf] it has, or 0
          starts,      \* the lives of the process so far
          booted,      \* history: the version on disk when this life began
          seen,        \* history: the newest versions a reply rested on
          from,        \* history: seen, when the request of a task came
          answer       \* what the client of a connection was last answered

own == <<evaluator, starts, booted, seen, from, answer>>

svars == <<disk, phase, hup, asked, loader, config, whitelist, listed, worker,
           evaluator, starts, booted, seen, from, answer>>

Nothing == [config |-> 0, list |-> 0]

NoAnswer == [verb |-> "-", text |-> "-"]

ServiceInit == /\ Init
               /\ evaluator = 0
               /\ starts = 1
               /\ booted = 1
               /\ seen = Nothing
               /\ from = [w \in Worker |-> Nothing]
               /\ answer = [w \in Worker |-> NoAnswer]

-----------------------------------------------------------------------------
\* Mutant of Boot: the evaluator reads the configuration file by itself.
BootAfresh ==
    /\ Start
    /\ evaluator' = Now
    /\ UNCHANGED <<starts, booted, seen, from, answer>>

\* AppState::new gives the evaluator what it needs of the configuration.
Boot ==
    /\ Start
    /\ evaluator' = loader.conf
    /\ UNCHANGED <<starts, booted, seen, from, answer>>

\* A connection decodes a request.
Take(w, req) ==
    /\ Receive(w, req)
    /\ from' = [from EXCEPT ![w] = seen]
    /\ answer' = [answer EXCEPT ![w] = NoAnswer]
    /\ UNCHANGED <<evaluator, starts, booted, seen>>

Larger(a, b) == IF a > b THEN a ELSE b

\* framed.send succeeds: the client has its reply, and with it the versions
\* the reply rests on.
Deliver(w) ==
    /\ Reply(w)
    /\ answer' = [answer EXCEPT ![w] = worker[w].action]
    /\ seen' = [config |-> Larger(Larger(worker[w].skipAt, worker[w].cfgAt),
                                  seen.config),
                list   |-> Larger(worker[w].listAt, seen.list)]
    /\ from' = [from EXCEPT ![w] = Nothing]
    /\ UNCHANGED <<evaluator, starts, booted>>

\* framed.send fails: the connection is closed, and the client comes back on
\* another.
SendFails(w) ==
    /\ Reply(w)
    /\ from' = [from EXCEPT ![w] = Nothing]
    /\ UNCHANGED <<evaluator, starts, booted, seen, answer>>

\* The process ends, by SIGTERM or a crash, whatever it is doing.
Stop ==
    /\ phase # "exited"
    /\ phase' = "exited"
    /\ UNCHANGED <<disk, hup, asked, loader, config, whitelist, listed, worker>>
    /\ UNCHANGED own

\* The supervisor starts it again, with nothing in memory.
Restart ==
    /\ phase = "exited" /\ starts < MaxStarts
    /\ phase' = "starting"
    /\ loader' = Begin
    /\ starts' = starts + 1
    /\ booted' = Now
    /\ hup' = FALSE /\ asked' = 0
    /\ config' = 0 /\ whitelist' = NoWhitelist /\ listed' = 0
    /\ worker' = [w \in Worker |-> Waiting]
    /\ evaluator' = 0
    /\ from' = [w \in Worker |-> Nothing]
    /\ answer' = [w \in Worker |-> NoAnswer]
    /\ UNCHANGED <<disk, seen>>

\* The steps of HotReload that leave replies and lives alone.
Operate == EditConf \/ EditFile \/ Sighup

Reload == ReceiveHup \/ LoadConfig \/ LoadFile \/ StoreWhitelist \/ StoreConfig

Work(w) == \/ CheckSkip(w) \/ CheckWhitelist(w) \/ LoadDecisionConfig(w)
           \/ CheckHelo(w) \/ CheckMailFrom(w) \/ DecideAction(w)

ServiceNext ==
    \/ (Operate \/ Reload \/ \E w \in Worker : Work(w)) /\ UNCHANGED own
    \/ Boot \/ Stop \/ Restart
    \/ \E w \in Worker :
          Deliver(w) \/ SendFails(w) \/ \E req \in Request : Take(w, req)

ServiceSpec == ServiceInit /\ [][ServiceNext]_svars
-----------------------------------------------------------------------------
\* The types of what Service adds to HotReload.
ServiceTypeOK ==
    /\ TypeOK
    /\ evaluator \in 0..Now
    /\ starts \in 1..MaxStarts
    /\ booted \in 1..Now
    /\ seen \in [config : 0..Now, list : 0..Now]
    /\ from \in [Worker -> [config : 0..Now, list : 0..Now]]
    /\ answer \in [Worker -> Action \cup {NoAnswer}]

\* A restart, and nothing but a restart, brings the [overrides] and [spf] of
\* the disk into force, while everything else follows the reloads: what the
\* evaluator has was on disk in this life, and no request is skipped, listed
\* or decided by anything older (server.rs:34-45; README.md:78-83).
EvaluatorIsOfTheStart ==
    phase = "running" =>
        /\ booted <= evaluator /\ evaluator <= config
        /\ ConfAt(evaluator) # Bad
        /\ \A w \in Worker : worker[w].pc # "idle" => evaluator <= worker[w].since

-----------------------------------------------------------------------------
(* The abstract specification, over the same files and requests. *)

AcceptedV(v) == v.conf # Bad
CompleteR(req) == req.complete
SkipsV(v, req) == SkippedByConfig(v.conf, req)
ListsV(v, req) == Matches(InlineWhitelist(v.conf.whitelist), req)
FilesV(v, later, req) ==
    \E i \in DOMAIN v.conf.whitelist.files :
        Matches(LoadFileInto(NoWhitelist, later.files[v.conf.whitelist.files[i]]), req)
DecisionsV(v) ==
    {Decide(v.conf.policy, v.conf.messages, v.conf.header_mode, helo, mail) :
        helo \in Outcome, mail \in Outcome}

PendingRequests ==
    [w \in Worker |-> [req |-> worker[w].req, from |-> from[w]]]

Promise == INSTANCE PolicyService WITH
    Client <- Worker, pending <- PendingRequests,
    Accepted <- AcceptedV, Complete <- CompleteR, Skips <- SkipsV,
    Lists <- ListsV, Files <- FilesV, Decisions <- DecisionsV

\* What clients see over reloads, failed reloads, lost replies and restarts is
\* what PolicyService allows: each answer follows from accepted versions read
\* in one order, and none is made of anything older than what an answer the
\* client could already know of rested on (server.rs:48-155, main.rs:88-109).
ImplementsPolicyService == Promise!PromiseSpec
=============================================================================
