---------------------------- MODULE ServiceProofs ----------------------------
(***************************************************************************)
(* Proofs about Service: what HotReload guarantees holds over all lives of *)
(* the process, and Service implements PolicyService.                      *)
(***************************************************************************)
EXTENDS HotReloadProofs, Service

USE MaxStartsAssumption

(***************************************************************************)
(* The steps of Service are those of HotReload, an end and a new start.    *)
(***************************************************************************)

LEMMA ServiceSteps == [ServiceNext]_svars => [Next]_vars \/ Stop \/ Restart
<1>1. Operate \/ Reload \/ Boot => Next
    BY DEF Operate, Reload, Boot, Next, Load
<1>2. ASSUME NEW w \in Worker, Work(w) \/ Deliver(w) \/ SendFails(w)
      PROVE  Next
    <2>1. Handle(w)
        BY <1>2 DEF Work, Deliver, SendFails, Handle
    <2> QED
        BY <2>1 DEF Next
<1>3. ASSUME NEW w \in Worker, NEW req \in Request, Take(w, req) PROVE Next
    <2>1. Receive(w, req)
        BY <1>3 DEF Take
    <2> QED
        BY <2>1 DEF Next
<1>4. UNCHANGED svars => UNCHANGED vars
    BY DEF svars, vars
<1> QED
    BY <1>1, <1>2, <1>3, <1>4 DEF ServiceNext

\* All that HotReload keeps.
KeptInv == IInv /\ OriginInv /\ OwedInv

LEMMA KeptByStop == KeptInv /\ Stop => KeptInv'
<1> SUFFICES ASSUME KeptInv, Stop PROVE KeptInv'
    OBVIOUS
<1> USE DEF Stop, KeptInv
<1>1. TypeOK'
    BY DEF IInv, TypeOK, Now
<1>2. LoadInv'
    BY DEF IInv, TypeOK, LoadInv, ConfAt, Now
<1>3. TaskInv'
    <2>1. \A t : TaskOK(t)' <=> TaskOK(t)
        BY DEF TaskOK, Evaluated, SkipsAt, ListsAt, ConfAt
    <2>2. \A w \in Worker : \A t : t = worker[w] => TaskOK(t)'
        BY <2>1 DEF IInv, TaskInv
    <2> QED
        BY <2>2 DEF TaskInv, TaskOK, Evaluated
<1>4. OriginInv'
    BY DEF OriginInv, LoadedUpTo, OnlyFrom, HoldsFile, Section, FilesOf, ConfAt,
           FileEntries, FileAt, Now
<1>5. OwedInv'
    <2>1. \A k, req : /\ Exempted(k, req)' <=> Exempted(k, req)
                      /\ Answers(k)' = Answers(k)
                      /\ SkipsAt(k, req)' <=> SkipsAt(k, req)
        BY DEF Exempted, Answers, SkipsAt, Section, FilesOf, ConfAt, FileEntries,
               FileAt, Now
    <2>2. \A t : OwedOK(t)' <=> OwedOK(t)
        BY <2>1 DEF OwedOK, Evaluated, ConfAt, Now
    <2>3. \A w \in Worker : \A t : t = worker[w] => OwedOK(t)'
        BY <2>2 DEF OwedInv
    <2> QED
        BY <2>3 DEF OwedInv, OwedOK, Evaluated
<1> QED
    BY <1>1, <1>2, <1>3, <1>4, <1>5 DEF IInv

LEMMA KeptByRestart == KeptInv /\ Restart => KeptInv'
<1> SUFFICES ASSUME KeptInv, Restart PROVE KeptInv'
    OBVIOUS
<1> USE DEF Restart
<1>0. disk' = disk /\ Now' = Now /\ Now \in Nat /\ Now >= 1 /\ Now \in 1..MaxDisk
    BY DEF KeptInv, IInv, TypeOK, Now
<1>1. TypeOK'
    <2>1. Waiting \in Task
        BY DEF Waiting, Task, Pending, Action, Dunno
    <2>2. worker' \in [Worker -> Task]
        BY <2>1
    <2>3. /\ loader'.pc = "config" /\ loader'.conf = 0 /\ loader'.next = 1
          /\ loader' = Loading(loader.pc, loader.conf, loader.next, loader.whitelist)'
          /\ IsWhitelist(loader.whitelist)' /\ IsWhitelist(whitelist)'
        BY WhitelistShapes DEF Begin, Loading
    <2>4. /\ phase' = "starting" /\ hup' \in BOOLEAN /\ asked' = 0
          /\ config' = 0 /\ listed' = 0 /\ disk' \in Seq(Version)
        BY <1>0 DEF KeptInv, IInv, TypeOK
    <2> QED
        BY <1>0, <2>2, <2>3, <2>4 DEF TypeOK
<1>2. LoadInv'
    BY DEF LoadInv, Begin, Loading
<1>3. TaskInv'
    BY DEF TaskInv, TaskOK, Waiting, Evaluated
<1>4. OriginInv'
    BY DEF OriginInv, Begin, Loading
<1>5. OwedInv'
    BY DEF OwedInv, OwedOK, Waiting, Evaluated
<1> QED
    BY <1>1, <1>2, <1>3, <1>4, <1>5 DEF KeptInv, IInv

LEMMA KeptNext == KeptInv /\ [ServiceNext]_svars => KeptInv'
<1>1. KeptInv /\ [Next]_vars => KeptInv'
    BY InvNext, OriginNext, OwedNext DEF KeptInv
<1> QED
    BY <1>1, ServiceSteps, KeptByStop, KeptByRestart

\* HotReload's invariants hold over every life of the process.
THEOREM Kept == ServiceSpec => []KeptInv
<1>1. ServiceInit => KeptInv
    BY InvInit, OriginInit, OwedInit DEF ServiceInit, KeptInv
<1> QED
    BY <1>1, KeptNext, PTL DEF ServiceSpec

\* Ends at any moment, lost replies and restarts take none of HotReload's
\* safety properties away.
THEOREM LivesAreSafe ==
    ServiceSpec => [](/\ InstalledPairMatches /\ ReadsMoveForward
                      /\ ExemptionMovesSeamlessly
                      /\ WhitelistIsOneLoad /\ NoStaleExemption)
<1>1. KeptInv => /\ InstalledPairMatches /\ ReadsMoveForward
                 /\ ExemptionMovesSeamlessly
                 /\ WhitelistIsOneLoad /\ NoStaleExemption
    BY InvGivesPair, InvGivesOrder, InvGivesMoves, InvGivesOneLoad, InvGivesNoneStale
       DEF KeptInv
<1> QED
    BY <1>1, Kept, PTL

(***************************************************************************)
(* The lives of the process, and what clients have seen.                   *)
(***************************************************************************)

LifeInv ==
    /\ starts \in 1..MaxStarts
    /\ booted \in 1..Now /\ evaluator \in 0..Now
    /\ phase = "starting" => \A w \in Worker : worker[w].pc = "idle"
    /\ phase = "starting" /\ loader.pc = "files" => booted <= loader.conf
    /\ phase = "running" =>
          /\ booted <= evaluator /\ evaluator <= config
          /\ ConfAt(evaluator) # Bad
          /\ \A w \in Worker : worker[w].pc # "idle" => evaluator <= worker[w].since

\* A task answers from nothing older than what clients had seen before.
FromOK(t, f) ==
    /\ t.pc = "idle" => f = Nothing
    /\ t.pc # "idle" => f.config <= t.since
    /\ t.pc \in {"skip", "whitelist"} => f.list <= listed
    /\ t.pc \in {"config", "evaluate"} \/ t.why \in {"whitelist", "evaluated"}
          => f.list <= t.listAt

SeenInv ==
    /\ seen \in [config : 0..Now, list : 0..Now]
    /\ from \in [Worker -> [config : 0..Now, list : 0..Now]]
    /\ answer \in [Worker -> Action \cup {NoAnswer}]
    /\ phase = "running" => seen.config <= config /\ seen.list <= listed
    /\ phase = "starting" /\ loader.pc = "files" =>
          seen.config <= loader.conf /\ seen.list <= loader.conf
    /\ \A w \in Worker : FromOK(worker[w], from[w])

ServiceInv == KeptInv /\ LifeInv /\ SeenInv

LEMMA LifeInit == ServiceInit => LifeInv
<1> SUFFICES ASSUME ServiceInit PROVE LifeInv
    OBVIOUS
<1>1. Now = 1
    BY DEF ServiceInit, Init, Now
<1> QED
    BY <1>1 DEF ServiceInit, Init, LifeInv, Waiting, Begin, Loading

\* What a step of a task to its next state keeps.
KeepsUp(t, s) == /\ s.pc # "idle"
                 /\ s.since = t.since /\ s.req = t.req
                 /\ \A f : FromOK(t, f) => FromOK(s, f)

\* A task's own steps leave it with the request it has, and the versions it
\* rests on with those that were in force since the request came.
LEMMA WorkStep ==
    ASSUME TypeOK, TaskInv, NEW w \in Worker, Work(w)
    PROVE  /\ phase = "running" /\ worker[w].pc # "idle"
           /\ \E task : Moves(w, task) /\ KeepsUp(worker[w], task)
<1>0. worker[w] \in Task /\ config \in Nat /\ listed \in Nat /\ TaskOK(worker[w])
    BY DEF TypeOK, TaskInv, Now
<1>1. phase = "running" /\ worker[w].pc # "idle"
    BY DEF Work, CheckSkip, CheckWhitelist, LoadDecisionConfig, CheckHelo,
           CheckMailFrom, DecideAction, At
<1>2. CASE CheckSkip(w)
    <2>1. worker[w].pc = "skip"
        BY <1>2 DEF CheckSkip, At
    <2>2. \A t \in Task : t.pc = "skip" /\ TaskOK(t) =>
             /\ KeepsUp(t, [t EXCEPT !.pc = "reply", !.skipAt = config, !.why = "skip"])
             /\ KeepsUp(t, [t EXCEPT !.pc = "whitelist", !.skipAt = config])
        BY <1>0 DEF Task, TaskOK, KeepsUp, FromOK
    <2>3. /\ KeepsUp(worker[w], [worker[w] EXCEPT !.pc = "reply", !.skipAt = config,
                                                 !.why = "skip"])
          /\ KeepsUp(worker[w], [worker[w] EXCEPT !.pc = "whitelist",
                                                 !.skipAt = config])
        BY <1>0, <2>1, <2>2
    <2> QED
        BY <1>1, <1>2, <2>3 DEF CheckSkip
<1>3. CASE CheckWhitelist(w)
    <2>1. worker[w].pc = "whitelist"
        BY <1>3 DEF CheckWhitelist, At
    <2>2. \A t \in Task : t.pc = "whitelist" /\ TaskOK(t) =>
             /\ KeepsUp(t, [t EXCEPT !.pc = "reply", !.listAt = listed,
                                     !.why = "whitelist"])
             /\ KeepsUp(t, [t EXCEPT !.pc = "config", !.listAt = listed])
        BY <1>0 DEF Task, TaskOK, KeepsUp, FromOK
    <2>3. /\ KeepsUp(worker[w], [worker[w] EXCEPT !.pc = "reply", !.listAt = listed,
                                                 !.why = "whitelist"])
          /\ KeepsUp(worker[w], [worker[w] EXCEPT !.pc = "config", !.listAt = listed])
        BY <1>0, <2>1, <2>2
    <2> QED
        BY <1>1, <1>3, <2>3 DEF CheckWhitelist
<1>4. CASE LoadDecisionConfig(w)
    <2> DEFINE s == Subject(worker[w].req.sender, ConfAt(config).srs, Today)
    <2>1. worker[w].pc = "config"
        BY <1>4 DEF LoadDecisionConfig, At
    <2>2. \A t \in Task : \A x : t.pc = "config" /\ TaskOK(t) =>
             KeepsUp(t, [t EXCEPT !.pc = "evaluate", !.cfgAt = config, !.subject = x])
        BY <1>0 DEF Task, TaskOK, KeepsUp, FromOK
    <2>3. KeepsUp(worker[w], [worker[w] EXCEPT !.pc = "evaluate", !.cfgAt = config,
                                               !.subject = s])
        BY <1>0, <2>1, <2>2
    <2>4. Moves(w, [worker[w] EXCEPT !.pc = "evaluate", !.cfgAt = config,
                                     !.subject = s])
        BY <1>4 DEF LoadDecisionConfig
    <2> QED
        BY <1>1, <2>3, <2>4
<1>5. CASE CheckHelo(w) \/ CheckMailFrom(w)
    <2>1. \A t \in Task : \A r : t.pc # "idle" /\ TaskOK(t) =>
             KeepsUp(t, [t EXCEPT !.helo = r]) /\ KeepsUp(t, [t EXCEPT !.mail = r])
        BY DEF Task, TaskOK, KeepsUp, FromOK
    <2>2. \A r : /\ KeepsUp(worker[w], [worker[w] EXCEPT !.helo = r])
                 /\ KeepsUp(worker[w], [worker[w] EXCEPT !.mail = r])
        BY <1>0, <1>1, <2>1
    <2> QED
        BY <1>1, <1>5, <2>2 DEF CheckHelo, CheckMailFrom
<1>6. CASE DecideAction(w)
    <2> DEFINE cfg == ConfAt(worker[w].cfgAt)
               a   == Decide(cfg.policy, cfg.messages, cfg.header_mode,
                             worker[w].helo, worker[w].mail)
    <2>1. worker[w].pc = "evaluate"
        BY <1>6 DEF DecideAction, At
    <2>2. \A t \in Task : \A x : t.pc = "evaluate" /\ TaskOK(t) =>
             KeepsUp(t, [t EXCEPT !.pc = "reply", !.why = "evaluated", !.action = x])
        BY DEF Task, TaskOK, KeepsUp, FromOK
    <2>3. KeepsUp(worker[w], [worker[w] EXCEPT !.pc = "reply", !.why = "evaluated",
                                               !.action = a])
        BY <1>0, <2>1, <2>2
    <2>4. Moves(w, [worker[w] EXCEPT !.pc = "reply", !.why = "evaluated",
                                     !.action = a])
        BY <1>6 DEF DecideAction
    <2> QED
        BY <1>1, <2>3, <2>4
<1> QED
    BY <1>2, <1>3, <1>4, <1>5, <1>6 DEF Work

\* What a task is when its request has come.
LEMMA TakeStep ==
    ASSUME TypeOK, NEW w \in Worker, NEW req \in Request, Take(w, req)
    PROVE  /\ phase = "running" /\ worker[w].pc = "idle"
           /\ \E task : /\ Moves(w, task)
                        /\ task.since = config /\ task.req = req
                        /\ task.pc \in {"skip", "reply"}
                        /\ task.why \in {"-", "incomplete"}
<1>1. phase = "running" /\ worker[w].pc = "idle"
    BY DEF Take, Receive, At
<1>2. PICK pc \in {"skip", "reply"}, why \in {"-", "incomplete"} :
         Moves(w, [Waiting EXCEPT !.pc = pc, !.why = why, !.req = req,
                                  !.since = config])
    BY DEF Take, Receive
<1>3. /\ [Waiting EXCEPT !.pc = pc, !.why = why, !.req = req,
                         !.since = config].since = config
      /\ [Waiting EXCEPT !.pc = pc, !.why = why, !.req = req,
                         !.since = config].req = req
      /\ [Waiting EXCEPT !.pc = pc, !.why = why, !.req = req,
                         !.since = config].pc = pc
      /\ [Waiting EXCEPT !.pc = pc, !.why = why, !.req = req,
                         !.since = config].why = why
    BY DEF Waiting
<1> QED
    BY <1>1, <1>2, <1>3

LEMMA LifeNext == ServiceInv /\ [ServiceNext]_svars => LifeInv'
<1> SUFFICES ASSUME ServiceInv, [ServiceNext]_svars PROVE LifeInv'
    OBVIOUS
<1>0. /\ KeptInv /\ LifeInv /\ IInv /\ TypeOK /\ LoadInv
      /\ Now \in Nat /\ Now >= 1 /\ config \in 0..Now /\ loader.conf \in 0..Now
    BY DEF ServiceInv, KeptInv, IInv, TypeOK, Now
<1>1. CASE Stop
    BY <1>0, <1>1 DEF Stop, own, LifeInv, ConfAt, Now
<1>2. CASE Restart
    BY <1>0, <1>2 DEF Restart, LifeInv, Waiting, Begin, Loading, Now
<1>3. ASSUME [Next]_vars
      PROVE  /\ Now <= Now' /\ Now' \in Nat /\ config <= config'
             /\ config' \in 0..Now'
             /\ \A k \in 1..Now : ConfAt(k)' = ConfAt(k)
    <2>1. Now' \in Nat /\ config' \in 0..Now'
        BY <1>0, <1>3, TypeNext DEF TypeOK, Now
    <2> QED
        BY <1>0, <1>3, <2>1, DiskGrows, VersionsGrow
<1>4. ASSUME [Next]_vars, UNCHANGED <<evaluator, starts, booted, worker>>,
             phase' = "running" => phase = "running",
             phase' = "starting" =>
                /\ phase = "starting"
                /\ loader'.pc = "files" =>
                      \/ loader'.conf = Now
                      \/ loader.pc = "files" /\ loader'.conf = loader.conf
      PROVE  LifeInv'
    <2>1. phase' = "running" => evaluator \in 1..Now
        BY <1>0, <1>4 DEF LifeInv
    <2> QED
        BY <1>0, <1>3, <1>4, <2>1 DEF LifeInv
<1>5. CASE Operate /\ UNCHANGED own
    <2>1. UNCHANGED <<worker, loader>> /\ phase' \in {phase, "exited"}
        BY <1>5 DEF Operate, EditConf, EditFile, Edit, Sighup
    <2>2. [Next]_vars
        BY <1>5 DEF Operate, Next
    <2> QED
        BY <1>0, <1>4, <1>5, <2>1, <2>2 DEF own, TypeOK
<1>6. CASE Reload /\ UNCHANGED own
    <2>1. UNCHANGED worker /\ phase' \in {phase, "exited"}
        BY <1>6 DEF Reload, ReceiveHup, LoadConfig, LoadFile, FailLoad, StoreWhitelist,
                    StoreConfig
    <2>2. loader'.pc = "files" =>
             \/ loader'.conf = Now
             \/ loader.pc = "files" /\ loader'.conf = loader.conf
        BY <1>6 DEF Reload, ReceiveHup, LoadConfig, LoadFile, FailLoad, StoreWhitelist,
                    StoreConfig, Begin, NotLoading, Loading
    <2>3. [Next]_vars
        BY <1>6 DEF Reload, Next, Load
    <2> QED
        BY <1>0, <1>4, <1>6, <2>1, <2>2, <2>3 DEF own, TypeOK
<1>7. CASE Boot
    BY <1>0, <1>7 DEF Boot, Start, LoadIsComplete, LifeInv, LoadInv, TypeOK, ConfAt, Now
<1>8. ASSUME NEW w \in Worker, NEW task, Moves(w, task),
             UNCHANGED <<evaluator, starts, booted>>, phase = "running",
             task.pc # "idle" => worker[w].pc # "idle" /\ task.since = worker[w].since
      PROVE  LifeInv'
    <2>1. \A v \in Worker : worker'[v] = IF v = w THEN task ELSE worker[v]
        BY <1>0, <1>8 DEF Moves, TypeOK
    <2> QED
        BY <1>0, <1>8, <2>1 DEF Moves, LifeInv, ConfAt, Now
<1>9. ASSUME NEW w \in Worker, Work(w), UNCHANGED own PROVE LifeInv'
    <2>1. /\ phase = "running" /\ worker[w].pc # "idle"
          /\ \E task : Moves(w, task) /\ task.since = worker[w].since
        BY <1>0, <1>9, WorkStep DEF IInv, KeepsUp
    <2> QED
        BY <1>8, <1>9, <2>1 DEF own
<1>10. ASSUME NEW w \in Worker, Deliver(w) \/ SendFails(w) PROVE LifeInv'
    <2>1. Waiting.pc = "idle"
        BY DEF Waiting
    <2> QED
        BY <1>8, <1>10, <2>1 DEF Deliver, SendFails, Reply, At
<1>11. ASSUME NEW w \in Worker, NEW req \in Request, Take(w, req) PROVE LifeInv'
    <2>1. PICK task : /\ Moves(w, task) /\ task.since = config /\ phase = "running"
                      /\ UNCHANGED <<evaluator, starts, booted>>
        BY <1>0, <1>11, TakeStep DEF Take
    <2>2. \A v \in Worker : worker'[v] = IF v = w THEN task ELSE worker[v]
        BY <1>0, <2>1 DEF Moves, TypeOK
    <2> QED
        BY <1>0, <2>1, <2>2 DEF Moves, LifeInv, ConfAt, Now
<1>12. CASE UNCHANGED svars
    BY <1>0, <1>12 DEF svars, LifeInv, ConfAt, Now
<1> QED
    BY <1>1, <1>2, <1>5, <1>6, <1>7, <1>9, <1>10, <1>11, <1>12 DEF ServiceNext

LEMMA SeenInit == ServiceInit => SeenInv
<1> SUFFICES ASSUME ServiceInit PROVE SeenInv
    OBVIOUS
<1>1. Now = 1 /\ phase = "starting" /\ loader.pc = "config"
    BY DEF ServiceInit, Init, Now, Begin, Loading
<1>2. seen \in [config : 0..Now, list : 0..Now] /\ Nothing \in [config : 0..Now, list : 0..Now]
    BY <1>1 DEF ServiceInit, Nothing
<1>3. /\ from \in [Worker -> [config : 0..Now, list : 0..Now]]
      /\ answer \in [Worker -> Action \cup {NoAnswer}]
    BY <1>2 DEF ServiceInit
<1>4. \A w \in Worker : FromOK(worker[w], from[w])
    BY DEF ServiceInit, Init, FromOK, Waiting
<1> QED
    BY <1>1, <1>2, <1>3, <1>4 DEF SeenInv

\* The bounds on what clients have seen, in a state with more versions.
Bounded(r, n) == r.config \in 0..n /\ r.list \in 0..n

LEMMA SeenNext == ServiceInv /\ [ServiceNext]_svars => SeenInv'
<1> SUFFICES ASSUME ServiceInv, [ServiceNext]_svars PROVE SeenInv'
    OBVIOUS
<1>0. /\ KeptInv /\ SeenInv /\ IInv /\ TypeOK /\ LoadInv /\ TaskInv
      /\ Now \in Nat /\ Now >= 1
      /\ config \in 0..Now /\ listed \in 0..Now /\ loader.conf \in 0..Now
      /\ \A w \in Worker : worker[w] \in Task /\ FromOK(worker[w], from[w])
    BY DEF ServiceInv, SeenInv, KeptInv, IInv, TypeOK, Now
<1>1. ASSUME Now <= Now', Now' \in Nat
      PROVE  [config : 0..Now, list : 0..Now] \subseteq [config : 0..Now', list : 0..Now']
    BY <1>0, <1>1
<1>2. CASE Stop
    BY <1>0, <1>2 DEF Stop, own, SeenInv, FromOK, Now
<1>3. CASE Restart
    <2>1. /\ phase' = "starting" /\ loader'.pc = "config" /\ Now' = Now
          /\ seen' = seen
          /\ from' = [w \in Worker |-> Nothing] /\ answer' = [w \in Worker |-> NoAnswer]
        BY <1>3 DEF Restart, Begin, Loading, Now
    <2>2. Nothing \in [config : 0..Now, list : 0..Now]
        BY <1>0 DEF Nothing
    <2>3. \A w \in Worker : FromOK(worker[w], from[w])'
        BY <1>3, <2>1 DEF Restart, FromOK, Waiting
    <2> QED
        BY <1>0, <2>1, <2>2, <2>3 DEF SeenInv
<1>4. ASSUME [Next]_vars
      PROVE  /\ Now <= Now' /\ Now' \in Nat
             /\ config <= config' /\ listed <= listed'
             /\ config' \in 0..Now' /\ listed' \in 0..Now'
    <2>1. Now' \in Nat /\ config' \in 0..Now' /\ listed' \in 0..Now'
        BY <1>0, <1>4, TypeNext DEF TypeOK, Now
    <2> QED
        BY <1>0, <1>4, <2>1, DiskGrows, VersionsGrow
<1>5. ASSUME [Next]_vars, UNCHANGED <<seen, from, answer, worker>>,
             phase' = "running" => phase = "running",
             phase' = "starting" =>
                /\ phase = "starting"
                /\ loader'.pc = "files" =>
                      \/ loader'.conf = Now
                      \/ loader.pc = "files" /\ loader'.conf = loader.conf
      PROVE  SeenInv'
    <2>1. /\ seen.config \in 0..Now /\ seen.list \in 0..Now
          /\ \A w \in Worker : from[w].list \in 0..Now
        BY <1>0 DEF SeenInv
    <2>2. \A w \in Worker : FromOK(worker[w], from[w])'
        BY <1>0, <1>4, <1>5, <2>1 DEF FromOK
    <2>3. /\ seen' \in [config : 0..Now', list : 0..Now']
          /\ from' \in [Worker -> [config : 0..Now', list : 0..Now']]
        BY <1>0, <1>1, <1>4, <1>5 DEF SeenInv
    <2>4. phase' = "running" => seen'.config <= config' /\ seen'.list <= listed'
        BY <1>0, <1>4, <1>5, <2>1 DEF SeenInv
    <2>5. phase' = "starting" /\ loader'.pc = "files" =>
             seen'.config <= loader'.conf /\ seen'.list <= loader'.conf
        BY <1>0, <1>5, <2>1 DEF SeenInv
    <2> QED
        BY <1>0, <1>5, <2>2, <2>3, <2>4, <2>5 DEF SeenInv
<1>6. CASE Operate /\ UNCHANGED own
    <2>1. UNCHANGED <<worker, loader>> /\ phase' \in {phase, "exited"}
        BY <1>6 DEF Operate, EditConf, EditFile, Edit, Sighup
    <2>2. [Next]_vars
        BY <1>6 DEF Operate, Next
    <2> QED
        BY <1>0, <1>5, <1>6, <2>1, <2>2 DEF own, TypeOK
<1>7. CASE Reload /\ UNCHANGED own
    <2>1. UNCHANGED worker /\ phase' \in {phase, "exited"}
        BY <1>7 DEF Reload, ReceiveHup, LoadConfig, LoadFile, FailLoad, StoreWhitelist,
                    StoreConfig
    <2>2. loader'.pc = "files" =>
             \/ loader'.conf = Now
             \/ loader.pc = "files" /\ loader'.conf = loader.conf
        BY <1>7 DEF Reload, ReceiveHup, LoadConfig, LoadFile, FailLoad, StoreWhitelist,
                    StoreConfig, Begin, NotLoading, Loading
    <2>3. [Next]_vars
        BY <1>7 DEF Reload, Next, Load
    <2> QED
        BY <1>0, <1>5, <1>7, <2>1, <2>2, <2>3 DEF own, TypeOK
<1>8. CASE Boot
    <2>1. /\ phase = "starting" /\ loader.pc = "files" /\ phase' = "running"
          /\ config' = loader.conf /\ listed' = loader.conf /\ Now' = Now
          /\ UNCHANGED <<seen, from, answer, worker>>
        BY <1>8 DEF Boot, Start, LoadIsComplete, Now
    <2>2. \A w \in Worker : worker[w].pc = "idle" => worker[w].why = "-"
        BY <1>0 DEF TaskInv, TaskOK
    <2>3. \A w \in Worker : FromOK(worker[w], from[w])'
        BY <1>0, <2>1, <2>2 DEF ServiceInv, LifeInv, FromOK
    <2> QED
        BY <1>0, <2>1, <2>3 DEF SeenInv
<1>9. ASSUME NEW w \in Worker, NEW task, Moves(w, task),
             UNCHANGED <<seen, from, answer>>, FromOK(task, from[w])
      PROVE  SeenInv'
    <2>1. \A v \in Worker : worker'[v] = IF v = w THEN task ELSE worker[v]
        BY <1>0, <1>9 DEF Moves, TypeOK
    <2>2. \A v \in Worker : FromOK(worker[v], from[v])'
        BY <1>0, <1>9, <2>1 DEF Moves, FromOK
    <2> QED
        BY <1>0, <1>9, <2>2 DEF Moves, SeenInv, Now
<1>10. ASSUME NEW w \in Worker, Work(w), UNCHANGED own PROVE SeenInv'
    <2>1. \E task : Moves(w, task) /\ KeepsUp(worker[w], task)
        BY <1>0, <1>10, WorkStep
    <2>2. \E task : Moves(w, task) /\ FromOK(task, from[w])
        BY <1>0, <2>1 DEF KeepsUp
    <2> QED
        BY <1>9, <1>10, <2>2 DEF own
<1>11. ASSUME NEW w \in Worker, Deliver(w) \/ SendFails(w) PROVE SeenInv'
    <2>1. /\ UNCHANGED <<disk, phase, hup, asked, loader, config, whitelist, listed>>
          /\ phase = "running" /\ from' = [from EXCEPT ![w] = Nothing] /\ Now' = Now
        BY <1>11 DEF Deliver, SendFails, Reply, Moves, At, Now
    <2>2. \A v \in Worker : worker'[v] = IF v = w THEN Waiting ELSE worker[v]
        BY <1>0, <1>11 DEF Deliver, SendFails, Reply, Moves, TypeOK
    <2>3. Nothing \in [config : 0..Now, list : 0..Now]
        BY <1>0 DEF Nothing
    <2>4. /\ from' \in [Worker -> [config : 0..Now, list : 0..Now]]
          /\ \A v \in Worker : from'[v] = IF v = w THEN Nothing ELSE from[v]
        BY <2>1, <2>3 DEF ServiceInv, SeenInv
    <2>5. \A v \in Worker : FromOK(worker[v], from[v])'
        BY <1>0, <2>1, <2>2, <2>4 DEF FromOK, Waiting
    <2>6. answer' \in [Worker -> Action \cup {NoAnswer}]
        BY <1>0, <1>11 DEF Deliver, SendFails, SeenInv, Task
    <2>7. /\ seen' \in [config : 0..Now, list : 0..Now]
          /\ seen'.config <= config /\ seen'.list <= listed
        <3>1. /\ worker[w].skipAt <= config /\ worker[w].cfgAt <= config
              /\ worker[w].listAt <= listed
              /\ worker[w].skipAt \in Nat /\ worker[w].cfgAt \in Nat
              /\ worker[w].listAt \in Nat
            BY <1>0 DEF TaskInv, TaskOK, Task
        <3>2. /\ seen \in [config : 0..Now, list : 0..Now]
              /\ seen.config <= config /\ seen.list <= listed
            BY <1>0, <2>1 DEF SeenInv
        <3> QED
            BY <1>0, <1>11, <3>1, <3>2 DEF Deliver, SendFails, Larger
    <2> QED
        BY <2>1, <2>4, <2>5, <2>6, <2>7 DEF SeenInv
<1>12. ASSUME NEW w \in Worker, NEW req \in Request, Take(w, req) PROVE SeenInv'
    <2>1. /\ UNCHANGED <<disk, phase, hup, asked, loader, config, whitelist, listed>>
          /\ phase = "running" /\ from' = [from EXCEPT ![w] = seen] /\ Now' = Now
          /\ seen' = seen /\ answer' = [answer EXCEPT ![w] = NoAnswer]
        BY <1>12 DEF Take, Receive, Moves, At, Now
    <2>2. PICK task : /\ \A v \in Worker : worker'[v] = IF v = w THEN task ELSE worker[v]
                      /\ task.since = config /\ task.pc \in {"skip", "reply"}
                      /\ task.why \in {"-", "incomplete"}
        BY <1>0, <1>12, TakeStep DEF Moves, TypeOK
    <2>3. /\ seen \in [config : 0..Now, list : 0..Now]
          /\ seen.config <= config /\ seen.list <= listed
        BY <1>0, <2>1 DEF SeenInv
    <2>4. /\ from' \in [Worker -> [config : 0..Now, list : 0..Now]]
          /\ \A v \in Worker : from'[v] = IF v = w THEN seen ELSE from[v]
        BY <2>1, <2>3 DEF ServiceInv, SeenInv
    <2>5. \A v \in Worker : FromOK(worker[v], from[v])'
        BY <1>0, <2>1, <2>2, <2>3, <2>4 DEF FromOK
    <2>6. answer' \in [Worker -> Action \cup {NoAnswer}]
        BY <1>0, <2>1 DEF SeenInv
    <2> QED
        BY <2>1, <2>3, <2>4, <2>5, <2>6 DEF SeenInv
<1>13. CASE UNCHANGED svars
    BY <1>0, <1>13 DEF svars, SeenInv, FromOK, Now
<1> QED
    BY <1>2, <1>3, <1>6, <1>7, <1>8, <1>10, <1>11, <1>12, <1>13 DEF ServiceNext

\* The invariant of Service is inductive.
THEOREM ServiceInvariance == ServiceSpec => []ServiceInv
<1>1. ServiceInit => ServiceInv
    BY InvInit, OriginInit, OwedInit, LifeInit, SeenInit
       DEF ServiceInit, ServiceInv, KeptInv
<1>2. ServiceInv /\ [ServiceNext]_svars => ServiceInv'
    BY KeptNext, LifeNext, SeenNext DEF ServiceInv
<1> QED
    BY <1>1, <1>2, PTL DEF ServiceSpec

\* What Service adds to HotReload keeps its types.
THEOREM ServiceTypes == ServiceSpec => []ServiceTypeOK
<1>1. ServiceInv => ServiceTypeOK
    BY DEF ServiceInv, KeptInv, IInv, LifeInv, SeenInv, ServiceTypeOK
<1> QED
    BY <1>1, ServiceInvariance, PTL

\* The evaluator keeps the overrides and limits of the start, in every life:
\* they were on disk in it, and nothing else in use is older.
THEOREM EvaluatorStays == ServiceSpec => []EvaluatorIsOfTheStart
<1>1. ServiceInv => EvaluatorIsOfTheStart
    BY DEF ServiceInv, LifeInv, EvaluatorIsOfTheStart
<1> QED
    BY <1>1, ServiceInvariance, PTL

(***************************************************************************)
(* Service implements PolicyService: what a client is answered, through    *)
(* edits, reloads, lost replies, ends and restarts, is what PolicyService  *)
(* allows.                                                                 *)
(***************************************************************************)

\* The promise at a state, at a task that waits for a request.
LEMMA IdleIsIdle ==
    ASSUME ServiceInv, NEW w \in Worker
    PROVE  /\ worker[w].pc = "idle" =>
                 PendingRequests[w] = Promise!Idle /\ PendingRequests[w].req = NoRequest
           /\ worker[w].pc # "idle" => PendingRequests[w].req # NoRequest
<1>1. OwedOK(worker[w]) /\ FromOK(worker[w], from[w])
    BY DEF ServiceInv, KeptInv, OwedInv, SeenInv
<1>2. PendingRequests[w] = [req |-> worker[w].req, from |-> from[w]]
    BY DEF PendingRequests
<1>3. CASE worker[w].pc = "idle"
    <2>1. worker[w] = Waiting /\ from[w] = Nothing
        BY <1>1, <1>3 DEF OwedOK, FromOK
    <2>2. worker[w].req = NoRequest
        BY <2>1 DEF Waiting
    <2> QED
        BY <1>2, <1>3, <2>1, <2>2 DEF Promise!Idle, Promise!Nothing, Nothing
<1>4. CASE worker[w].pc # "idle"
    <2>1. worker[w].req \in Request
        BY <1>1, <1>4 DEF OwedOK
    <2> QED
        BY <1>2, <1>4, <2>1, RequestAssumption
<1> QED
    BY <1>3, <1>4

\* What is pending changes at one connection.
LEMMA PendingMoves ==
    ASSUME ServiceInv, NEW w \in Worker, NEW task, Moves(w, task), NEW f,
           from' = [from EXCEPT ![w] = f]
    PROVE  PendingRequests' = [PendingRequests EXCEPT ![w] = [req |-> task.req, from |-> f]]
<1>1. /\ \A v \in Worker : worker'[v] = IF v = w THEN task ELSE worker[v]
      /\ \A v \in Worker : from'[v] = IF v = w THEN f ELSE from[v]
    BY DEF ServiceInv, KeptInv, IInv, TypeOK, SeenInv, Moves
<1> QED
    BY <1>1 DEF PendingRequests

\* A step no client can see.
LEMMA NothingSeen ==
    ASSUME UNCHANGED <<disk, seen, from, answer>>,
           \A v \in Worker : worker'[v].req = worker[v].req
    PROVE  UNCHANGED Promise!promises
<1>1. PendingRequests' = PendingRequests
    BY DEF PendingRequests
<1> QED
    BY <1>1 DEF Promise!promises

LEMMA InitIsPromised == ServiceInit => Promise!PromiseInit
<1> SUFFICES ASSUME ServiceInit PROVE Promise!PromiseInit
    OBVIOUS
<1>1. Waiting.req = NoRequest
    BY DEF Waiting
<1>2. \A w \in Worker : worker[w].req = NoRequest /\ from[w] = Nothing
    BY <1>1 DEF ServiceInit, Init
<1>3. PendingRequests = [w \in Worker |-> Promise!Idle]
    BY <1>2 DEF PendingRequests, Promise!Idle, Promise!Nothing, Nothing
<1>4. seen = Promise!Nothing /\ answer = [w \in Worker |-> NoAnswer]
    BY DEF ServiceInit, Promise!Nothing, Nothing
<1>5. disk \in {<<v>> : v \in Version}
    BY DEF ServiceInit, Init
<1> QED
    BY <1>3, <1>4, <1>5 DEF Promise!PromiseInit

\* The operator's edits are the promise's.
LEMMA OperateIsPromised ==
    ASSUME ServiceInv, Operate, UNCHANGED own
    PROVE  Promise!Edit \/ UNCHANGED Promise!promises
<1>1. UNCHANGED <<worker, seen, from, answer>>
    BY DEF Operate, EditConf, EditFile, Edit, Sighup, own
<1>2. [Next]_vars
    BY DEF Operate, Next
<1>3. disk' = disk \/ \E v \in Version : disk' = Append(disk, v)
    BY <1>2, DiskAppends DEF ServiceInv, KeptInv, IInv
<1>4. PendingRequests' = PendingRequests
    BY <1>1 DEF PendingRequests
<1> QED
    BY <1>1, <1>3, <1>4 DEF Promise!Edit, Promise!promises

\* A request that comes is asked with what its client may know.
LEMMA TakeIsPromised ==
    ASSUME ServiceInv, NEW w \in Worker, NEW req \in Request, Take(w, req)
    PROVE  Promise!Ask(w, req)
<1>1. PICK task : Moves(w, task) /\ task.req = req
    BY TakeStep DEF ServiceInv, KeptInv, IInv
<1>2. /\ from' = [from EXCEPT ![w] = seen] /\ answer' = [answer EXCEPT ![w] = NoAnswer]
      /\ disk' = disk /\ seen' = seen
    BY <1>1 DEF Take, Moves
<1>3. worker[w].pc = "idle"
    BY DEF Take, Receive, At
<1>4. PendingRequests' = [PendingRequests EXCEPT ![w] = [req |-> req, from |-> seen]]
    BY <1>1, <1>2, PendingMoves
<1>5. PendingRequests[w].req = NoRequest
    BY <1>3, IdleIsIdle
<1> QED
    BY <1>2, <1>4, <1>5 DEF Promise!Ask

\* A reply that is not sent leaves its client without an answer.
LEMMA SendFailsIsPromised ==
    ASSUME ServiceInv, NEW w \in Worker, SendFails(w)
    PROVE  Promise!Lose(w)
<1>1. /\ Moves(w, Waiting) /\ from' = [from EXCEPT ![w] = Nothing]
      /\ UNCHANGED <<disk, seen, answer>>
    BY DEF SendFails, Reply, Moves
<1>2. Waiting.req = NoRequest
    BY DEF Waiting
<1>3. PendingRequests' =
          [PendingRequests EXCEPT ![w] = [req |-> NoRequest, from |-> Nothing]]
    BY <1>1, <1>2, PendingMoves
<1> QED
    BY <1>1, <1>3 DEF Promise!Lose, Promise!Idle, Promise!Nothing, Nothing

\* Every pending request is lost at a restart.
LEMMA RestartIsPromised == Restart => Promise!LoseAll
<1> SUFFICES ASSUME Restart PROVE Promise!LoseAll
    OBVIOUS
<1>1. Waiting.req = NoRequest
    BY DEF Waiting
<1>2. \A w \in Worker : worker'[w].req = NoRequest /\ from'[w] = Nothing
    BY <1>1 DEF Restart
<1>3. PendingRequests' = [w \in Worker |-> Promise!Idle]
    BY <1>2 DEF PendingRequests, Promise!Idle, Promise!Nothing, Nothing
<1> QED
    BY <1>3 DEF Restart, Promise!LoseAll

\* A reply that is sent is an answer the promise allows: the versions it rests
\* on are those the task read, and what the answer is owed to says why.
LEMMA DeliverIsPromised ==
    ASSUME ServiceInv, NEW w \in Worker, Deliver(w)
    PROVE  Promise!Answer(w)
<1> DEFINE t == worker[w]
           p == PendingRequests[w]
<1>1. /\ t \in Task /\ TaskOK(t) /\ OwedOK(t) /\ FromOK(t, from[w])
      /\ TypeOK /\ Now \in Nat /\ phase = "running" /\ t.pc = "reply"
      /\ config \in 0..Now /\ listed \in 0..Now
      /\ from[w] \in [config : 0..Now, list : 0..Now]
    BY DEF ServiceInv, KeptInv, IInv, TypeOK, TaskInv, OwedInv, SeenInv, Now, Deliver,
           Reply, At
<1>2. p.req = t.req /\ p.from = from[w] /\ p.req # NoRequest
    BY <1>1, IdleIsIdle DEF PendingRequests
<1>3. /\ t.since \in Nat /\ t.skipAt \in Nat /\ t.listAt \in Nat /\ t.cfgAt \in Nat
      /\ from[w].config \in Nat /\ from[w].list \in Nat
    BY <1>1 DEF Task
<1>4. Promise!Gets(w, t.action, Larger(t.skipAt, t.cfgAt), t.listAt)
    <2>1. /\ Moves(w, Waiting) /\ from' = [from EXCEPT ![w] = Nothing]
          /\ answer' = [answer EXCEPT ![w] = t.action] /\ disk' = disk
          /\ seen' = [config |-> Larger(Larger(t.skipAt, t.cfgAt), seen.config),
                      list   |-> Larger(t.listAt, seen.list)]
        BY DEF Deliver, Reply, Moves
    <2>2. Waiting.req = NoRequest
        BY DEF Waiting
    <2>3. PendingRequests' =
              [PendingRequests EXCEPT ![w] = [req |-> NoRequest, from |-> Nothing]]
        BY <2>1, <2>2, PendingMoves
    <2> QED
        BY <2>1, <2>3 DEF Promise!Gets, Promise!Idle, Promise!Nothing, Nothing,
                          Promise!Larger, Larger
<1>5. \A k \in 1..Now, oldest \in Nat :
         k >= oldest /\ ConfAt(k) # Bad => k \in Promise!May(oldest)
    BY DEF Promise!May, AcceptedV, ConfAt, Now
<1>6. CASE t.why = "incomplete"
    <2>1. ~CompleteR(p.req)
        BY <1>1, <1>2, <1>6 DEF OwedOK, CompleteR
    <2>2. t.action = Dunno /\ Larger(t.skipAt, t.cfgAt) = 0 /\ t.listAt = 0
        BY <1>1, <1>6 DEF OwedOK, Evaluated, Larger
    <2> QED
        BY <1>2, <1>4, <2>1, <2>2 DEF Promise!Answer, Promise!AnswerIncomplete
<1>7. CASE t.why = "skip"
    <2>1. t.skipAt \in Promise!May(p.from.config)
        BY <1>1, <1>2, <1>3, <1>5, <1>7 DEF OwedOK, FromOK, TaskOK
    <2>2. SkipsV(disk[t.skipAt], p.req)
        BY <1>1, <1>2, <1>7 DEF OwedOK, SkipsV, ConfAt
    <2>3. t.action = Dunno /\ Larger(t.skipAt, t.cfgAt) = t.skipAt /\ t.listAt = 0
        BY <1>1, <1>3, <1>7 DEF OwedOK, Evaluated, Larger
    <2> QED
        BY <1>2, <1>4, <2>1, <2>2, <2>3 DEF Promise!Answer, Promise!AnswerSkipped
<1>8. CASE t.why = "whitelist"
    <2>1. /\ t.skipAt \in 1..Now /\ ~SkipsAt(t.skipAt, t.req)
          /\ t.listAt \in 1..Now /\ ConfAt(t.listAt) # Bad
          /\ t.skipAt <= t.listAt /\ Exempted(t.listAt, t.req)
        BY <1>1, <1>8 DEF OwedOK, TaskOK
    <2>2. t.skipAt \in Promise!May(p.from.config) /\ ~SkipsV(disk[t.skipAt], p.req)
        BY <1>1, <1>2, <1>3, <1>5, <1>8, <2>1 DEF FromOK, TaskOK, SkipsAt, SkipsV, ConfAt
    <2>3. t.listAt \in Promise!May(p.from.list)
        BY <1>1, <1>2, <1>3, <1>5, <1>8, <2>1 DEF FromOK
    <2>4. \/ ListsV(disk[t.listAt], p.req)
          \/ \E f \in t.listAt..Len(disk) : FilesV(disk[t.listAt], disk[f], p.req)
        BY <1>2, <2>1 DEF Exempted, ListsV, FilesV, Section, FilesOf, ConfAt, FileEntries,
                          FileAt, Now
    <2>5. t.action = Dunno /\ Larger(t.skipAt, t.cfgAt) = t.skipAt
        BY <1>1, <1>3, <1>8 DEF OwedOK, Evaluated, Larger
    <2> QED
        BY <1>2, <1>4, <2>1, <2>2, <2>3, <2>4, <2>5 DEF Promise!Answer,
           Promise!AnswerListed
<1>9. CASE t.why = "evaluated"
    <2>1. /\ Evaluated(t) /\ ~SkipsAt(t.skipAt, t.req) /\ ~ListsAt(t.listAt, t.req)
          /\ t.skipAt <= t.listAt /\ t.skipAt <= t.cfgAt
          /\ t.cfgAt \in 1..Now /\ ConfAt(t.cfgAt) # Bad /\ t.action \in Answers(t.cfgAt)
        BY <1>1, <1>9 DEF OwedOK, TaskOK, Evaluated
    <2>2. t.since >= 1 /\ t.since <= t.skipAt /\ t.listAt <= Now
        BY <1>1, <1>3, <1>9 DEF TaskOK
    <2>3. t.skipAt \in Promise!May(p.from.config) /\ ~SkipsV(disk[t.skipAt], p.req)
        <3>1. /\ t.skipAt \in 1..Now /\ t.skipAt >= from[w].config
              /\ ConfAt(t.skipAt) # Bad
            BY <1>1, <1>3, <2>1, <2>2 DEF FromOK, SkipsAt
        <3> QED
            BY <1>2, <1>3, <1>5, <2>1, <3>1 DEF SkipsAt, SkipsV, ConfAt
    <2>4. t.listAt \in Promise!May(p.from.list) /\ ~ListsV(disk[t.listAt], p.req)
        <3>1. /\ t.listAt \in 1..Now /\ t.listAt >= from[w].list
              /\ ConfAt(t.listAt) # Bad
            BY <1>1, <1>3, <1>9, <2>1, <2>2 DEF FromOK, ListsAt
        <3> QED
            BY <1>2, <1>3, <1>5, <2>1, <3>1 DEF ListsAt, ListsV, ConfAt
    <2>5. t.cfgAt \in Promise!May(t.skipAt)
        BY <1>3, <1>5, <2>1
    <2>6. t.action \in DecisionsV(disk[t.cfgAt])
        BY <2>1 DEF Answers, DecisionsV, ConfAt
    <2>7. Larger(t.skipAt, t.cfgAt) = t.cfgAt
        BY <1>3, <2>1 DEF Larger
    <2> QED
        BY <1>2, <1>4, <2>1, <2>3, <2>4, <2>5, <2>6, <2>7 DEF Promise!Answer,
           Promise!AnswerEvaluated
<1> QED
    BY <1>1, <1>6, <1>7, <1>8, <1>9 DEF OwedOK, Task

\* Every step of the service is one of the promise, or one no client sees.
LEMMA NextIsPromised ==
    ServiceInv /\ [ServiceNext]_svars => [Promise!PromiseNext]_(Promise!promises)
<1> SUFFICES ASSUME ServiceInv, [ServiceNext]_svars
             PROVE  Promise!PromiseNext \/ UNCHANGED Promise!promises
    OBVIOUS
<1>0. TypeOK /\ TaskInv
    BY DEF ServiceInv, KeptInv, IInv
<1>1. CASE Operate /\ UNCHANGED own
    BY <1>1, OperateIsPromised DEF Promise!PromiseNext
<1>2. CASE Reload /\ UNCHANGED own
    <2>1. UNCHANGED <<disk, seen, from, answer, worker>>
        BY <1>2 DEF Reload, ReceiveHup, LoadConfig, LoadFile, StoreWhitelist,
                    StoreConfig, own
    <2> QED
        BY <2>1, NothingSeen
<1>3. CASE Boot
    <2>1. UNCHANGED <<disk, seen, from, answer, worker>>
        BY <1>3 DEF Boot, Start
    <2> QED
        BY <2>1, NothingSeen
<1>4. ASSUME NEW w \in Worker, Work(w), UNCHANGED own
      PROVE  UNCHANGED Promise!promises
    <2>1. PICK task : Moves(w, task) /\ KeepsUp(worker[w], task)
        BY <1>0, <1>4, WorkStep
    <2>2. \A v \in Worker : worker'[v].req = worker[v].req
        BY <1>0, <2>1 DEF Moves, TypeOK, KeepsUp
    <2> QED
        BY <1>4, <2>1, <2>2, NothingSeen DEF own, Moves
<1>5. CASE Stop
    <2>1. UNCHANGED <<disk, seen, from, answer, worker>>
        BY <1>5 DEF Stop, own
    <2> QED
        BY <2>1, NothingSeen
<1>6. CASE Restart
    BY <1>6, RestartIsPromised DEF Promise!PromiseNext
<1>7. ASSUME NEW w \in Worker, Deliver(w) PROVE Promise!PromiseNext
    BY <1>7, DeliverIsPromised DEF Promise!PromiseNext
<1>8. ASSUME NEW w \in Worker, SendFails(w) PROVE Promise!PromiseNext
    BY <1>8, SendFailsIsPromised DEF Promise!PromiseNext
<1>9. ASSUME NEW w \in Worker, NEW req \in Request, Take(w, req)
      PROVE  Promise!PromiseNext
    BY <1>9, TakeIsPromised DEF Promise!PromiseNext
<1>10. CASE UNCHANGED svars
    BY <1>10, NothingSeen DEF svars
<1> QED
    BY <1>1, <1>2, <1>3, <1>4, <1>5, <1>6, <1>7, <1>8, <1>9, <1>10 DEF ServiceNext

\* What clients are answered, over reloads, failed reloads, lost replies, ends
\* and restarts of the process, is what PolicyService promises them, whatever
\* the files say and however many connections there are.
THEOREM Implements == ServiceSpec => ImplementsPolicyService
<1>1. ServiceInit => Promise!PromiseInit
    BY InitIsPromised
<1>2. ServiceInv /\ [ServiceNext]_svars => [Promise!PromiseNext]_(Promise!promises)
    BY NextIsPromised
<1> QED
    BY <1>1, <1>2, ServiceInvariance, PTL
       DEF ServiceSpec, ImplementsPolicyService, Promise!PromiseSpec
=============================================================================
