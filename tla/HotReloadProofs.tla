--------------------------- MODULE HotReloadProofs ---------------------------
(***************************************************************************)
(* Proofs about HotReload, for every set of configurations, files,         *)
(* requests and connection tasks: the two halves of the running state      *)
(* belong together, and no exemption outlives what it was owed to.         *)
(***************************************************************************)
EXTENDS HotReload, TLAPS

(***************************************************************************)
(* Facts about the operators the model is built from.                      *)
(***************************************************************************)

\* decide() gives one of the four actions for any two SPF results.
LEMMA DecideType ==
    ASSUME NEW policy, NEW messages \in Messages, NEW header_mode,
           NEW helo \in SpfResult, NEW mail_from \in SpfResult
    PROVE  Decide(policy, messages, header_mode, helo, mail_from) \in Action
<1>1. \A r \in SpfResult :
         /\ RenderMessage(messages, r) \in [code : Code, result : SpfResult]
         /\ ReceivedSpf(r) \in [code : {"-"}, result : SpfResult]
    BY DEF Messages, RenderMessage, ReceivedSpf, Code
<1>2. Responsible(policy, helo, mail_from).result \in SpfResult
    BY DEF Responsible
<1> QED
    BY <1>1, <1>2 DEF Decide, Action

\* The initial section and each file make a whitelist of four sets.
LEMMA WhitelistShapes ==
    /\ IsWhitelist(NoWhitelist)
    /\ \A cfg : IsWhitelist(InlineWhitelist(cfg))
    /\ \A l, file : IsWhitelist(LoadFileInto(l, file))
BY DEF IsWhitelist, NoWhitelist, InlineWhitelist, LoadFileInto

LEMMA FieldNames ==
    DOMAIN NoWhitelist = {"ips", "helo_names", "domains", "domains_ptr"}
BY DEF NoWhitelist

\* A whitelist with more entries exempts no fewer requests.
LEMMA WiderMatchesMore ==
    ASSUME NEW larger, NEW smaller, NEW req,
           Includes(larger, smaller), Matches(smaller, req)
    PROVE  Matches(larger, req)
<1>1. /\ smaller.ips \subseteq larger.ips
      /\ smaller.helo_names \subseteq larger.helo_names
      /\ smaller.domains \subseteq larger.domains
      /\ smaller.domains_ptr \subseteq larger.domains_ptr
    BY FieldNames DEF Includes
<1>2. InNetworks(smaller.ips, req.client_address)
        => InNetworks(larger.ips, req.client_address)
    BY <1>1 DEF InNetworks
<1> QED
    BY <1>1, <1>2 DEF Matches

\* Loading one more file takes no entry away.
LEMMA LoadFileWidens ==
    ASSUME NEW l, NEW smaller, NEW file, Includes(l, smaller)
    PROVE  Includes(LoadFileInto(l, file), smaller)
<1>1. /\ smaller.ips \subseteq l.ips
      /\ smaller.helo_names \subseteq l.helo_names
      /\ smaller.domains \subseteq l.domains
      /\ smaller.domains_ptr \subseteq l.domains_ptr
    BY FieldNames DEF Includes
<1>2. /\ l.ips \subseteq LoadFileInto(l, file).ips
      /\ l.helo_names \subseteq LoadFileInto(l, file).helo_names
      /\ l.domains \subseteq LoadFileInto(l, file).domains
      /\ l.domains_ptr \subseteq LoadFileInto(l, file).domains_ptr
    BY DEF LoadFileInto
<1> QED
    BY <1>1, <1>2, FieldNames DEF Includes

LEMMA IncludesItself == \A l : Includes(l, l)
BY DEF Includes

(***************************************************************************)
(* The inductive invariant.                                                *)
(***************************************************************************)

\* What the reload task keeps: the pair in force is never older than the load
\* it came from, never rejected, and has at least its section's entries.
LoadInv ==
    /\ phase = "starting" => config = 0 /\ listed = 0
    /\ phase = "running" =>
          /\ config \in 1..listed
          /\ ConfAt(config) # Bad /\ ConfAt(listed) # Bad
          /\ Includes(whitelist, InlineWhitelist(ConfAt(listed).whitelist))
    /\ phase = "running" /\ loader.pc # "swap" => listed = config
    /\ loader.pc \in {"files", "swap"} =>
          /\ loader.conf \in 1..Now /\ config <= loader.conf
          /\ ConfAt(loader.conf) # Bad
          /\ Includes(loader.whitelist,
                      InlineWhitelist(ConfAt(loader.conf).whitelist))
    /\ loader.pc = "swap" => phase # "starting" /\ listed = loader.conf

\* What a task keeps: its reads are in order and none is ahead of the state,
\* and where they were, nothing exempted the request.
TaskOK(t) ==
    /\ t.pc \in {"idle", "skip", "whitelist", "config", "evaluate"} => t.why = "-"
    /\ t.pc # "idle" => t.since >= 1
    /\ t.since <= config /\ t.skipAt <= config /\ t.listAt <= listed
    /\ t.cfgAt <= config
    /\ t.pc \notin {"idle", "skip"} /\ t.why # "incomplete" => t.since <= t.skipAt
    /\ t.pc \in {"config", "evaluate"} \/ t.why \in {"whitelist", "evaluated"} =>
          t.skipAt <= t.listAt
    /\ Evaluated(t) => t.skipAt <= t.cfgAt /\ ConfAt(t.cfgAt) # Bad
    /\ t.pc \in {"whitelist", "config"} \/ Evaluated(t) => ~SkipsAt(t.skipAt, t.req)
    /\ t.pc = "config" \/ Evaluated(t) => ~ListsAt(t.listAt, t.req)

TaskInv == \A w \in Worker : TaskOK(worker[w])

IInv == TypeOK /\ LoadInv /\ TaskInv

(***************************************************************************)
(* Types.                                                                  *)
(***************************************************************************)
USE MaxDiskAssumption, OutcomeAssumption

LEMMA TypeInit == Init => TypeOK
<1> SUFFICES ASSUME Init PROVE TypeOK
    OBVIOUS
<1>1. disk \in Seq(Version) /\ Now \in 1..MaxDisk
    <2>1. PICK v \in Version : disk = <<v>>
        BY DEF Init
    <2> QED
        BY <2>1 DEF Now
<1>2. Waiting \in Task
    BY DEF Waiting, Task, Pending, Action, Dunno
<1> QED
    <2>1. worker \in [Worker -> Task]
        BY <1>2 DEF Init
    <2>2. /\ loader.pc = "config" /\ loader.conf = 0 /\ loader.next = 1
          /\ loader = Loading(loader.pc, loader.conf, loader.next, loader.whitelist)
          /\ IsWhitelist(loader.whitelist) /\ IsWhitelist(whitelist)
        BY WhitelistShapes DEF Init, Begin, Loading
    <2>3. 0 \in 0..Now
        BY <1>1
    <2>4. /\ phase = "starting" /\ hup \in BOOLEAN /\ asked = 0
          /\ config = 0 /\ listed = 0
        BY DEF Init
    <2> QED
        BY <1>1, <2>1, <2>2, <2>3, <2>4 DEF TypeOK

\* A step of one task keeps the types when it leaves a task.
LEMMA MovesType ==
    ASSUME TypeOK, NEW w \in Worker, NEW task \in Task, Moves(w, task)
    PROVE  TypeOK'
BY DEF TypeOK, Moves, Now

\* Every step keeps the types.
LEMMA TypeNext == IInv /\ [Next]_vars => TypeOK'
<1> SUFFICES ASSUME TypeOK, TaskInv, [Next]_vars PROVE TypeOK'
    BY DEF IInv
<1> USE DEF TypeOK
<1>0. Now \in Nat /\ Now >= 1
    BY DEF Now
<1>1. ASSUME NEW v \in Version, Edit(v) PROVE TypeOK'
    <2>1. disk' \in Seq(Version) /\ Now' = Now + 1 /\ Now' \in 1..MaxDisk
        BY <1>1 DEF Edit, Now
    <2> QED
        BY <1>0, <1>1, <2>1 DEF Edit
<1>2. CASE EditConf
    <2>1. PICK c \in Conf \cup {Bad} : Edit([disk[Now] EXCEPT !.conf = c])
        BY <1>2 DEF EditConf
    <2>2. disk[Now] \in Version
        BY <1>0 DEF Now
    <2> QED
        BY <1>1, <2>1, <2>2 DEF Version
<1>3. CASE EditFile
    <2>1. PICK p \in Path, c \in Content : Edit([disk[Now] EXCEPT !.files[p] = c])
        BY <1>3 DEF EditFile
    <2>2. disk[Now] \in Version
        BY <1>0 DEF Now
    <2> QED
        BY <1>1, <2>1, <2>2 DEF Version
<1>4. CASE Sighup
    <2>1. hup' \in BOOLEAN
        BY <1>4 DEF Sighup
    <2> QED
        BY <1>0, <1>4, <2>1 DEF Sighup, Now
<1>5. CASE ReceiveHup
    <2>1. hup' \in BOOLEAN
        BY <1>5 DEF ReceiveHup
    <2> QED
        BY <1>0, <1>5, <2>1, WhitelistShapes DEF ReceiveHup, Begin, Loading, Now
<1>6. CASE LoadConfig
    BY <1>0, <1>6, WhitelistShapes DEF LoadConfig, FailLoad, NotLoading, Loading, Now
<1>7. CASE LoadFile
    BY <1>0, <1>7, WhitelistShapes DEF LoadFile, FailLoad, NotLoading, Loading, Now
<1>8. CASE Start
    BY <1>0, <1>8, WhitelistShapes DEF Start, NotLoading, Loading, Now
<1>9. CASE StoreWhitelist
    BY <1>0, <1>9 DEF StoreWhitelist, Loading, Now
<1>10. CASE StoreConfig
    BY <1>0, <1>10, WhitelistShapes DEF StoreConfig, NotLoading, Loading, Now
<1>11. ASSUME NEW w \in Worker, NEW req \in Request, Receive(w, req) PROVE TypeOK'
    <2>1. Waiting \in Task
        BY DEF Waiting, Task, Pending, Action, Dunno
    <2>2. config \in Nat
        BY DEF Now
    <2>3. \A t \in Task, pc \in {"skip", "reply"}, why \in {"-", "incomplete"} :
             [t EXCEPT !.pc = pc, !.why = why, !.req = req, !.since = config] \in Task
        BY <2>2, ZenonT(30) DEF Task
    <2> QED
        BY <1>11, <2>1, <2>3, MovesType DEF Receive
<1>12. ASSUME NEW w \in Worker, Handle(w) PROVE TypeOK'
    <2>0. worker[w] \in Task /\ config \in Nat /\ listed \in Nat
        BY DEF Now
    <2>1. CASE CheckSkip(w)
        <3>1. \A t \in Task :
                 /\ [t EXCEPT !.pc = "reply", !.skipAt = config, !.why = "skip"] \in Task
                 /\ [t EXCEPT !.pc = "whitelist", !.skipAt = config] \in Task
            BY <2>0, ZenonT(30) DEF Task
        <3> QED
            BY <2>0, <2>1, <3>1, MovesType DEF CheckSkip
    <2>2. CASE CheckWhitelist(w)
        <3>1. \A t \in Task :
                 /\ [t EXCEPT !.pc = "reply", !.listAt = listed,
                              !.why = "whitelist"] \in Task
                 /\ [t EXCEPT !.pc = "config", !.listAt = listed] \in Task
            BY <2>0, ZenonT(30) DEF Task
        <3> QED
            BY <2>0, <2>2, <3>1, MovesType DEF CheckWhitelist
    <2>3. CASE LoadDecisionConfig(w)
        <3>1. \A t \in Task, s \in {"literal", "original"} :
                 [t EXCEPT !.pc = "evaluate", !.cfgAt = config, !.subject = s] \in Task
            BY <2>0 DEF Task
        <3>2. \A sender, cfg : Subject(sender, cfg, Today) \in {"literal", "original"}
            BY DEF Subject
        <3> QED
            BY <2>0, <2>3, <3>1, <3>2, MovesType DEF LoadDecisionConfig
    <2>4. CASE CheckHelo(w)
        <3>1. \A t \in Task, r \in Outcome : [t EXCEPT !.helo = r] \in Task
            BY DEF Task
        <3> QED
            BY <2>0, <2>4, <3>1, MovesType DEF CheckHelo
    <2>5. CASE CheckMailFrom(w)
        <3>1. \A t \in Task, r \in Outcome : [t EXCEPT !.mail = r] \in Task
            BY DEF Task
        <3> QED
            BY <2>0, <2>5, <3>1, MovesType DEF CheckMailFrom
    <2>6. CASE DecideAction(w)
        <3> DEFINE cfg == ConfAt(worker[w].cfgAt)
                   a   == Decide(cfg.policy, cfg.messages, cfg.header_mode,
                                 worker[w].helo, worker[w].mail)
        <3>1. \A t \in Task, x \in Action :
                 [t EXCEPT !.pc = "reply", !.why = "evaluated", !.action = x] \in Task
            BY DEF Task
        <3>2. worker[w].helo \in SpfResult /\ worker[w].mail \in SpfResult
            BY <2>0, <2>6 DEF DecideAction, Task
        <3>3. cfg \in Conf
            <4>1. /\ TaskOK(worker[w]) /\ Evaluated(worker[w])
                  /\ worker[w].cfgAt \in Nat /\ worker[w].since \in Nat
                  /\ worker[w].skipAt \in Nat
                BY <2>0, <2>6 DEF DecideAction, At, TaskInv, Task, Evaluated
            <4>2. worker[w].pc = "evaluate" /\ config \in 0..Now
                BY <2>6 DEF DecideAction, At
            <4>3. worker[w].why = "-"
                BY <4>1, <4>2 DEF TaskOK
            <4>4. /\ worker[w].since >= 1 /\ worker[w].since <= worker[w].skipAt
                  /\ worker[w].skipAt <= worker[w].cfgAt /\ worker[w].cfgAt <= config
                BY <4>1, <4>2, <4>3 DEF TaskOK
            <4>5. worker[w].cfgAt \in 1..Now
                BY <1>0, <4>1, <4>2, <4>4
            <4>6. \A k \in 1..Now : disk[k] \in Version
                BY DEF Now
            <4>7. ConfAt(worker[w].cfgAt) # Bad
                BY <4>1 DEF TaskOK
            <4> QED
                BY <4>5, <4>6, <4>7 DEF ConfAt, Version
        <3>4. a \in Action
            BY <3>2, <3>3, DecideType, ConfAssumption
        <3> HIDE DEF a
        <3>5. Moves(w, [worker[w] EXCEPT !.pc = "reply", !.why = "evaluated",
                                         !.action = a])
            BY <2>6 DEF DecideAction, a
        <3> QED
            BY <2>0, <3>1, <3>4, <3>5, MovesType
    <2>7. CASE Reply(w)
        <3>1. Waiting \in Task
            BY DEF Waiting, Task, Pending, Action, Dunno
        <3> QED
            BY <2>7, <3>1, MovesType DEF Reply
    <2> QED
        BY <1>12, <2>1, <2>2, <2>3, <2>4, <2>5, <2>6, <2>7 DEF Handle
<1>13. CASE UNCHANGED vars
    BY <1>13 DEF vars, Now
<1> QED
    BY <1>2, <1>3, <1>4, <1>5, <1>6, <1>7, <1>8, <1>9, <1>10, <1>11, <1>12, <1>13
       DEF Next, Load

LEMMA InvInit == Init => IInv
<1> SUFFICES ASSUME Init PROVE IInv
    OBVIOUS
<1>1. TypeOK
    BY TypeInit
<1>2. LoadInv
    BY DEF Init, LoadInv, Begin, Loading
<1>3. TaskInv
    BY DEF Init, TaskInv, TaskOK, Waiting, Evaluated
<1> QED
    BY <1>1, <1>2, <1>3 DEF IInv

\* Only the operator changes the files, by adding a version.
LEMMA DiskAppends ==
    ASSUME TypeOK, [Next]_vars
    PROVE  disk' = disk \/ \E v \in Version : disk' = Append(disk, v)
<1>1. ASSUME EditConf \/ EditFile
      PROVE  \E v \in Version : disk' = Append(disk, v)
    <2>1. disk[Now] \in Version
        BY DEF TypeOK, Now
    <2>2. \A c \in Conf \cup {Bad} : [disk[Now] EXCEPT !.conf = c] \in Version
        BY <2>1 DEF Version
    <2>3. \A q \in Path, c \in Content :
             [disk[Now] EXCEPT !.files[q] = c] \in Version
        BY <2>1 DEF Version
    <2> QED
        BY <1>1, <2>2, <2>3 DEF EditConf, EditFile, Edit
<1>2. Sighup => disk' = disk
    BY DEF Sighup
<1>3. Load => disk' = disk
    BY DEF Load, ReceiveHup, LoadConfig, LoadFile, Start, StoreWhitelist,
           StoreConfig
<1>4. \A w \in Worker, req \in Request : Receive(w, req) => disk' = disk
    BY DEF Receive, Moves
<1>5. \A w \in Worker : Handle(w) => disk' = disk
    BY DEF Handle, CheckSkip, CheckWhitelist, LoadDecisionConfig, CheckHelo,
           CheckMailFrom, DecideAction, Reply, Moves
<1> QED
    BY <1>1, <1>2, <1>3, <1>4, <1>5 DEF Next, vars

\* The versions on disk are only added to.
LEMMA DiskGrows ==
    ASSUME TypeOK, [Next]_vars
    PROVE  /\ Now <= Now'
           /\ \A k \in 1..Now : disk'[k] = disk[k] /\ ConfAt(k)' = ConfAt(k)
<1>1. disk \in Seq(Version) /\ Now \in Nat
    BY DEF TypeOK, Now
<1>2. CASE disk' = disk
    BY <1>1, <1>2 DEF Now, ConfAt
<1>3. ASSUME NEW v \in Version, disk' = Append(disk, v)
      PROVE  Now' = Now + 1 /\ \A k \in 1..Now : disk'[k] = disk[k]
    BY <1>1, <1>3 DEF Now
<1> QED
    BY <1>1, <1>2, <1>3, DiskAppends DEF ConfAt

\* Every step keeps the order of the versions in use.
LEMMA LoadNext == IInv /\ [Next]_vars => LoadInv'
<1> SUFFICES ASSUME IInv, TypeOK, LoadInv, [Next]_vars PROVE LoadInv'
    BY DEF IInv
<1>0. /\ Now \in Nat /\ Now >= 1 /\ config \in 0..Now /\ listed \in 0..Now
      /\ loader.conf \in 0..Now
    BY DEF TypeOK, Now
<1>1. Now <= Now' /\ Now' \in Nat /\ \A k \in 1..Now : ConfAt(k)' = ConfAt(k)
    BY DiskGrows, TypeNext DEF TypeOK
<1>2. CASE UNCHANGED <<phase, loader, config, whitelist, listed>>
    <2>1. phase = "running" => config \in 1..Now /\ listed \in 1..Now
        BY <1>0 DEF LoadInv
    <2>2. phase = "running" => /\ ConfAt(config)' = ConfAt(config)
                               /\ ConfAt(listed)' = ConfAt(listed)
        BY <1>1, <1>2, <2>1 DEF ConfAt
    <2>3. loader.pc \in {"files", "swap"} =>
             loader.conf \in 1..Now /\ ConfAt(loader.conf)' = ConfAt(loader.conf)
        BY <1>1, <1>2 DEF LoadInv, ConfAt
    <2> QED
        BY <1>0, <1>1, <1>2, <2>1, <2>2, <2>3 DEF LoadInv
<1>3. CASE Sighup
    BY <1>0, <1>3 DEF Sighup, LoadInv, ConfAt, Now
<1>4. CASE ReceiveHup
    BY <1>0, <1>4 DEF ReceiveHup, Begin, Loading, LoadInv, ConfAt, Now
<1>5. CASE LoadConfig
    BY <1>0, <1>5, IncludesItself
       DEF LoadConfig, FailLoad, NotLoading, Loading, LoadInv, ConfAt, Now
<1>6. CASE LoadFile
    <2>1. loader.pc = "files" /\ UNCHANGED <<disk, config, whitelist, listed>>
        BY <1>6 DEF LoadFile
    <2>2. CASE FailLoad
        BY <1>0, <2>1, <2>2 DEF FailLoad, NotLoading, Loading, LoadInv, ConfAt, Now
    <2>3. ASSUME NEW file, UNCHANGED phase,
                 loader' = Loading("files", loader.conf, loader.next + 1,
                                   LoadFileInto(loader.whitelist, file))
          PROVE  LoadInv'
        <3>1. Includes(LoadFileInto(loader.whitelist, file),
                       InlineWhitelist(ConfAt(loader.conf).whitelist))
            BY <2>1, LoadFileWidens DEF LoadInv
        <3> QED
            BY <1>0, <2>1, <2>3, <3>1 DEF Loading, LoadInv, ConfAt, Now
    <2> QED
        BY <1>6, <2>2, <2>3 DEF LoadFile
<1>7. CASE Start
    BY <1>0, <1>7 DEF Start, LoadIsComplete, NotLoading, Loading, LoadInv, ConfAt, Now
<1>8. CASE StoreWhitelist
    BY <1>0, <1>8 DEF StoreWhitelist, LoadIsComplete, Loading, LoadInv, ConfAt, Now
<1>9. CASE StoreConfig
    BY <1>0, <1>9 DEF StoreConfig, NotLoading, Loading, LoadInv, ConfAt, Now
<1>10. ASSUME NEW w \in Worker, Handle(w) \/ \E req \in Request : Receive(w, req)
       PROVE  UNCHANGED <<phase, loader, config, whitelist, listed>>
    BY <1>10 DEF Handle, CheckSkip, CheckWhitelist, LoadDecisionConfig, CheckHelo,
                 CheckMailFrom, DecideAction, Reply, Receive, Moves
<1>11. EditConf \/ EditFile \/ UNCHANGED vars
         => UNCHANGED <<phase, loader, config, whitelist, listed>>
    BY DEF EditConf, EditFile, Edit, vars
<1> QED
    BY <1>2, <1>3, <1>4, <1>5, <1>6, <1>7, <1>8, <1>9, <1>10, <1>11 DEF Next, Load

\* The versions in force only become newer.
LEMMA VersionsGrow ==
    ASSUME IInv, [Next]_vars
    PROVE  config <= config' /\ listed <= listed'
<1>0. TypeOK /\ LoadInv /\ config \in Nat /\ listed \in Nat
    BY DEF IInv, TypeOK, Now
<1>1. Load => config <= config' /\ listed <= listed'
    BY <1>0 DEF Load, ReceiveHup, LoadConfig, LoadFile, Start, StoreWhitelist,
                StoreConfig, LoadIsComplete, LoadInv, TypeOK, Now
<1>2. EditConf \/ EditFile \/ Sighup \/ UNCHANGED vars
        => config' = config /\ listed' = listed
    BY DEF EditConf, EditFile, Edit, Sighup, vars
<1>3. \A w \in Worker : Handle(w) \/ (\E req \in Request : Receive(w, req))
        => config' = config /\ listed' = listed
    BY DEF Handle, CheckSkip, CheckWhitelist, LoadDecisionConfig, CheckHelo,
           CheckMailFrom, DecideAction, Reply, Receive, Moves
<1> QED
    BY <1>0, <1>1, <1>2, <1>3 DEF Next

\* What a task keeps stays true as the state moves forward under it.
LEMMA TaskOKStable ==
    ASSUME NEW t \in Task, TaskOK(t), TypeOK,
           config <= config', listed <= listed', config' \in Nat, listed' \in Nat,
           \A k \in 1..Now : ConfAt(k)' = ConfAt(k)
    PROVE  TaskOK(t)'
<1>1. /\ t.since \in Nat /\ t.skipAt \in Nat /\ t.listAt \in Nat /\ t.cfgAt \in Nat
      /\ Now \in Nat /\ config \in 0..Now /\ listed \in 0..Now
    BY DEF Task, TypeOK, Now
<1>2. t.pc \in {"whitelist", "config"} \/ Evaluated(t) => t.skipAt \in 1..Now
    BY <1>1 DEF TaskOK, Evaluated
<1>3. t.pc = "config" \/ Evaluated(t) => t.listAt \in 1..Now
    BY <1>1, <1>2 DEF TaskOK, Evaluated
<1>4. t.pc \in {"whitelist", "config"} \/ Evaluated(t) =>
         SkipsAt(t.skipAt, t.req)' = SkipsAt(t.skipAt, t.req)
    BY <1>2 DEF SkipsAt
<1>5. t.pc = "config" \/ Evaluated(t) =>
         ListsAt(t.listAt, t.req)' = ListsAt(t.listAt, t.req)
    BY <1>3 DEF ListsAt
<1>6. Evaluated(t) => t.cfgAt \in 1..Now /\ ConfAt(t.cfgAt)' = ConfAt(t.cfgAt)
    BY <1>1, <1>2 DEF TaskOK, Evaluated
<1> QED
    BY <1>1, <1>4, <1>5, <1>6 DEF TaskOK, Evaluated

\* A step of one task keeps the invariant of all when it keeps its own.
LEMMA MovesKeepsTasks ==
    ASSUME TypeOK, TaskInv, NEW w \in Worker, NEW task,
           Moves(w, task), TaskOK(task)
    PROVE  TaskInv'
<1>1. \A t : TaskOK(t)' <=> TaskOK(t)
    BY DEF Moves, TaskOK, Evaluated, SkipsAt, ListsAt, ConfAt
<1>2. \A v \in Worker : worker'[v] = IF v = w THEN task ELSE worker[v]
    BY DEF Moves, TypeOK
<1>3. \A v \in Worker : TaskOK(worker'[v])
    BY <1>2 DEF TaskInv
<1> QED
    BY <1>1, <1>3 DEF TaskInv, TaskOK, Evaluated, SkipsAt, ListsAt, ConfAt, Moves

\* The steps of a task keep what the task keeps.
LEMMA TaskNext == IInv /\ [Next]_vars => TaskInv'
<1> SUFFICES ASSUME IInv, [Next]_vars PROVE TaskInv'
    OBVIOUS
<1>0. /\ TypeOK /\ LoadInv /\ TaskInv
      /\ Now \in Nat /\ config \in Nat /\ listed \in Nat
      /\ \A w \in Worker : worker[w] \in Task /\ TaskOK(worker[w])
    BY DEF IInv, TypeOK, TaskInv, Now
<1>1. ASSUME NEW w \in Worker, NEW req \in Request, Receive(w, req) PROVE TaskInv'
    <2>1. phase = "running" /\ config >= 1
        BY <1>0, <1>1 DEF Receive, At, LoadInv
    <2>2. Waiting \in Task
        BY DEF Waiting, Task, Pending, Action, Dunno
    <2>3. \A t \in Task, pc \in {"skip", "reply"} :
             LET why == IF pc = "skip" THEN "-" ELSE "incomplete"
                 s == [t EXCEPT !.pc = pc, !.why = why, !.req = req, !.since = config]
             IN t.skipAt = 0 /\ t.listAt = 0 /\ t.cfgAt = 0 => TaskOK(s)
        BY <1>0, <2>1 DEF Task, TaskOK, Evaluated
    <2>4. Waiting.skipAt = 0 /\ Waiting.listAt = 0 /\ Waiting.cfgAt = 0
        BY DEF Waiting
    <2>5. CASE req.complete
        <3>1. Moves(w, [Waiting EXCEPT !.pc = "skip", !.why = "-", !.req = req,
                                       !.since = config])
            BY <1>1, <2>5 DEF Receive
        <3>2. TaskOK([Waiting EXCEPT !.pc = "skip", !.why = "-", !.req = req,
                                     !.since = config])
            BY <2>2, <2>3, <2>4
        <3> QED
            BY <1>0, <3>1, <3>2, MovesKeepsTasks
    <2>6. CASE ~req.complete
        <3>1. Moves(w, [Waiting EXCEPT !.pc = "reply", !.why = "incomplete",
                                       !.req = req, !.since = config])
            BY <1>1, <2>6 DEF Receive
        <3>2. TaskOK([Waiting EXCEPT !.pc = "reply", !.why = "incomplete",
                                     !.req = req, !.since = config])
            BY <2>2, <2>3, <2>4
        <3> QED
            BY <1>0, <3>1, <3>2, MovesKeepsTasks
    <2> QED
        BY <2>5, <2>6
<1>2. ASSUME NEW w \in Worker, CheckSkip(w) PROVE TaskInv'
    <2>1. phase = "running" /\ worker[w].pc = "skip" /\ ConfAt(config) # Bad
        BY <1>0, <1>2 DEF CheckSkip, At, LoadInv
    <2>2. \A t \in Task : t.pc = "skip" /\ TaskOK(t) =>
             /\ TaskOK([t EXCEPT !.pc = "reply", !.skipAt = config, !.why = "skip"])
             /\ ~SkippedByConfig(ConfAt(config), t.req) =>
                   TaskOK([t EXCEPT !.pc = "whitelist", !.skipAt = config])
        BY <1>0, <2>1 DEF Task, TaskOK, Evaluated, SkipsAt
    <2> QED
        BY <1>0, <1>2, <2>1, <2>2, MovesKeepsTasks DEF CheckSkip
<1>3. ASSUME NEW w \in Worker, CheckWhitelist(w) PROVE TaskInv'
    <2>1. /\ phase = "running" /\ worker[w].pc = "whitelist"
          /\ ConfAt(listed) # Bad /\ config <= listed
          /\ Includes(whitelist, InlineWhitelist(ConfAt(listed).whitelist))
        BY <1>0, <1>3 DEF CheckWhitelist, At, LoadInv
    <2>2. \A t \in Task : ~Matches(whitelist, t.req) => ~ListsAt(listed, t.req)
        BY <2>1, WiderMatchesMore DEF ListsAt
    <2>3. \A t \in Task : t.pc = "whitelist" /\ TaskOK(t) =>
             /\ TaskOK([t EXCEPT !.pc = "reply", !.listAt = listed,
                                 !.why = "whitelist"])
             /\ ~ListsAt(listed, t.req) =>
                   TaskOK([t EXCEPT !.pc = "config", !.listAt = listed])
        BY <1>0, <2>1 DEF Task, TaskOK, Evaluated
    <2> QED
        BY <1>0, <1>3, <2>1, <2>2, <2>3, MovesKeepsTasks DEF CheckWhitelist
<1>4. ASSUME NEW w \in Worker, LoadDecisionConfig(w) PROVE TaskInv'
    <2>1. worker[w].pc = "config" /\ ConfAt(config) # Bad
        BY <1>0, <1>4 DEF LoadDecisionConfig, At, LoadInv
    <2>2. \A t \in Task, s \in {"literal", "original"} :
             t.pc = "config" /\ TaskOK(t) =>
                TaskOK([t EXCEPT !.pc = "evaluate", !.cfgAt = config, !.subject = s])
        BY <1>0, <2>1 DEF Task, TaskOK, Evaluated
    <2>3. \A sender, cfg : Subject(sender, cfg, Today) \in {"literal", "original"}
        BY DEF Subject
    <2> QED
        BY <1>0, <1>4, <2>1, <2>2, <2>3, MovesKeepsTasks DEF LoadDecisionConfig
<1>5. ASSUME NEW w \in Worker, CheckHelo(w) \/ CheckMailFrom(w) PROVE TaskInv'
    <2>1. \A t \in Task, r \in Outcome : TaskOK(t) =>
             TaskOK([t EXCEPT !.helo = r]) /\ TaskOK([t EXCEPT !.mail = r])
        BY DEF Task, TaskOK, Evaluated
    <2> QED
        BY <1>0, <1>5, <2>1, MovesKeepsTasks DEF CheckHelo, CheckMailFrom
<1>6. ASSUME NEW w \in Worker, DecideAction(w) PROVE TaskInv'
    <2>1. worker[w].pc = "evaluate"
        BY <1>6 DEF DecideAction, At
    <2>2. \A t \in Task : \A x : t.pc = "evaluate" /\ TaskOK(t) =>
             TaskOK([t EXCEPT !.pc = "reply", !.why = "evaluated", !.action = x])
        BY DEF Task, TaskOK, Evaluated
    <2> QED
        BY <1>0, <1>6, <2>1, <2>2, MovesKeepsTasks DEF DecideAction
<1>7. ASSUME NEW w \in Worker, Reply(w) PROVE TaskInv'
    <2>1. TaskOK(Waiting)
        BY <1>0 DEF Waiting, TaskOK, Evaluated
    <2> QED
        BY <1>0, <1>7, <2>1, MovesKeepsTasks DEF Reply
<1>8. ASSUME worker' = worker PROVE TaskInv'
    <2>1. config <= config' /\ listed <= listed'
        BY VersionsGrow
    <2>2. config' \in Nat /\ listed' \in Nat
        BY <1>0, TypeNext DEF TypeOK, Now
    <2>3. \A k \in 1..Now : ConfAt(k)' = ConfAt(k)
        BY <1>0, DiskGrows
    <2>4. \A t \in Task : TaskOK(t) => TaskOK(t)'
        BY <1>0, <2>1, <2>2, <2>3, TaskOKStable
    <2> QED
        BY <1>0, <1>8, <2>4 DEF TaskInv
<1>9. EditConf \/ EditFile \/ Sighup \/ Load \/ UNCHANGED vars => worker' = worker
    BY DEF EditConf, EditFile, Edit, Sighup, Load, ReceiveHup, LoadConfig, LoadFile,
           Start, StoreWhitelist, StoreConfig, vars
<1> QED
    BY <1>1, <1>2, <1>3, <1>4, <1>5, <1>6, <1>7, <1>8, <1>9 DEF Next, Handle

LEMMA InvNext == IInv /\ [Next]_vars => IInv'
BY TypeNext, LoadNext, TaskNext DEF IInv

\* The invariant is inductive.
THEOREM Invariance == Spec => []IInv
BY InvInit, InvNext, PTL DEF Spec

(***************************************************************************)
(* The safety properties that follow from it.                              *)
(***************************************************************************)

\* The state keeps its types, whatever the files, the requests and the tasks:
\* no answer is ever made of an outcome that is still pending.
THEOREM TypeCorrect == Spec => []TypeOK
<1>1. IInv => TypeOK
    BY DEF IInv
<1> QED
    BY <1>1, Invariance, PTL

LEMMA InvGivesPair == IInv => InstalledPairMatches
BY DEF IInv, LoadInv, InstalledPairMatches

\* Outside the two stores of a reload, whatever failed before, the whitelist
\* in force is the one of the configuration in force.
THEOREM PairMatches == Spec => []InstalledPairMatches
BY InvGivesPair, Invariance, PTL

LEMMA InvGivesOrder == IInv => ReadsMoveForward
<1> SUFFICES ASSUME IInv, NEW w \in Worker PROVE TaskOK(worker[w])
    BY DEF ReadsMoveForward, TaskOK, Evaluated
<1> QED
    BY DEF IInv, TaskInv

\* However many reloads a request meets, its reads only move forward.
THEOREM ReadsForward == Spec => []ReadsMoveForward
BY InvGivesOrder, Invariance, PTL

LEMMA InvGivesMoves == IInv => ExemptionMovesSeamlessly
<1> SUFFICES ASSUME IInv, NEW w \in Worker, Evaluated(worker[w]),
                    NEW k \in worker[w].since..(Now + 1)
             PROVE  /\ \/ \E j \in worker[w].since..(k - 1) : ~SkipsAt(j, worker[w].req)
                       \/ \E j \in k..Now : ~ListsAt(j, worker[w].req)
                    /\ \/ \E j \in worker[w].since..(k - 1) : ~ListsAt(j, worker[w].req)
                       \/ \E j \in k..Now : ~SkipsAt(j, worker[w].req)
                       \/ worker[w].skipAt < k /\ k <= worker[w].listAt
    BY DEF ExemptionMovesSeamlessly
<1> DEFINE t == worker[w]
<1>1. /\ t \in Task /\ TaskOK(t)
      /\ Now \in Nat /\ config \in 0..Now /\ listed \in 0..Now
    BY DEF IInv, TypeOK, TaskInv, Now
<1>2. /\ t.since \in Nat /\ t.skipAt \in Nat /\ t.listAt \in Nat
      /\ t.pc = "evaluate" \/ t.why = "evaluated"
    BY <1>1 DEF Task, Evaluated
<1>3. /\ t.since <= t.skipAt /\ t.skipAt <= t.listAt /\ t.listAt <= Now
      /\ ~SkipsAt(t.skipAt, t.req) /\ ~ListsAt(t.listAt, t.req)
    BY <1>1, <1>2 DEF TaskOK, Evaluated
<1>4. CASE t.skipAt < k
    <2>1. t.skipAt \in t.since..(k - 1)
        BY <1>1, <1>2, <1>3, <1>4
    <2>2. t.listAt \in t.since..(k - 1) \/ k <= t.listAt
        BY <1>1, <1>2, <1>3
    <2> QED
        BY <1>3, <1>4, <2>1, <2>2
<1>5. CASE ~(t.skipAt < k)
    <2>1. t.skipAt \in k..Now /\ t.listAt \in k..Now
        BY <1>1, <1>2, <1>3, <1>5
    <2> QED
        BY <1>3, <2>1
<1> QED
    BY <1>4, <1>5

\* An exemption the operator moves to the whitelist is honoured throughout,
\* whichever reloads a request meets between its reads: the version at which
\* it was not skipped is one that lists it, and the whitelist read afterwards
\* is no older.  One moved from the whitelist is only missed by a request that
\* reads on either side of the first store.
THEOREM ExemptionsMove == Spec => []ExemptionMovesSeamlessly
BY InvGivesMoves, Invariance, PTL

(***************************************************************************)
(* Where the entries of the whitelist come from, and what each answer is   *)
(* owed to.                                                                *)
(***************************************************************************)

(***************************************************************************)
(* What a whitelist is made of.                                            *)
(***************************************************************************)

Section(k) == InlineWhitelist(ConfAt(k).whitelist)

FilesOf(k) == ConfAt(k).whitelist.files

\* The whitelist has all that some version of the file says, from k on.
HoldsFile(l, k, p) ==
    \E f \in k..Now : Loads(FileAt(f, p)) /\ Includes(l, FileEntries(f, p))

\* Nothing is in the whitelist that version k did not ask for.
OnlyFrom(l, k) ==
    \A x \in DOMAIN NoWhitelist : \A e \in l[x] :
        \/ e \in Section(k)[x]
        \/ \E i \in DOMAIN FilesOf(k), f \in k..Now :
              e \in FileEntries(f, FilesOf(k)[i])[x]

\* The whitelist is the load of version k up to the file before the next.
LoadedUpTo(l, k, next) ==
    /\ Includes(l, Section(k))
    /\ \A i \in DOMAIN FilesOf(k) : i < next => HoldsFile(l, k, FilesOf(k)[i])
    /\ OnlyFrom(l, k)

OriginInv ==
    /\ phase = "running" =>
          \A next \in Nat : LoadedUpTo(whitelist, listed, next)
    /\ loader.pc = "files" =>
          LoadedUpTo(loader.whitelist, loader.conf, loader.next)

LEMMA FileFieldNames ==
    ASSUME NEW l, NEW file
    PROVE  /\ LoadFileInto(l, file).ips
                = l.ips \cup LoadFileInto(NoWhitelist, file).ips
           /\ LoadFileInto(l, file).helo_names
                = l.helo_names \cup LoadFileInto(NoWhitelist, file).helo_names
           /\ LoadFileInto(l, file).domains
                = l.domains \cup LoadFileInto(NoWhitelist, file).domains
           /\ LoadFileInto(l, file).domains_ptr
                = l.domains_ptr \cup LoadFileInto(NoWhitelist, file).domains_ptr
BY DEF LoadFileInto, NoWhitelist

\* A file adds to a whitelist what it makes of an empty one, and no more.
LEMMA LoadFileAdds ==
    ASSUME NEW l, NEW file, NEW x \in DOMAIN NoWhitelist
    PROVE  LoadFileInto(l, file)[x] = l[x] \cup LoadFileInto(NoWhitelist, file)[x]
<1>1. x \in {"ips", "helo_names", "domains", "domains_ptr"}
    BY FieldNames
<1> QED
    BY <1>1, FileFieldNames

LEMMA IncludesTransitive ==
    ASSUME NEW a, NEW b, NEW c, Includes(a, b), Includes(b, c)
    PROVE  Includes(a, c)
BY DEF Includes

\* What a load has stays true as the files are edited after it.
LEMMA LoadedStable ==
    ASSUME NEW l, NEW k \in 1..Now, NEW next, LoadedUpTo(l, k, next),
           TypeOK, [Next]_vars
    PROVE  LoadedUpTo(l, k, next)'
<1>1. /\ Now \in Nat /\ Now' \in Nat /\ Now <= Now'
      /\ \A f \in 1..Now : disk'[f] = disk[f] /\ ConfAt(f)' = ConfAt(f)
    <2>1. disk \in Seq(Version) /\ Now \in Nat
        BY DEF TypeOK, Now
    <2>2. Now' \in Nat
        BY <2>1, DiskAppends DEF Now
    <2> QED
        BY <2>1, <2>2, DiskGrows
<1>2. ConfAt(k)' = ConfAt(k) /\ FilesOf(k)' = FilesOf(k) /\ Section(k)' = Section(k)
    BY <1>1 DEF FilesOf, Section
<1>3. \A f \in k..Now : \A p :
         /\ f \in k..Now'
         /\ FileAt(f, p)' = FileAt(f, p) /\ FileEntries(f, p)' = FileEntries(f, p)
    BY <1>1 DEF FileAt, FileEntries
<1>4. Includes(l, Section(k))'
    BY <1>2 DEF LoadedUpTo, Includes
<1>5. ASSUME NEW i \in DOMAIN FilesOf(k), i < next
      PROVE  HoldsFile(l, k, FilesOf(k)[i])'
    <2>1. PICK f \in k..Now : /\ Loads(FileAt(f, FilesOf(k)[i]))
                              /\ Includes(l, FileEntries(f, FilesOf(k)[i]))
        BY <1>5 DEF LoadedUpTo, HoldsFile
    <2> QED
        BY <1>2, <1>3, <2>1 DEF HoldsFile, Includes
<1>6. OnlyFrom(l, k)'
    <2> SUFFICES ASSUME NEW x \in DOMAIN NoWhitelist, NEW e \in l[x]
                 PROVE  \/ e \in Section(k)'[x]
                        \/ \E i \in DOMAIN FilesOf(k)', f \in k..Now' :
                              e \in (FileEntries(f, FilesOf(k)[i])')[x]
        BY DEF OnlyFrom
    <2>1. CASE e \in Section(k)[x]
        BY <1>2, <2>1
    <2>2. ASSUME NEW i \in DOMAIN FilesOf(k), NEW f \in k..Now,
                 e \in FileEntries(f, FilesOf(k)[i])[x]
          PROVE  \E j \in DOMAIN FilesOf(k)', g \in k..Now' :
                     e \in (FileEntries(g, FilesOf(k)[j])')[x]
        BY <1>2, <1>3, <2>2
    <2> QED
        BY <2>1, <2>2 DEF LoadedUpTo, OnlyFrom
<1> QED
    BY <1>2, <1>4, <1>5, <1>6 DEF LoadedUpTo

\* Reading one more file takes a load one file further.
LEMMA LoadOneMore ==
    ASSUME NEW l, NEW k \in 1..Now, NEW next \in DOMAIN FilesOf(k),
           DOMAIN FilesOf(k) \subseteq Nat, Now \in Nat,
           LoadedUpTo(l, k, next), Loads(FileAt(Now, FilesOf(k)[next]))
    PROVE  LoadedUpTo(LoadFileInto(l, FileAt(Now, FilesOf(k)[next])), k, next + 1)
<1> DEFINE file == FileAt(Now, FilesOf(k)[next])
           more == LoadFileInto(l, file)
<1>1. Now \in k..Now
    OBVIOUS
<1>2. Includes(more, l) /\ Includes(more, LoadFileInto(NoWhitelist, file))
    BY LoadFileAdds DEF Includes
<1> HIDE DEF more
<1>3. Includes(more, Section(k))
    BY <1>2, IncludesTransitive DEF LoadedUpTo
<1>4. ASSUME NEW i \in DOMAIN FilesOf(k), i < next + 1
      PROVE  HoldsFile(more, k, FilesOf(k)[i])
    <2>1. CASE i < next
        BY <1>2, <2>1, IncludesTransitive DEF LoadedUpTo, HoldsFile
    <2>2. CASE i = next
        BY <1>1, <1>2, <2>2 DEF HoldsFile, FileEntries
    <2> QED
        BY <1>4, <2>1, <2>2
<1>5. OnlyFrom(more, k)
    <2> SUFFICES ASSUME NEW x \in DOMAIN NoWhitelist, NEW e \in more[x]
                 PROVE  \/ e \in Section(k)[x]
                        \/ \E i \in DOMAIN FilesOf(k), f \in k..Now :
                              e \in FileEntries(f, FilesOf(k)[i])[x]
        BY DEF OnlyFrom
    <2>1. e \in l[x] \/ e \in FileEntries(Now, FilesOf(k)[next])[x]
        BY LoadFileAdds DEF more, FileEntries
    <2> QED
        BY <1>1, <2>1 DEF LoadedUpTo, OnlyFrom
<1> QED
    BY <1>3, <1>4, <1>5 DEF LoadedUpTo, more

\* A load begins with the section's entries alone.
LEMMA LoadBegins ==
    ASSUME NEW k, DOMAIN FilesOf(k) \subseteq Nat \ {0}
    PROVE  LoadedUpTo(Section(k), k, 1)
BY IncludesItself DEF LoadedUpTo, OnlyFrom

LEMMA LoadCompletes ==
    ASSUME NEW l, NEW k, FilesOf(k) \in Seq(Path), NEW next \in Nat,
           next > Len(FilesOf(k)), LoadedUpTo(l, k, next)
    PROVE  \A n \in Nat : LoadedUpTo(l, k, n)
BY DEF LoadedUpTo

\* The files of an accepted configuration are a sequence.
LEMMA FilesAreListed ==
    ASSUME TypeOK, NEW k \in 1..Now, ConfAt(k) # Bad
    PROVE  ConfAt(k) \in Conf /\ FilesOf(k) \in Seq(Path)
<1>1. disk[k] \in Version
    BY DEF TypeOK, Now
<1> QED
    BY <1>1, ConfAssumption DEF FilesOf, ConfAt, Version

LEMMA OriginInit == Init => OriginInv
BY DEF Init, OriginInv, Begin, Loading

\* Every step keeps the whitelists what their loads made them.
LEMMA OriginNext == IInv /\ OriginInv /\ [Next]_vars => OriginInv'
<1> SUFFICES ASSUME IInv, OriginInv, [Next]_vars PROVE OriginInv'
    OBVIOUS
<1>0. /\ TypeOK /\ LoadInv /\ Now \in Nat /\ Now >= 1
      /\ loader.next \in Nat \ {0} /\ TypeOK'
      /\ phase = "running" => listed \in 1..Now
    BY TypeNext DEF IInv, TypeOK, LoadInv, Now
<1>1. ASSUME phase = "running", phase' = "running",
             UNCHANGED <<whitelist, listed>>
      PROVE  \A next \in Nat : LoadedUpTo(whitelist, listed, next)'
    <2> SUFFICES ASSUME NEW next \in Nat
                 PROVE  LoadedUpTo(whitelist, listed, next)'
        OBVIOUS
    <2>1. LoadedUpTo(whitelist, listed, next) /\ listed \in 1..Now
        BY <1>0, <1>1 DEF OriginInv
    <2>2. \A l, k : k = listed /\ l = whitelist
              => k \in 1..Now /\ LoadedUpTo(l, k, next)
        BY <2>1
    <2>3. \A l, k : k = listed /\ l = whitelist => LoadedUpTo(l, k, next)'
        BY <1>0, <2>2, LoadedStable
    <2> QED
        BY <1>1, <2>3 DEF LoadedUpTo, OnlyFrom, HoldsFile, Section, FilesOf
<1>2. ASSUME loader.pc = "files", UNCHANGED loader
      PROVE  LoadedUpTo(loader.whitelist, loader.conf, loader.next)'
    <2>1. /\ LoadedUpTo(loader.whitelist, loader.conf, loader.next)
          /\ loader.conf \in 1..Now
        BY <1>0, <1>2 DEF OriginInv, LoadInv
    <2>2. \A l, k, n : k = loader.conf /\ l = loader.whitelist /\ n = loader.next
              => k \in 1..Now /\ LoadedUpTo(l, k, n)
        BY <2>1
    <2>3. \A l, k, n : k = loader.conf /\ l = loader.whitelist /\ n = loader.next
              => LoadedUpTo(l, k, n)'
        BY <1>0, <2>2, LoadedStable
    <2> QED
        BY <1>2, <2>3 DEF LoadedUpTo, OnlyFrom, HoldsFile, Section, FilesOf
<1>3. CASE /\ UNCHANGED <<loader, whitelist, listed>>
           /\ phase' = "running" => phase = "running"
    BY <1>1, <1>2, <1>3 DEF OriginInv
<1>4. CASE ReceiveHup \/ StoreConfig
    BY <1>1, <1>4 DEF ReceiveHup, StoreConfig, Begin, NotLoading, Loading, OriginInv
<1>5. CASE LoadConfig
    <2>1. UNCHANGED <<whitelist, listed>> /\ (phase' = "running" => phase = "running")
        BY <1>5 DEF LoadConfig, FailLoad
    <2>2. CASE ConfAt(Now) = Bad
        BY <1>1, <1>5, <2>1, <2>2
           DEF LoadConfig, FailLoad, NotLoading, Loading, OriginInv
    <2>3. CASE ConfAt(Now) # Bad
        <3>1. /\ loader'.pc = "files" /\ loader'.conf = Now /\ loader'.next = 1
              /\ loader'.whitelist = Section(Now) /\ disk' = disk
            BY <1>5, <2>3 DEF LoadConfig, Loading, Section
        <3>2. FilesOf(Now) \in Seq(Path)
            BY <1>0, <2>3, FilesAreListed
        <3>3. LoadedUpTo(Section(Now), Now, 1)
            BY <3>2, LoadBegins
        <3>4. LoadedUpTo(loader.whitelist, loader.conf, loader.next)'
            BY <3>1, <3>3 DEF LoadedUpTo, OnlyFrom, HoldsFile, Section, FilesOf,
                              ConfAt, FileEntries, FileAt, Now
        <3> QED
            BY <1>1, <2>1, <3>4 DEF OriginInv
    <2> QED
        BY <2>2, <2>3
<1>6. CASE LoadFile
    <2>1. /\ UNCHANGED <<whitelist, listed, disk>> /\ loader.pc = "files"
          /\ phase' = "running" => phase = "running"
        BY <1>6 DEF LoadFile, FailLoad
    <2>2. CASE FailLoad
        BY <1>1, <2>1, <2>2 DEF FailLoad, NotLoading, Loading, OriginInv
    <2>3. CASE ~FailLoad
        <3> DEFINE k == loader.conf
                   file == FileAt(Now, FilesOf(k)[loader.next])
        <3>1. /\ Loads(file) /\ loader.next <= Len(FilesOf(k))
              /\ loader' = Loading("files", k, loader.next + 1,
                                   LoadFileInto(loader.whitelist, file))
            BY <1>6, <2>3 DEF LoadFile, FilesToLoad, FilesOf, FileAt
        <3>2. k \in 1..Now /\ FilesOf(k) \in Seq(Path)
            BY <1>0, <2>1, FilesAreListed DEF LoadInv
        <3>3. LoadedUpTo(LoadFileInto(loader.whitelist, file), k, loader.next + 1)
            <4>1. LoadedUpTo(loader.whitelist, k, loader.next)
                BY <2>1 DEF OriginInv
            <4>2. loader.next \in DOMAIN FilesOf(k) /\ DOMAIN FilesOf(k) \subseteq Nat
                BY <1>0, <3>1, <3>2
            <4> QED
                BY <1>0, <3>1, <3>2, <4>1, <4>2, LoadOneMore
        <3>4. LoadedUpTo(loader.whitelist, loader.conf, loader.next)'
            <4>1. /\ loader'.conf = k /\ loader'.next = loader.next + 1
                  /\ loader'.whitelist = LoadFileInto(loader.whitelist, file)
                BY <3>1 DEF Loading
            <4> HIDE DEF k, file
            <4> QED
                BY <2>1, <3>3, <4>1 DEF LoadedUpTo, OnlyFrom, HoldsFile, Section,
                                        FilesOf, ConfAt, FileEntries, FileAt, Now
        <3> QED
            BY <1>1, <2>1, <3>4 DEF OriginInv
    <2> QED
        BY <2>2, <2>3
<1>7. CASE Start \/ StoreWhitelist
    <2>1. /\ loader.pc = "files" /\ loader.next > Len(FilesOf(loader.conf))
          /\ UNCHANGED disk /\ whitelist' = loader.whitelist
          /\ listed' = loader.conf /\ loader'.pc # "files"
        BY <1>7 DEF Start, StoreWhitelist, LoadIsComplete, FilesToLoad, FilesOf,
                    NotLoading, Loading
    <2>2. FilesOf(loader.conf) \in Seq(Path)
        BY <1>0, <2>1, FilesAreListed DEF LoadInv
    <2>3. \A n \in Nat : LoadedUpTo(loader.whitelist, loader.conf, n)
        BY <1>0, <2>1, <2>2, LoadCompletes DEF OriginInv
    <2>4. \A n \in Nat : LoadedUpTo(whitelist, listed, n)'
        BY <2>1, <2>3 DEF LoadedUpTo, OnlyFrom, HoldsFile, Section, FilesOf, ConfAt,
                          FileEntries, FileAt, Now
    <2> QED
        BY <2>1, <2>4 DEF OriginInv
<1>8. ASSUME NEW w \in Worker, Handle(w) \/ \E req \in Request : Receive(w, req)
      PROVE  UNCHANGED <<phase, loader, whitelist, listed>>
    BY <1>8 DEF Handle, CheckSkip, CheckWhitelist, LoadDecisionConfig, CheckHelo,
                CheckMailFrom, DecideAction, Reply, Receive, Moves
<1>9. EditConf \/ EditFile \/ UNCHANGED vars
        => UNCHANGED <<phase, loader, whitelist, listed>>
    BY DEF EditConf, EditFile, Edit, vars
<1>10. Sighup => /\ UNCHANGED <<loader, whitelist, listed>>
                 /\ phase' = "running" => phase = "running"
    BY DEF Sighup
<1> QED
    BY <1>3, <1>4, <1>5, <1>6, <1>7, <1>8, <1>9, <1>10 DEF Next, Load

\* Both whitelists, the one in force and the one under way, are what their
\* loads read.
THEOREM Origins == Spec => []OriginInv
BY OriginInit, OriginNext, Invariance, PTL DEF Spec

LEMMA InvGivesOneLoad == IInv /\ OriginInv => WhitelistIsOneLoad
<1> SUFFICES ASSUME IInv, OriginInv, phase = "running" PROVE WhitelistIsOneLoad
    BY DEF WhitelistIsOneLoad
<1>1. /\ TypeOK /\ listed \in 1..Now /\ ConfAt(listed) # Bad
    BY DEF IInv, LoadInv, TypeOK, Now
<1>2. FilesOf(listed) \in Seq(Path)
    BY <1>1, FilesAreListed
<1>3. LoadedUpTo(whitelist, listed, Len(FilesOf(listed)) + 1)
    BY <1>2 DEF OriginInv
<1>4. \A i \in DOMAIN FilesOf(listed) : HoldsFile(whitelist, listed, FilesOf(listed)[i])
    BY <1>2, <1>3 DEF LoadedUpTo
<1> QED
    BY <1>3, <1>4 DEF WhitelistIsOneLoad, LoadedUpTo, HoldsFile, OnlyFrom, Section,
                      FilesOf

\* The whitelist in force is always one complete load of its configuration:
\* with every entry of its section and of a well-formed version of each file it
\* names, and with no entry of an earlier load.
THEOREM OneLoad == Spec => []WhitelistIsOneLoad
BY InvGivesOneLoad, Origins, Invariance, PTL

(***************************************************************************)
(* What each answer is owed to.                                            *)
(***************************************************************************)

\* Version k lists a request, by its section or by what a file was later.
Exempted(k, req) ==
    \/ Matches(Section(k), req)
    \/ \E i \in DOMAIN FilesOf(k), f \in k..Now :
          Matches(FileEntries(f, FilesOf(k)[i]), req)

\* A request matches by one entry, and that entry has an origin.
LEMMA MatchHasOrigin ==
    ASSUME NEW l, NEW k, NEW req, OnlyFrom(l, k), Matches(l, req)
    PROVE  Exempted(k, req)
<1> DEFINE From(e, x) ==
        \/ e \in Section(k)[x]
        \/ \E i \in DOMAIN FilesOf(k), f \in k..Now :
              e \in FileEntries(f, FilesOf(k)[i])[x]
<1>1. /\ \A e \in l.ips : From(e, "ips")
      /\ \A e \in l.helo_names : From(e, "helo_names")
      /\ \A e \in l.domains : From(e, "domains")
      /\ \A e \in l.domains_ptr : From(e, "domains_ptr")
    BY FieldNames DEF OnlyFrom
<1> HIDE DEF From
<1>2. CASE InNetworks(l.ips, req.client_address)
    <2>1. PICK net \in l.ips : net.fam = req.client_address.fam
                               /\ IsPrefix(net.bits, req.client_address.bits)
        BY <1>2 DEF InNetworks
    <2>2. From(net, "ips")
        BY <1>1
    <2>3. \A m : net \in m.ips => Matches(m, req)
        BY <2>1 DEF InNetworks, Matches
    <2> QED
        BY <2>2, <2>3 DEF From, Exempted
<1>3. CASE Lower(req.helo_name) \in l.helo_names
    <2>1. From(Lower(req.helo_name), "helo_names")
        BY <1>1, <1>3
    <2>2. \A m : Lower(req.helo_name) \in m.helo_names => Matches(m, req)
        BY DEF Matches
    <2> QED
        BY <2>1, <2>2 DEF From, Exempted
<1>4. ASSUME NEW d \in l.domains,
             \/ MatchesSuffix(req.helo_name, d)
             \/ req.sender.domain # Missing /\ MatchesSuffix(req.sender.domain, d)
      PROVE  Exempted(k, req)
    <2>1. From(d, "domains")
        BY <1>1
    <2>2. \A m : d \in m.domains => Matches(m, req)
        BY <1>4 DEF Matches
    <2> QED
        BY <2>1, <2>2 DEF From, Exempted
<1>5. ASSUME NEW d \in l.domains_ptr, req.reverse_client_name # Missing,
             MatchesSuffix(req.reverse_client_name, d)
      PROVE  Exempted(k, req)
    <2>1. From(d, "domains_ptr")
        BY <1>1
    <2>2. \A m : d \in m.domains_ptr => Matches(m, req)
        BY <1>5 DEF Matches
    <2> QED
        BY <2>1, <2>2 DEF From, Exempted
<1> QED
    BY <1>2, <1>3, <1>4, <1>5 DEF Matches

\* The answers the policy of version k may give.
Answers(k) ==
    {Decide(ConfAt(k).policy, ConfAt(k).messages, ConfAt(k).header_mode, helo, mail) :
        helo \in Outcome, mail \in Outcome}

\* What the answer of a task, once it has one, is owed to, and which versions
\* it has read by then.
OwedOK(t) ==
    /\ t.pc = "idle" => t = Waiting
    /\ t.pc # "idle" => t.req \in Request
    /\ t.pc = "reply" => t.why # "-"
    /\ t.why # "evaluated" => t.action = Dunno
    /\ t.pc = "skip" \/ t.why = "incomplete" => t.skipAt = 0
    /\ t.pc \in {"skip", "whitelist"} \/ t.why \in {"incomplete", "skip"}
          => t.listAt = 0
    /\ ~Evaluated(t) => t.cfgAt = 0
    /\ t.pc = "evaluate" => /\ t.helo \in Outcome \cup {Pending}
                            /\ t.mail \in Outcome \cup {Pending}
    /\ t.pc \in {"skip", "whitelist", "config"} => t.helo = Pending /\ t.mail = Pending
    /\ t.why = "incomplete" => ~t.req.complete
    /\ t.why = "skip" => /\ t.skipAt \in 1..Now /\ ConfAt(t.skipAt) # Bad
                         /\ SkippedByConfig(ConfAt(t.skipAt), t.req)
    /\ t.why = "whitelist" => /\ t.skipAt \in 1..Now /\ ~SkipsAt(t.skipAt, t.req)
                              /\ t.listAt \in 1..Now /\ ConfAt(t.listAt) # Bad
                              /\ Exempted(t.listAt, t.req)
    /\ Evaluated(t) => t.cfgAt \in 1..Now
    /\ t.why = "evaluated" => t.action \in Answers(t.cfgAt)

OwedInv == \A w \in Worker : OwedOK(worker[w])

LEMMA OwedInit == Init => OwedInv
BY DEF Init, OwedInv, OwedOK, Waiting, Evaluated

\* What an answer is owed to stays true as the files are edited.
LEMMA OwedStable ==
    ASSUME NEW t, OwedOK(t), TypeOK, [Next]_vars
    PROVE  OwedOK(t)'
<1>1. /\ Now \in Nat /\ Now' \in Nat /\ Now <= Now'
      /\ \A f \in 1..Now : disk'[f] = disk[f] /\ ConfAt(f)' = ConfAt(f)
    <2>1. disk \in Seq(Version) /\ Now \in Nat
        BY DEF TypeOK, Now
    <2>2. Now' \in Nat
        BY <2>1, DiskAppends DEF Now
    <2> QED
        BY <2>1, <2>2, DiskGrows
<1>2. \A k \in 1..Now :
         /\ k \in 1..Now'
         /\ FilesOf(k)' = FilesOf(k) /\ Section(k)' = Section(k)
         /\ Answers(k)' = Answers(k) /\ SkipsAt(k, t.req)' = SkipsAt(k, t.req)
    BY <1>1 DEF FilesOf, Section, Answers, SkipsAt
<1>3. \A k \in 1..Now : \A f \in k..Now : \A p :
         f \in k..Now' /\ FileEntries(f, p)' = FileEntries(f, p)
    BY <1>1 DEF FileAt, FileEntries
<1>4. ASSUME NEW k \in 1..Now, Exempted(k, t.req) PROVE Exempted(k, t.req)'
    <2>1. CASE Matches(Section(k), t.req)
        BY <1>2, <2>1 DEF Exempted
    <2>2. ASSUME NEW i \in DOMAIN FilesOf(k), NEW f \in k..Now,
                 Matches(FileEntries(f, FilesOf(k)[i]), t.req)
          PROVE  Exempted(k, t.req)'
        <3>1. /\ i \in DOMAIN FilesOf(k)' /\ f \in k..Now'
              /\ FilesOf(k)'[i] = FilesOf(k)[i]
              /\ \A p : FileEntries(f, p)' = FileEntries(f, p)
            BY <1>2, <1>3
        <3> QED
            BY <2>2, <3>1 DEF Exempted
    <2> QED
        BY <1>4, <2>1, <2>2 DEF Exempted
<1> QED
    BY <1>1, <1>2, <1>4 DEF OwedOK, Evaluated

\* A step of one task keeps what all answers are owed to when it keeps its own.
LEMMA MovesKeepsOwed ==
    ASSUME TypeOK, OwedInv, NEW w \in Worker, NEW task,
           Moves(w, task), OwedOK(task)
    PROVE  OwedInv'
<1>1. \A k, req : /\ Exempted(k, req)' <=> Exempted(k, req)
                  /\ Answers(k)' = Answers(k)
                  /\ SkipsAt(k, req)' <=> SkipsAt(k, req)
    BY DEF Moves, Exempted, Answers, SkipsAt, Section, FilesOf, ConfAt, FileEntries,
           FileAt, Now
<1>2. \A t : OwedOK(t)' <=> OwedOK(t)
    BY <1>1 DEF Moves, OwedOK, Evaluated, ConfAt, Now
<1>3. \A v \in Worker : worker'[v] = IF v = w THEN task ELSE worker[v]
    BY DEF Moves, TypeOK
<1>4. \A v \in Worker : OwedOK(worker'[v])
    BY <1>3 DEF OwedInv
<1>5. \A v \in Worker : \A t : t = worker'[v] => OwedOK(t)'
    BY <1>2, <1>4
<1> QED
    BY <1>5 DEF OwedInv, OwedOK, Evaluated

\* The steps of a task keep what its answer is owed to.
LEMMA OwedNext == IInv /\ OriginInv /\ OwedInv /\ [Next]_vars => OwedInv'
<1> SUFFICES ASSUME IInv, OriginInv, OwedInv, [Next]_vars PROVE OwedInv'
    OBVIOUS
<1>0. /\ TypeOK /\ LoadInv /\ Now \in Nat /\ config \in Nat /\ listed \in Nat
      /\ phase = "running" => /\ config \in 1..Now /\ ConfAt(config) # Bad
                              /\ listed \in 1..Now /\ ConfAt(listed) # Bad
      /\ \A w \in Worker : /\ worker[w] \in Task /\ TaskOK(worker[w])
                            /\ OwedOK(worker[w])
    BY DEF IInv, TypeOK, LoadInv, TaskInv, OwedInv, Now
<1>1. ASSUME NEW w \in Worker, NEW req \in Request, Receive(w, req) PROVE OwedInv'
    <2>1. Waiting \in Task
        BY DEF Waiting, Task, Pending, Action, Dunno
    <2>2. /\ Waiting.skipAt = 0 /\ Waiting.listAt = 0 /\ Waiting.cfgAt = 0
          /\ Waiting.helo = Pending /\ Waiting.mail = Pending /\ Waiting.action = Dunno
        BY DEF Waiting
    <2>3. req.complete => OwedOK([Waiting EXCEPT !.pc = "skip", !.why = "-", !.req = req,
                                                 !.since = config])
        BY <1>0, <2>1, <2>2 DEF OwedOK, Evaluated, Task
    <2>4. ~req.complete => OwedOK([Waiting EXCEPT !.pc = "reply", !.why = "incomplete",
                                                  !.req = req, !.since = config])
        BY <1>0, <2>1, <2>2 DEF OwedOK, Evaluated, Task
    <2> QED
        BY <1>0, <1>1, <2>3, <2>4, MovesKeepsOwed DEF Receive
<1>2. ASSUME NEW w \in Worker, CheckSkip(w) PROVE OwedInv'
    <2>1. phase = "running" /\ worker[w].pc = "skip"
        BY <1>2 DEF CheckSkip, At
    <2>2. \A t \in Task : t.pc = "skip" /\ OwedOK(t) /\ TaskOK(t) =>
             /\ SkippedByConfig(ConfAt(config), t.req) =>
                   OwedOK([t EXCEPT !.pc = "reply", !.skipAt = config, !.why = "skip"])
             /\ OwedOK([t EXCEPT !.pc = "whitelist", !.skipAt = config])
        BY <1>0, <2>1 DEF OwedOK, TaskOK, Evaluated, Task
    <2> QED
        BY <1>0, <1>2, <2>1, <2>2, MovesKeepsOwed DEF CheckSkip
<1>3. ASSUME NEW w \in Worker, CheckWhitelist(w) PROVE OwedInv'
    <2>1. phase = "running" /\ worker[w].pc = "whitelist"
        BY <1>3 DEF CheckWhitelist, At
    <2>2. \A t \in Task : Matches(whitelist, t.req) => Exempted(listed, t.req)
        BY <2>1, MatchHasOrigin DEF OriginInv, LoadedUpTo
    <2>3. \A t \in Task : t.pc = "whitelist" /\ TaskOK(t) =>
             ~SkipsAt(t.skipAt, t.req) /\ t.skipAt \in 1..Now
        BY <1>0, <2>1 DEF TaskOK, Task
    <2>4. \A t \in Task : t.pc = "whitelist" /\ OwedOK(t) /\ TaskOK(t) =>
             /\ Matches(whitelist, t.req) =>
                   OwedOK([t EXCEPT !.pc = "reply", !.listAt = listed,
                                    !.why = "whitelist"])
             /\ OwedOK([t EXCEPT !.pc = "config", !.listAt = listed])
        BY <1>0, <2>1, <2>2, <2>3 DEF OwedOK, TaskOK, Evaluated, Task
    <2> QED
        BY <1>0, <1>3, <2>1, <2>4, MovesKeepsOwed DEF CheckWhitelist
<1>4. ASSUME NEW w \in Worker, LoadDecisionConfig(w) PROVE OwedInv'
    <2>1. phase = "running" /\ worker[w].pc = "config"
        BY <1>4 DEF LoadDecisionConfig, At
    <2>2. \A t \in Task, s \in {"literal", "original"} :
             t.pc = "config" /\ OwedOK(t) /\ TaskOK(t) =>
                OwedOK([t EXCEPT !.pc = "evaluate", !.cfgAt = config, !.subject = s])
        BY <1>0, <2>1 DEF OwedOK, TaskOK, Evaluated, Task
    <2>3. \A sender, cfg : Subject(sender, cfg, Today) \in {"literal", "original"}
        BY DEF Subject
    <2> QED
        BY <1>0, <1>4, <2>1, <2>2, <2>3, MovesKeepsOwed DEF LoadDecisionConfig
<1>5. ASSUME NEW w \in Worker, CheckHelo(w) \/ CheckMailFrom(w) PROVE OwedInv'
    <2>1. \A t \in Task, r \in Outcome :
             t.pc = "evaluate" /\ OwedOK(t) /\ TaskOK(t) =>
             OwedOK([t EXCEPT !.helo = r]) /\ OwedOK([t EXCEPT !.mail = r])
        BY DEF OwedOK, TaskOK, Evaluated, Task
    <2> QED
        BY <1>0, <1>5, <2>1, MovesKeepsOwed DEF CheckHelo, CheckMailFrom, At
<1>6. ASSUME NEW w \in Worker, DecideAction(w) PROVE OwedInv'
    <2> DEFINE cfg == ConfAt(worker[w].cfgAt)
               a   == Decide(cfg.policy, cfg.messages, cfg.header_mode,
                             worker[w].helo, worker[w].mail)
    <2>1. /\ worker[w].pc = "evaluate"
          /\ worker[w].helo \in Outcome /\ worker[w].mail \in Outcome
        BY <1>0, <1>6 DEF DecideAction, At, OwedOK
    <2>2. a \in Answers(worker[w].cfgAt)
        BY <2>1 DEF Answers
    <2>3. Moves(w, [worker[w] EXCEPT !.pc = "reply", !.why = "evaluated",
                                     !.action = a])
        BY <1>6 DEF DecideAction
    <2> HIDE DEF a
    <2>4. \A t \in Task : \A b :
             t.pc = "evaluate" /\ OwedOK(t) /\ TaskOK(t) /\ b \in Answers(t.cfgAt) =>
             OwedOK([t EXCEPT !.pc = "reply", !.why = "evaluated", !.action = b])
        BY DEF OwedOK, TaskOK, Evaluated, Task
    <2> QED
        BY <1>0, <2>1, <2>2, <2>3, <2>4, MovesKeepsOwed
<1>7. ASSUME NEW w \in Worker, Reply(w) PROVE OwedInv'
    <2>1. OwedOK(Waiting)
        BY DEF Waiting, OwedOK, Evaluated
    <2> QED
        BY <1>0, <1>7, <2>1, MovesKeepsOwed DEF Reply
<1>8. ASSUME worker' = worker PROVE OwedInv'
    <2>1. \A t : OwedOK(t) => OwedOK(t)'
        BY <1>0, OwedStable
    <2>2. \A w \in Worker : \A t : t = worker[w] => OwedOK(t)'
        BY <1>0, <2>1
    <2> QED
        BY <1>8, <2>2 DEF OwedInv, OwedOK, Evaluated
<1>9. EditConf \/ EditFile \/ Sighup \/ Load \/ UNCHANGED vars => worker' = worker
    BY DEF EditConf, EditFile, Edit, Sighup, Load, ReceiveHup, LoadConfig, LoadFile,
           Start, StoreWhitelist, StoreConfig, vars
<1> QED
    BY <1>1, <1>2, <1>3, <1>4, <1>5, <1>6, <1>7, <1>8, <1>9 DEF Next, Handle

\* Every answer is owed to versions that were read for it.
THEOREM Owed == Spec => []OwedInv
BY OwedInit, OwedNext, Origins, Invariance, PTL DEF Spec

LEMMA InvGivesNoneStale == IInv /\ OwedInv => NoStaleExemption
<1> SUFFICES ASSUME IInv, OwedInv, NEW w \in Worker
             PROVE
        LET t == worker[w] IN
        /\ t.why = "skip" =>
              \E k \in t.since..Now :
                  ConfAt(k) # Bad /\ SkippedByConfig(ConfAt(k), t.req)
        /\ t.why = "whitelist" =>
              \E k \in t.since..Now :
                  \/ /\ ConfAt(k) # Bad
                     /\ Matches(InlineWhitelist(ConfAt(k).whitelist), t.req)
                  \/ \E p \in Path, j \in k..Now :
                        Names(k, p) /\ Matches(FileEntries(j, p), t.req)
    BY DEF NoStaleExemption
<1> DEFINE t == worker[w]
<1>1. /\ t \in Task /\ TaskOK(t) /\ OwedOK(t) /\ TypeOK /\ Now \in Nat
      /\ t.since \in Nat /\ t.skipAt \in Nat /\ t.listAt \in Nat
    BY DEF IInv, TypeOK, TaskInv, OwedInv, Task, Now
<1>2. ASSUME t.why = "skip"
      PROVE  \E k \in t.since..Now :
                ConfAt(k) # Bad /\ SkippedByConfig(ConfAt(k), t.req)
    <2>1. t.skipAt \in t.since..Now
        BY <1>1, <1>2 DEF TaskOK, OwedOK
    <2> QED
        BY <1>1, <1>2, <2>1 DEF OwedOK
<1>3. ASSUME t.why = "whitelist"
      PROVE  \E k \in t.since..Now :
                \/ /\ ConfAt(k) # Bad
                   /\ Matches(InlineWhitelist(ConfAt(k).whitelist), t.req)
                \/ \E p \in Path, j \in k..Now :
                      Names(k, p) /\ Matches(FileEntries(j, p), t.req)
    <2>1. /\ t.listAt \in t.since..Now /\ t.listAt \in 1..Now
          /\ ConfAt(t.listAt) # Bad /\ Exempted(t.listAt, t.req)
        BY <1>1, <1>3 DEF TaskOK, OwedOK
    <2>2. FilesOf(t.listAt) \in Seq(Path)
        BY <1>1, <2>1, FilesAreListed
    <2>3. CASE Matches(Section(t.listAt), t.req)
        BY <2>1, <2>3 DEF Section
    <2>4. ASSUME NEW i \in DOMAIN FilesOf(t.listAt), NEW f \in t.listAt..Now,
                 Matches(FileEntries(f, FilesOf(t.listAt)[i]), t.req)
          PROVE  \E p \in Path, j \in t.listAt..Now :
                    Names(t.listAt, p) /\ Matches(FileEntries(j, p), t.req)
        <3>1. FilesOf(t.listAt)[i] \in Path
            BY <2>2
        <3>2. Names(t.listAt, FilesOf(t.listAt)[i])
            BY <2>1 DEF Names, FilesOf
        <3> QED
            BY <2>4, <3>1, <3>2
    <2> QED
        BY <2>1, <2>3, <2>4 DEF Exempted
<1> QED
    BY <1>2, <1>3

\* No exemption outlives the reload that withdraws it: a configuration no older
\* than the one the request met gives it, or a file that one names.
THEOREM NoneStale == Spec => []NoStaleExemption
BY InvGivesNoneStale, Owed, Invariance, PTL
=============================================================================
