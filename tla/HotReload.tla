------------------------------ MODULE HotReload ------------------------------
(***************************************************************************)
(* The running state of rspfd and its hot reload (rspfd/src/main.rs,       *)
(* AppState, should_skip and handle_request in rspf/src/server.rs): the    *)
(* operator edits the configuration and the whitelist files and sends      *)
(* SIGHUP; the reload task loads them and swaps first the whitelist, then  *)
(* the configuration; the connection tasks read the two, one at a time and *)
(* the configuration twice, while they handle a request.                   *)
(*                                                                         *)
(* disk is the history of what the files have said, its last version what  *)
(* they say now.  A configuration in memory is the version it was read at. *)
(***************************************************************************)
EXTENDS Naturals, Sequences, Exemption, Srs, Engine

CONSTANTS Conf,       \* the configurations Config::load accepts
          Bad,        \* a configuration it rejects
          Path,       \* the whitelist files
          Content,    \* what a whitelist file may hold
          Request,    \* the policy requests
          NoRequest,
          Worker,     \* the connection tasks
          Outcome,    \* the SPF results the evaluator may give
          Today,      \* the day, for SRS
          MaxDisk     \* bound on the versions of the files

ASSUME MaxDiskAssumption == MaxDisk \in Nat \ {0}
ASSUME OutcomeAssumption == Outcome \subseteq SpfResult
ASSUME ConfAssumption ==
    /\ Bad \notin Conf
    /\ \A c \in Conf : c.whitelist.files \in Seq(Path) /\ c.messages \in Messages
ASSUME RequestAssumption == NoRequest \notin Request

VARIABLES disk,       \* the versions of the files
          phase,      \* of the process: "starting", "running" or "exited"
          hup,        \* whether a SIGHUP waits for the reload task
          asked,      \* history: the version on disk at the last SIGHUP
          loader,     \* the load of configuration and whitelist under way
          config,     \* AppState.config: the version it was read at, or 0
          whitelist,  \* AppState.whitelist
          listed,     \* history: the version whose configuration it is of
          worker      \* the state of each connection task

vars == <<disk, phase, hup, asked, loader, config, whitelist, listed, worker>>

Version == [conf : Conf \cup {Bad}, files : [Path -> Content]]

Now == Len(disk)

ConfAt(k) == disk[k].conf

NoWhitelist == [ips |-> {}, helo_names |-> {}, domains |-> {}, domains_ptr |-> {}]

\* A load: the version of its configuration, the file to read next and the
\* whitelist so far.
Loading(pc, conf, next, so_far) ==
    [pc |-> pc, conf |-> conf, next |-> next, whitelist |-> so_far]

NotLoading == Loading("idle", 0, 1, NoWhitelist)

Begin == Loading("config", 0, 1, NoWhitelist)

Pending == "pending"

\* A task between two requests.
Waiting == [pc      |-> "idle",
            req     |-> NoRequest,
            since   |-> 0,          \* history: config when the request came
            skipAt  |-> 0,          \* config, as CheckSkip read it
            listAt  |-> 0,          \* history: listed, as CheckWhitelist read it
            cfgAt   |-> 0,          \* config, as the decision reads it
            why     |-> "-",        \* what the answer is owed to
            subject |-> "literal",  \* the sender SPF is evaluated for
            helo    |-> Pending,
            mail    |-> Pending,
            action  |-> Dunno]

\* The process starts: main loads the configuration before anything else.
Init == /\ disk \in {<<v>> : v \in Version}
        /\ phase = "starting"
        /\ hup = FALSE
        /\ asked = 0
        /\ loader = Begin
        /\ config = 0
        /\ whitelist = NoWhitelist
        /\ listed = 0
        /\ worker = [w \in Worker |-> Waiting]

-----------------------------------------------------------------------------
(* The operator. *)

Edit(version) ==
    /\ Now < MaxDisk
    /\ version # disk[Now]
    /\ disk' = Append(disk, version)
    /\ UNCHANGED <<phase, hup, asked, loader, config, whitelist, listed, worker>>

EditConf == \E c \in Conf \cup {Bad} : Edit([disk[Now] EXCEPT !.conf = c])

EditFile == \E p \in Path, c \in Content : Edit([disk[Now] EXCEPT !.files[p] = c])

\* Signals of one kind coalesce, one stays pending.  Before the handler is
\* installed, at the end of the start, the signal ends the process.
Sighup ==
    /\ \/ /\ phase = "running"
          /\ hup' = TRUE /\ asked' = Now
          /\ UNCHANGED phase
       \/ /\ phase = "starting"
          /\ phase' = "exited"
          /\ UNCHANGED <<hup, asked>>
    /\ UNCHANGED <<disk, loader, config, whitelist, listed, worker>>

-----------------------------------------------------------------------------
(* Loading, at the start by main and AppState::new, then by the reload     *)
(* task on each SIGHUP.                                                    *)

ReceiveHup ==
    /\ phase = "running" /\ loader.pc = "idle" /\ hup
    /\ hup' = FALSE
    /\ loader' = Begin
    /\ UNCHANGED <<disk, phase, asked, config, whitelist, listed, worker>>

\* Mutant of FailLoad: the reload task ends with its first failure.
FailLoadForGood ==
    /\ loader' = IF phase = "starting" THEN NotLoading
                 ELSE Loading("ended", 0, 1, NoWhitelist)
    /\ phase' = IF phase = "starting" THEN "exited" ELSE phase

\* A load that fails ends the process that starts and leaves the one that
\* runs as it is.
FailLoad ==
    /\ loader' = NotLoading
    /\ phase' = IF phase = "starting" THEN "exited" ELSE phase

\* Mutant of LoadConfig: a configuration is stored as soon as it is valid.
LoadConfigEagerly ==
    /\ phase # "exited" /\ loader.pc = "config"
    /\ IF ConfAt(Now) = Bad
       THEN FailLoad /\ UNCHANGED config
       ELSE /\ loader' = Loading("files", Now, 1,
                                 InlineWhitelist(ConfAt(Now).whitelist))
            /\ config' = IF phase = "running" THEN Now ELSE config
            /\ UNCHANGED phase
    /\ UNCHANGED <<disk, hup, asked, whitelist, listed, worker>>

\* Mutant of LoadConfig: a reload adds to the whitelist in force.
LoadConfigOnTop ==
    /\ phase # "exited" /\ loader.pc = "config"
    /\ IF ConfAt(Now) = Bad
       THEN FailLoad
       ELSE /\ loader' = Loading("files", Now, 1,
                  [InlineWhitelist(ConfAt(Now).whitelist) EXCEPT
                      !.ips = @ \cup whitelist.ips])
            /\ UNCHANGED phase
    /\ UNCHANGED <<disk, hup, asked, config, whitelist, listed, worker>>

LoadConfig ==
    /\ phase # "exited" /\ loader.pc = "config"
    /\ IF ConfAt(Now) = Bad
       THEN FailLoad
       ELSE /\ loader' = Loading("files", Now, 1,
                                 InlineWhitelist(ConfAt(Now).whitelist))
            /\ UNCHANGED phase
    /\ UNCHANGED <<disk, hup, asked, config, whitelist, listed, worker>>

FilesToLoad == ConfAt(loader.conf).whitelist.files

\* Mutant of LoadFile: a file that does not load is passed over.
LoadFileOrNot ==
    /\ phase # "exited" /\ loader.pc = "files"
    /\ loader.next <= Len(FilesToLoad)
    /\ LET file == disk[Now].files[FilesToLoad[loader.next]] IN
       loader' = Loading("files", loader.conf, loader.next + 1,
                         IF Loads(file) THEN LoadFileInto(loader.whitelist, file)
                                        ELSE loader.whitelist)
    /\ UNCHANGED <<disk, phase, hup, asked, config, whitelist, listed, worker>>

LoadFile ==
    /\ phase # "exited" /\ loader.pc = "files"
    /\ loader.next <= Len(FilesToLoad)
    /\ LET file == disk[Now].files[FilesToLoad[loader.next]] IN
       IF Loads(file)
       THEN /\ loader' = Loading("files", loader.conf, loader.next + 1,
                                 LoadFileInto(loader.whitelist, file))
            /\ UNCHANGED phase
       ELSE FailLoad
    /\ UNCHANGED <<disk, hup, asked, config, whitelist, listed, worker>>

LoadIsComplete == loader.pc = "files" /\ loader.next > Len(FilesToLoad)

\* AppState::new returns, main installs the handler and starts to serve.
Start ==
    /\ phase = "starting" /\ LoadIsComplete
    /\ phase' = "running"
    /\ whitelist' = loader.whitelist /\ listed' = loader.conf
    /\ config' = loader.conf
    /\ loader' = NotLoading
    /\ UNCHANGED <<disk, hup, asked, worker>>

\* Mutant of StoreWhitelist: the configuration is stored in its place.
StoreConfigFirst ==
    /\ phase = "running" /\ LoadIsComplete
    /\ config' = loader.conf
    /\ loader' = Loading("swap", loader.conf, loader.next, loader.whitelist)
    /\ UNCHANGED <<disk, phase, hup, asked, whitelist, listed, worker>>

\* The reload swaps the whitelist first, the configuration in another step.
StoreWhitelist ==
    /\ phase = "running" /\ LoadIsComplete
    /\ whitelist' = loader.whitelist /\ listed' = loader.conf
    /\ loader' = Loading("swap", loader.conf, loader.next, loader.whitelist)
    /\ UNCHANGED <<disk, phase, hup, asked, config, worker>>

StoreConfig ==
    /\ phase = "running" /\ loader.pc = "swap"
    /\ config' = loader.conf
    /\ loader' = NotLoading
    /\ UNCHANGED <<disk, phase, hup, asked, whitelist, listed, worker>>

Load == \/ ReceiveHup \/ LoadConfig \/ LoadFile
        \/ Start \/ StoreWhitelist \/ StoreConfig

-----------------------------------------------------------------------------
(* A connection task handles a request. *)

At(w, pc) == phase = "running" /\ worker[w].pc = pc

\* A step of one task, which changes nothing but the task.
Moves(w, task) ==
    /\ worker' = [worker EXCEPT ![w] = task]
    /\ UNCHANGED <<disk, phase, hup, asked, loader, config, whitelist, listed>>

\* A request without HELO name, sender or readable address is not looked at.
Receive(w, req) ==
    /\ At(w, "idle")
    /\ Moves(w, [Waiting EXCEPT !.pc = IF req.complete THEN "skip" ELSE "reply",
                                !.why = IF req.complete THEN "-" ELSE "incomplete",
                                !.req = req,
                                !.since = config])

CheckSkip(w) ==
    /\ At(w, "skip")
    /\ IF SkippedByConfig(ConfAt(config), worker[w].req)
       THEN Moves(w, [worker[w] EXCEPT !.pc = "reply", !.skipAt = config,
                                       !.why = "skip"])
       ELSE Moves(w, [worker[w] EXCEPT !.pc = "whitelist", !.skipAt = config])

CheckWhitelist(w) ==
    /\ At(w, "whitelist")
    /\ IF Matches(whitelist, worker[w].req)
       THEN Moves(w, [worker[w] EXCEPT !.pc = "reply", !.listAt = listed,
                                       !.why = "whitelist"])
       ELSE Moves(w, [worker[w] EXCEPT !.pc = "config", !.listAt = listed])

\* Mutant of LoadDecisionConfig: the configuration is the one the request met.
KeepFirstConfig(w) ==
    /\ At(w, "config")
    /\ Moves(w, [worker[w] EXCEPT
          !.pc = "evaluate",
          !.cfgAt = worker[w].since,
          !.subject = Subject(worker[w].req.sender, ConfAt(worker[w].since).srs, Today)])

\* The configuration is read again, for SRS and the decision, and kept.
LoadDecisionConfig(w) ==
    /\ At(w, "config")
    /\ Moves(w, [worker[w] EXCEPT
          !.pc = "evaluate",
          !.cfgAt = config,
          !.subject = Subject(worker[w].req.sender, ConfAt(config).srs, Today)])

\* The two checks run concurrently and end in either order.
CheckHelo(w) ==
    /\ At(w, "evaluate") /\ worker[w].helo = Pending
    /\ \E r \in Outcome : Moves(w, [worker[w] EXCEPT !.helo = r])

CheckMailFrom(w) ==
    /\ At(w, "evaluate") /\ worker[w].mail = Pending
    /\ \E r \in Outcome : Moves(w, [worker[w] EXCEPT !.mail = r])

\* Mutant of DecideAction: the second outcome is not waited for.
DecideOnFirst(w) ==
    /\ At(w, "evaluate")
    /\ worker[w].helo # Pending \/ worker[w].mail # Pending
    /\ LET cfg == ConfAt(worker[w].cfgAt) IN
       Moves(w, [worker[w] EXCEPT
          !.pc = "reply",
          !.why = "evaluated",
          !.action = Decide(cfg.policy, cfg.messages, cfg.header_mode,
                            worker[w].helo, worker[w].mail)])

\* Mutant of DecideAction: the configuration must still be the current one.
DecideIfCurrent(w) ==
    /\ At(w, "evaluate")
    /\ worker[w].helo # Pending /\ worker[w].mail # Pending
    /\ worker[w].cfgAt = config
    /\ LET cfg == ConfAt(worker[w].cfgAt) IN
       Moves(w, [worker[w] EXCEPT
          !.pc = "reply",
          !.why = "evaluated",
          !.action = Decide(cfg.policy, cfg.messages, cfg.header_mode,
                            worker[w].helo, worker[w].mail)])

DecideAction(w) ==
    /\ At(w, "evaluate")
    /\ worker[w].helo # Pending /\ worker[w].mail # Pending
    /\ LET cfg == ConfAt(worker[w].cfgAt) IN
       Moves(w, [worker[w] EXCEPT
          !.pc = "reply",
          !.why = "evaluated",
          !.action = Decide(cfg.policy, cfg.messages, cfg.header_mode,
                            worker[w].helo, worker[w].mail)])

Reply(w) == At(w, "reply") /\ Moves(w, Waiting)

Handle(w) == \/ CheckSkip(w) \/ CheckWhitelist(w) \/ LoadDecisionConfig(w)
             \/ CheckHelo(w) \/ CheckMailFrom(w) \/ DecideAction(w) \/ Reply(w)

-----------------------------------------------------------------------------
Next == \/ EditConf \/ EditFile \/ Sighup
        \/ Load
        \/ \E w \in Worker : Handle(w) \/ \E req \in Request : Receive(w, req)

Spec == Init /\ [][Next]_vars

\* The tasks are scheduled and the checks end (the evaluator has a timeout).
\* Nothing is owed by the operator or the clients.
Fairness == WF_vars(Load) /\ \A w \in Worker : WF_vars(Handle(w))

FairSpec == Spec /\ Fairness
-----------------------------------------------------------------------------
IsWhitelist(l) == l = [ips     |-> l.ips,     helo_names  |-> l.helo_names,
                       domains |-> l.domains, domains_ptr |-> l.domains_ptr]

Task == [pc      : {"idle", "skip", "whitelist", "config", "evaluate", "reply"},
         req     : Request \cup {NoRequest},
         since   : Nat, skipAt : Nat, listAt : Nat, cfgAt : Nat,
         why     : {"-", "incomplete", "skip", "whitelist", "evaluated"},
         subject : {"literal", "original"},
         helo    : SpfResult \cup {Pending},
         mail    : SpfResult \cup {Pending},
         action  : Action]

\* The types of the state.
TypeOK ==
    /\ disk \in Seq(Version) /\ Now \in 1..MaxDisk
    /\ phase \in {"starting", "running", "exited"}
    /\ hup \in BOOLEAN
    /\ asked \in 0..Now
    /\ loader = Loading(loader.pc, loader.conf, loader.next, loader.whitelist)
    /\ loader.pc \in {"idle", "config", "files", "swap"}
    /\ loader.conf \in 0..Now /\ loader.next \in Nat \ {0}
    /\ IsWhitelist(loader.whitelist) /\ IsWhitelist(whitelist)
    /\ config \in 0..Now /\ listed \in 0..Now
    /\ worker \in [Worker -> Task]

\* Except between the two stores of a reload, the whitelist in force is the
\* one the configuration in force asks for, and a reload that fails at any
\* file leaves both as they were (main.rs:74-76, 94-107).
InstalledPairMatches ==
    phase = "running" /\ loader.pc # "swap" => listed = config

Includes(larger, smaller) == \A f \in DOMAIN NoWhitelist : smaller[f] \subseteq larger[f]

FileAt(k, path) == disk[k].files[path]

FileEntries(k, path) == LoadFileInto(NoWhitelist, FileAt(k, path))

\* The whitelist in force is a complete load of its own configuration: it has
\* the section's entries and those of a well-formed version of every file the
\* section names, and nothing left of an earlier load (whitelist/mod.rs:53-74).
WhitelistIsOneLoad ==
    phase = "running" =>
        LET section == ConfAt(listed).whitelist
            paths == {section.files[i] : i \in DOMAIN section.files}
        IN /\ Includes(whitelist, InlineWhitelist(section))
           /\ \A p \in paths : \E k \in listed..Now :
                 Loads(FileAt(k, p)) /\ Includes(whitelist, FileEntries(k, p))
           /\ \A f \in DOMAIN NoWhitelist : \A e \in whitelist[f] :
                 \/ e \in InlineWhitelist(section)[f]
                 \/ \E p \in paths, k \in listed..Now : e \in FileEntries(k, p)[f]

\* A request sees the state move forward only.  The exemption, then the
\* decision, never rest on a configuration older than the one in force when
\* it came, and the whitelist is never older than the configuration that did
\* not skip it: the first store comes first (server.rs:58, 73, 109 against
\* main.rs:97-98).
ReadsMoveForward ==
    \A w \in Worker :
        LET t == worker[w] IN
        /\ t.pc \notin {"idle", "skip"} /\ t.why # "incomplete" =>
              t.since <= t.skipAt
        /\ t.pc \in {"config", "evaluate"} \/ t.why \in {"whitelist", "evaluated"} =>
              t.skipAt <= t.listAt
        /\ t.pc = "evaluate" \/ t.why = "evaluated" => t.skipAt <= t.cfgAt

SkipsAt(k, req) == ConfAt(k) # Bad => SkippedByConfig(ConfAt(k), req)

ListsAt(k, req) ==
    ConfAt(k) # Bad => Matches(InlineWhitelist(ConfAt(k).whitelist), req)

Evaluated(t) == t.pc = "evaluate" \/ t.why = "evaluated"

\* A client whose exemption the operator moves from [skip] or [relay] to
\* [whitelist] is exempt throughout: no request of it is evaluated if, from
\* the configuration in force when it came on, every version exempts it, up to
\* some version by the former and from it on by the latter.  A move in the
\* other direction has a gap, which only a request falls into that has read
\* its configuration from before the move and then the whitelist from after
\* it, that is with the first store of a reload in between (main.rs:97-98
\* against server.rs:58, 73).
ExemptionMovesSeamlessly ==
    \A w \in Worker :
        LET t == worker[w]
            Skipped(from, to) == \A j \in from..to : SkipsAt(j, t.req)
            Listed(from, to) == \A j \in from..to : ListsAt(j, t.req)
        IN Evaluated(t) =>
              \A k \in t.since..(Now + 1) :
                  /\ ~(Skipped(t.since, k - 1) /\ Listed(k, Now))
                  /\ Listed(t.since, k - 1) /\ Skipped(k, Now) =>
                        t.skipAt < k /\ k <= t.listAt

Names(k, path) ==
    ConfAt(k) # Bad /\ \E i \in DOMAIN ConfAt(k).whitelist.files :
                          ConfAt(k).whitelist.files[i] = path

\* No exemption outlives the reload that withdraws it: a request is answered
\* as exempt only if a configuration, not older than the one in force when it
\* came, exempts it, by itself or by what a file it names has said since.
NoStaleExemption ==
    \A w \in Worker :
        LET t == worker[w] IN
        /\ t.why = "skip" =>
              \E k \in t.since..Now :
                  ConfAt(k) # Bad /\ SkippedByConfig(ConfAt(k), t.req)
        /\ t.why = "whitelist" =>
              \E k \in t.since..Now :
                  \/ /\ ConfAt(k) # Bad
                     /\ Matches(InlineWhitelist(ConfAt(k).whitelist), t.req)
                  \/ \E p \in Path, j \in k..Now :
                        Names(k, p) /\ Matches(FileEntries(j, p), t.req)

\* Every request is answered, whatever is reloaded meanwhile.
EveryRequestAnswered ==
    \A w \in Worker : worker[w].pc # "idle" ~> worker[w].pc = "idle"

Broken(k) == ConfAt(k) = Bad \/ \E p \in Path : ~Loads(FileAt(k, p))

\* A SIGHUP sent after an edit leads to a configuration at least as new as that
\* edit, also when it comes in the middle of a reload or after failed ones,
\* unless what was on disk since was itself broken (main.rs:88-109).
SighupTakesEffect ==
    \A n \in 1..MaxDisk :
        (phase = "running" /\ asked = n) ~>
            config >= n \/ \E k \in n..Now : Broken(k)
=============================================================================
