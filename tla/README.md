# A TLA+ model of rspf

rspf is an SPF policy daemon for Postfix. Postfix connects to it, sends one
policy request per recipient, and the daemon evaluates SPF for the HELO name
and the sender, weighs the two results by its configuration, and answers with
an action. This directory models the daemon in TLA+, checks the model with TLC
and proves theorems about its core with TLAPS.

Paths below are those of the repository.

## The system

| Component | State | Operations | Interacts with | What is hard |
|---|---|---|---|---|
| Process and signals, `rspfd/src/main.rs` | the shutdown token, which handlers are installed | start, SIGTERM/SIGINT, SIGHUP, exit | spawns the signal task and the reload task, calls `run` | signals before the handlers are there; tasks dropped by the exit |
| Listeners, `rspf/src/server.rs` (`run`, `run_*_listener`) | one task per address | bind, accept, stop | share the token; spawn connection tasks | failures of one of several; stale socket files after a crash |
| Connection tasks, `server.rs` (`handle_connection`) with `proto/codec.rs`, `proto/request.rs`, `proto/response.rs` | read buffer, request at hand | read, decode, handle, reply, close | the client's byte stream; the token | requests cut anywhere, pipelined, malformed; hang-ups; a client that does not read |
| Running state, `server.rs` (`AppState`) | two `ArcSwap`s, configuration and whitelist; the evaluator | load, store | written by the reload task, read by every request | two swaps, three reads, no lock |
| Reload task, `main.rs` (`spawn_reload_on_sighup`) | the load under way | wait, load configuration, load files, store both | files on disk, `AppState` | failure half way; files edited meanwhile; signals that coalesce |
| Request handling, `server.rs` (`should_skip`, `handle_request`) | what the request has read so far | exemptions, SRS, two SPF checks, decision | all pure parts below | state read before an await and used after it |
| Exemptions, `whitelist/mod.rs`, `net/cidr_set.rs` | - | load inline entries and files; match | configuration | case, label boundaries, two ways to write an entry |
| SRS, `srs.rs` | - | `try_unwrap` | configuration, the clock | a clock modulo 1024 days; rotation of secrets |
| Decision engine, `engine.rs`, `config/policy.rs` | - | `decide` | configuration, SPF results | HELO against MAIL FROM; errors against policy |
| SPF evaluator, `spf/evaluator.rs`, with `spf/override_resolver.rs` and `spf/resolver.rs` | overrides and limits, copied at the start | `check_helo`, `check_mail_from` | viaspf, DNS | stays behind on a reload; case of override keys |
| Configuration, `config/model.rs`, `config/load.rs` | - | parse, default, validate | files | defaults written twice; placeholders in templates |
| Header, reply, logs, command line: `spf/header.rs`, `proto/response.rs`, `mail_log.rs`, `logging.rs` | - | formatting, output | - | newlines, braces and fallbacks |

What makes each component correct is stated as the properties in the section
on the runs; `PROJECT.json` lists the hazards with the line where each bites.

## The modules

```
Words                                  texts as sequences of tokens, options
  |   \
  |    Request  --- Srs                a request's lines, an SRS address
  |                  |
Reply --- Engine     |                 one decision, its text, its log line
  |                  |
Config --------------+                 the configuration file and its defaults

Config  -->  Decision                  one case to its reply, one file to its configuration

Request, Exemption  -->  Intake        one request read, matched and unwrapped

Engine   Exemption   Srs
    \        |       /
       HotReload                       configuration, whitelist and the requests that read them
           |
        Service  -- implements -->  PolicyService     several lives, lost replies

PolicyStream  <-- implements --  Connection           one connection, byte by byte

Daemon                                 listeners, signals, exit, crash and restart

SpfCheck                               the two SPF checks of a request over the overrides
```

The proofs about a module are in the module of its name with `Proofs`:
`DecisionProofs`, `IntakeProofs`, `HotReloadProofs`, `ServiceProofs` (which extends
the one before), `ConnectionProofs`, `DaemonProofs` and `SpfCheckProofs`. **Basics**
has the lemmas about numbers and sequences that several of them use.

**Words** has what the next three share: a text is a sequence of tokens, the
separators the code looks for and words it does not look into, and an option
is a sequence of one value or none. `SplitOnce` is `str::split_once`,
`NonEmpty` the filter for values that are there and empty.

**Engine** is `decide` as one operator, `Decide`, of the policy, the message
templates, the header mode and the two results, with `classify_severity` as
`ClassifySeverity`. A reply is the record of its verb and what it is made of: a
template is told by the result it belongs to and by the kind of reply code it
begins with.

**Reply** is what becomes of a decision. `ValidatePlaceholders` is the scan that
a load makes of a template, `Render` the five replacements of `render_message`,
one after the other, `BuildReceivedSpf` the header, `ToWire` the reply with its
two newlines, `LogLine` the line in the mail log. `Answer` puts them together
as the second half of `handle_request` does.

**Config** is `Config::load`: `Parse` with the defaults of `config/model.rs`, both
those of a key and those of a whole section, then `Validate`, rule by rule.

**Request** is `PolicyRequest::from_lines` and the reading of its attributes,
`IsComplete` the first lines of `handle_request`, and `SrsParts`,
`DecodeTimestamp` and `SubjectText` the form of an SRS address.

**Decision** and **Intake** put the pure modules to work. Each behaviour is one step:
an input, then what the code makes of it. The inputs of Decision are `Cases` (a
configuration, two outcomes, the names of a request) and `Files`; those of Intake
are requests to read, a whitelist entry and a client to match, an address to
rewrite and to look at later. Both say what an input can be - a name comes from a
line, so that it holds no newline; an address is one that was parsed - and take
the sets themselves as constants, for which `MCDecision` and `MCIntake` give values
and the theorems take any.

**Exemption** is the whitelist: `InlineWhitelist` and `LoadFileInto` build one
as `Whitelist::load` does, `Matches` is `Whitelist::matches`, `SkippedByConfig`
the part of `should_skip` before it. A network is a prefix of bits with an
address family, a name a sequence of labels that remember whether they are
written with capitals.

**Srs** is `try_unwrap`, with its checks in their order. `AgeInDays` is the
modular difference of `age_in_days`. The HMAC is ideal: an address says which
secret its hash was made with.

**HotReload** is the core. `disk` is the history of the files, and a
configuration in memory is the version number it was read at, so that "older"
and "newer" are numbers. The reload task is `loader`: `ReceiveHup`, then
`LoadConfig`, one `LoadFile` per whitelist file, `StoreWhitelist` and
`StoreConfig`, in the order of `main.rs:88-109`; the same steps with `Start` at
the end are the start of the process. The operator's `EditConf` and `EditFile`
may come between any two. A connection task has one action between two loads
or awaits of `handle_request`: `CheckSkip` reads the configuration,
`CheckWhitelist` the whitelist, `LoadDecisionConfig` the configuration once
more, `CheckHelo` and `CheckMailFrom` end in either order, `DecideAction`
applies `Decide` under the configuration read before, `Reply` ends the request.
`since`, `listAt`, `listed`, `asked` and `why` are history: no guard reads them.

**Service** is HotReload over several lives of the process. It adds the evaluator,
which is built at the start and keeps the `[overrides]` and `[spf]` of then, and
what clients see of it all: `Deliver` and `SendFails` are the two ends of
`framed.send`, `Stop` ends the process at any moment, whatever it is doing,
`Restart` begins a new life with nothing in memory. `seen` is the newest
configuration and the newest whitelist an answer has rested on so far, and
`from` what it was when a request came; both are history.

**PolicyService** is what Service promises, with no process, load or memory in it:
only the versions of the files, the requests that wait and the last answers. An
answer follows from versions that were not rejected, read in the order
exemption, whitelist, decision, each no older than the one before it nor than
what any answer had rested on when the request came. A client may lose its
answer and ask again; what it then gets is no step back.
`ImplementsPolicyService` is the refinement, a waiting request standing for the
request of its task.

**PolicyStream** says what a connection promises: its stream stands for a
sequence of requests, defined by where runs of newlines end and without any
buffer; they are answered in order, and the connection is closed only after a
shutdown, a failure, a malformed request, or when a client that hung up has all
its answers. **Connection** is `handle_connection` with the buffer of `Framed`
and the codec: `ReadBytes` takes any number of the bytes under way, `Decode`
cuts at the first blank line, `LinesOf` is the lines between the newlines of what
was cut off, `Send` waits while the socket is full.
`KeepsPromise` is the refinement, with `open` standing for `pc # "closed"`.

**Daemon** is the life of the process. `AwaitListener` awaits the listener tasks
in order, as `run` does; `Exit` drops all tasks; what is left at the addresses
is what the next life finds. `InstallHandler` and `Terminate` race, as they do
in the code. An accept may fail, any number of times: `AcceptFails` and
`AcceptAgain` are the way round the loop, from the `select!` and back to it. A
connection may stay busy for ever, with a client that does not read.

**SpfCheck** is the evaluator over `OverrideLookup`. Each check follows records
from domain to domain, one `Step` per TXT lookup, and the two run at once. Of
viaspf it keeps includes, redirects, verdicts, the lookup limit and the timeout:
what the properties about overrides, bounces and limits need. `HotReload`
takes any outcome of a check instead, which is more than SpfCheck yields.

Operators whose comment begins with "Mutant of" are faulty variants of the
definition that follows, not part of any specification. `PROJECT.json` names
the property each of them violates when it takes that definition's place.

## The runs

| Run | Instance | What it shows |
|---|---|---|
| `decision` | every policy for both identities, both toggles, both header modes and every pair of the seven results; templates of up to four pieces, braces, placeholders and newlines among them, against names that hold a brace or a whole placeholder; every `[header]` section; files in which each section is there, missing, empty or wrong; 290,156 states | HELO only escalates, an identity that is not checked decides nothing, a stricter policy of the order is never milder; an accepted template leaves no placeholder in a reply, and the replacements meddle with each other only where a name brings a placeholder; a reply has its two newlines and the operator's, and no others; the log says what Postfix makes of the reply; an accepted file is one the rest can rely on; a section left out acts as an empty one |
| `decision_not_pass` (violation) | the same | `spf_not_pass` lets errors through while their toggles are off |
| `request` | every sequence of up to four attributes, empty, doubled, unknown, with "=" in them, or with no "=" at all; one whitelist entry of each kind, inline or in a file, in either case, against requests with names of one or two labels; addresses rewritten with any local part of three tokens and as they arrive; every pair of days around two wraps of the cycle, ages allowed of 0, 3, 21 and 1023 days, every set of two secrets; 972,590 states | a request is read as it was meant and looked at unless something is missing; case never matters, file and inline entries agree, a domain covers its subtree exactly; an SRS address is unwrapped to its original exactly while it is genuine and fresh, and secrets rotate |
| `hot_reload` | three configurations and a rejected one, a file that lists the relay, nothing, or does not parse; three versions of the files; one task; 1.7 million states | the safety properties below |
| `hot_reload_live` | a smaller set of configurations, files and requests, for time; 77 385 states | every request is answered; no SIGHUP is lost |
| `service` | the configurations of `hot_reload`, two versions of the files, two connections, two lives; 911 676 states up to exchanging the connections | only a restart renews the evaluator, and Service implements PolicyService |
| `connection` | every stream of at most six bytes of three kinds, in every cut; one unread reply fits the socket; 130 370 states | types, `BufferIsTheRest`, and that Connection implements PolicyStream with its liveness |
| `daemon` | a TCP and a Unix listener, two connections, two lives, every state of the addresses at first, accepts that fail; 8 344 states | the exit status tells the truth, a crash does not keep the next life from listening, SIGTERM always ends the process, also while accepts fail and clients read nothing |
| `spf_check` | two domains with any record that ends or leads to one of them, no record or no answer; no override or one, in either case; every HELO name and sender; 3.2 million states | an overridden domain is never asked for in the DNS, at any depth; a bounce is checked as its HELO name |
| `spf_check_case` (violation) | the same | an override whose key has a capital is never found |
| `daemon_loops`, `daemon_graceful` (violations) | one life | see the findings |

The safety properties of `hot_reload`:

- `InstalledPairMatches`: outside the two stores, the whitelist in force belongs
  to the configuration in force, also after reloads that failed.
- `WhitelistIsOneLoad`: the whitelist in force has the entries of its own
  configuration and of one well-formed version of each file, and no others.
- `ReadsMoveForward`: the three reads of a request never go back in time; for the
  second this rests on the whitelist being stored before the configuration.
- `ExemptionMovesSeamlessly`: a client whose exemption moves from `[skip]` or
  `[relay]` to `[whitelist]` is never evaluated. The opposite move has a gap,
  which the code does not close; the property says that nobody falls into it but
  a request that read its configuration before the move and its whitelist after
  it, with the first store of a reload in between.
- `NoStaleExemption`: a request is exempt only by a configuration or file that
  was in force, or became so, since it came.

Why the bounds are enough. In HotReload connection tasks share only what they
read, so one task per run stands for all; in Service they share what clients
have seen, and two are enough for an answer to one to come between request and
answer of the other. Two versions are the fewest with an edit, before, during
or after a load, and a restart on either; longer histories are what the proofs
are for. With three versions of the files there is one
before, one during and one after a reload that itself overlaps an edit, and a
failed reload between two good ones; the configurations differ in how they
exempt one relay, and by what they do to one that is not exempt. Six bytes hold
two complete requests, a malformed one before or after a good one, and stray
newlines; longer streams repeat these at other places. Two listeners are the
fewest of which one is awaited after the other, and two lives the fewest with a
crash between.

Deadlock is not checked: a process that exited, a closed connection and a
decision that was made stop.

### Fairness

`HotReload` assumes weak fairness of the loads and of each connection task: they
are tasks of the runtime, and each SPF check ends because the evaluator has a
timeout (`evaluator.rs:54`). Operator and clients owe nothing.
`Connection` assumes it of the task, for the same reason, and of the client
reading its replies, as Postfix does; a client that never reads leaves the
task in `send`, where it does not look at the shutdown token. `Daemon` assumes
it of main, the signal task and the listeners, and nothing of connections:
SIGTERM must end the process even when no client moves or reads. It assumes
strong fairness of `StopListening`, since a listener whose accepts fail comes
back to its `select!` again and again without staying there; `tokio::select!`
picks at random among the branches that are ready (`server.rs:197-208`), so that it
does not pass over the token for ever. No accept has to fail or to work.

## What is proved

The theorems hold for all sets of configurations, files, contents, requests,
tasks, outcomes, bytes and addresses, and for every bound on versions, lives, bytes
and replies. Every invariant and action property of the passing runs is a theorem;
`PROJECT.json` lists which theorem states which.

The assumptions are those of the modules. `HotReload` and `Service`: the bounds are
positive, outcomes are SPF results, the configurations have the shape the operators
read, the rejected configuration and the missing request are none of the others.
`Connection`: a newline and an "=" are different bytes, the socket holds at least one
reply. `Daemon`: no address is of both kinds, at least one is listened on, and the
process is started at least once. `SpfCheck`: overrides and the DNS say what a record
can say, the limits are numbers. `Decision` and `Intake`: the inputs are of the kinds
that come out of a parser, and no secret is the forger's.

**Basics.** The library's induction theorems cannot be instantiated here, so every
induction takes the least number for which a statement fails (`Least`, from the
well-foundedness of the numbers). From it come `MinIsLeast` and `MaxIsGreatest`,
induction over an interval of numbers for one set (`Upwards`, `Downwards`), and
the lemmas about `FlattenSeq`: the function it is defined by exists
(`FlattenExists`), each token of the result has one place in one part
(`FlattenPlaces`, `FlattenFrom`), and the first part comes before the others
(`FlattenFirst`).

**HotReloadProofs** proves `Invariance`, `Spec => []IInv` with
`IInv == TypeOK /\ LoadInv /\ TaskInv`, and from it `TypeCorrect`
(`[]TypeOK`), `PairMatches` (`[]InstalledPairMatches`), `ReadsForward`
(`[]ReadsMoveForward`) and `ExemptionsMove` (`[]ExemptionMovesSeamlessly`).
The properties are not inductive. That the pair matches needs to know where the
load stands: `LoadInv` says that a load's configuration is not older than the
one in force and not `Bad`, that the whitelist in force is never older than the
configuration in force, and that each holds at least the inline entries of the
version it belongs to. That exemptions move seamlessly needs what a task knows
at each of its steps: `TaskInv` says that what `CheckSkip` did not exempt, the
configuration it read does not exempt, and that what `CheckWhitelist` did not
match, no inline section of the version it read matches. Then, if every version
up to some `k` skips the client and every one from `k` on lists it, the
configuration read by `CheckSkip` is at least `k`, hence so is the whitelist
read later, which lists it. If it is the other way round, a request that is
evaluated has read a configuration from before `k`, for those from `k` on skip it,
and a whitelist from `k` or later, for those before list it. `LoadFileWidens` and `WiderMatchesMore` are the lemmas
about the whitelist this needs: a file only adds entries, and a larger
whitelist matches more.

It goes on to `OneLoad` (`[]WhitelistIsOneLoad`) and `NoneStale`
(`[]NoStaleExemption`). `OriginInv` follows a load file by file: up to the next
file, the whitelist has what its section and some version of each file say,
and every entry has one of these as its origin. Versions are only added
(`DiskAppends`), so that an origin stays one (`LoadedStable`). `OwedInv` says
of every task which version its answer is owed to; a match has an entry, and
the entry an origin (`MatchHasOrigin`).

**ServiceProofs** takes all this over to Service (`LivesAreSafe`): a step of Service
is one of HotReload, an end or a restart, and the last two keep the invariants.
`ServiceInvariance` adds `LifeInv`, where the evaluator comes from, and
`SeenInv`: what clients have seen is never newer than what is in force, nor,
during a start, than the load under way, since versions on disk only grow; and
no task will answer from anything older than what was seen when its request
came. `ServiceTypes` and `EvaluatorStays` follow.

`Implements` is `ServiceSpec => ImplementsPolicyService`:
initial states map to initial states, and each action of Service to one of
PolicyService (`TakeIsPromised`, `DeliverIsPromised`, `SendFailsIsPromised`,
`RestartIsPromised`, `OperateIsPromised`) or to a step no client sees. The four
ways to an answer are the four reasons `OwedInv` knows.

**ConnectionProofs** proves `ConnectionTypes` (`[]TypeOK`), `BufferRest`
(`[]BufferIsTheRest`) and `StreamKept`, the safety part of `KeepsPromise`: a
behaviour of Connection, however its bytes arrive, begins and moves as PolicyStream
allows. PolicyStream finds the end of a request in the whole stream, after each even
number of newlines in a row; the task finds it in its buffer, as the first
pair of newlines. `StreamInv` ties the two together: while the task looks for the
next request, its buffer is what has arrived since the end of the last one
answered (`NextInv`); while one is at work, it is what follows that one, whose
lines are the ones at hand (`WorkInv`); and the end of the stream is only read
when all of it has been (`EofInv`). `FirstPairEnds` says that the first pair after
an end is the next end, which it takes that no two ends are neighbours
(`NoEndAfterEnd`); `CutGrows` that what the client still writes moves no end that
is there; `LinesAgree` that the codec's lines are the ones PolicyStream reads;
`NothingMore` that a hang-up closes the connection only when no whole request is
left.

**DaemonProofs** proves `DaemonTypes` (`[]TypeOK`) and `StatusTrue`
(`[]StatusIsTrue`) from `DaemonInv`. That the process ends well only after a
shutdown needs `CourseInv`: the listeners before the awaited one are done, and
none is done without a shutdown. That no address is ours without a listener
needs `AddressInv`: a listener is only at the address it was told, and nowhere
once the process has ended. `ExitKeeps` says what every way to an end has in
common.

**SpfCheckProofs** proves `CheckTypes` (`[]TypeOK`), `NeverAsked`
(`[]OverriddenIsNotAsked`) and `BounceAsHelo` (`[]BounceFollowsHelo`), for every set
of domains and whatever loops their records make. The types need that a fold over
the open includes is a result (`FoldIsResult`). What is looked up leads from record
to record and is a name, so that a lookup that was not overridden has no key in
lower case. That a bounce ends as its HELO name does compares two checks that move
at their own pace: `BounceInv` says that both are at some place of one path, which
each step follows the record of, or extends (`PathGrows`); on the path only the
last place is an end.

**DecisionProofs** proves all ten properties of the run `decision`, from
`OneStep`: the output is `Answer`, or `LoadFile`, of the input.

- `HeloEscalates`, `NoCheckIdle`, `CodeMatches` and `StricterNotMilder` are about the
  decision table and rest on the order of the severities (`StricterIsAsSevere`,
  `RankOfDecision`).
- `LogIsTrue` follows a text through the replacements, the header and the log line:
  whatever set of tokens covers what goes in covers what comes out (`RenderKeeps`,
  `HeaderKeeps`, `LineKeeps`). The line is sanitized after that, and its status, a
  word without control characters, is unchanged by it (`Sanitized`).
- `ReplyIsOne` counts newlines. Those of a text before a replacement and those after
  it correspond one to one, each staying at its place in its own part
  (`ReplaceKeepsNewlines`), for the names of a request bring none; hence five
  replacements keep their number (`RenderKeepsNewlines`), a header has those of its
  authserv_id (`HeaderKeepsNewlines`), and the terminator adds two (`TwoAtTheEnd`).
- `TemplateIsFilled` says that `ValidatePlaceholders` is enough. The scan goes from
  brace to brace; `AcceptedIsKnown` shows that a template it accepts has, at every
  brace that is ever closed, a known placeholder. `ReplaceFills` takes one name off
  the list for each replacement, since values hold no brace of their own, and after
  five nothing is left (`RenderFills`).
- `ReplacedAtOnce` says that the five replacements are one pass over the template,
  with what the values themselves come to. `OnePass` fills in a set of names at once;
  a replacement is the pass for one name (`ReplaceIsPass`). A value whose opening
  braces are all closed after one token (`Whole`) combines with nothing it is put next
  to: the pass goes over it by itself (`PassWhole`), and what the pass makes of it is
  such a text again (`PassKeepsWhole`). So a further replacement after the pass for K
  is the pass for K and its name, in which it has also been applied to the values of
  K (`AddsOneMore`). This is shown from the end of the template to its start, by what
  its rest begins with: a placeholder of K (`AddsAtPlaceholder`), another
  placeholder or a token that opens nothing (`PassOther`, `AddsAtToken`), or a brace
  that is never closed, after which nothing starts (`NothingAfter`, `AddsToNone`). Five
  such steps (`FiveAreOnePass`) leave a placeholder in a sender or HELO name to the
  replacements that come later, and to no other. The recursive function of
  `FilledAtOnce` exists and is the pass for all five names (`FillingIsOnePass`). The
  recipient may hold any braces, since it is filled in last.
- `AcceptedServes` and `OmittedIsEmpty` compare `Parse` and `Validate` with what Engine,
  Srs and Reply ask of a configuration.

**IntakeProofs** proves all nine properties of the run `request`, also from a
`OneStep`.

- Reading: a line is cut at its first "=" (`NameIsCut`, `LinesAreCut`), so that the last
  value of a name is what the client meant by it (`ReadAsMeant`), and an empty value
  is one (`EmptyIsLookedAt`).
- Matching: an entry exempts the same clients in either of the two ways to write it
  (`InlineIsListed`, `FiledIsListed`), lower case forgets capitals and nothing else
  (`LowerName`), and to end in a name is to have it as an ancestor
  (`SuffixIsAncestor`); `FileIsSection`, `CaseIsIgnored` and `EntryIsItsSubtree` follow.
- Age: `AgeIs` is the modular difference for every pair of days, which gives
  `GenuineUnwrapped`, `OthersFall` and `OnlyConfigured`.
- SRS addresses: `OriginalComesBack` is the longest argument. An address is cut at
  its first "@", and what is before it at the first three "=" after the prefix
  (`AddressIsCut`, `PartsOfAddress`); the base 32 digits differ, so a stamp stands for its day in
  either case (`DigitsDiffer`, `StampIsItsDay`); and what a relay signed is what is
  found, also when the domain or the stamp arrives in lower case (`ArrivedForm`).

Model-checked only: liveness (`EveryRequestAnswered`, `SighupTakesEffect`,
`SigtermEnds`, `ListensAgain`, and what PolicyStream promises of it within
`KeepsPromise`), which is out of the prover's reach. The violations are
counterexamples and need no proof.

## Findings

Where the code and what is written about it disagree, a run has the trace:

1. `spf_not_pass` does not reject permanent and temporary errors unless their own
   toggles are set (`config/policy.rs:12`, `engine.rs:91-105`).
2. `run` does not notice that a listener failed to bind while an earlier one runs
   (`server.rs:246`, `268-270`).
3. A graceful shutdown drops the requests being handled (`README.md:74`,
   `server.rs:268-271`).
4. A key of `[overrides]` with a capital letter never matches, because only the
   name that is looked up is lowercased (`override_resolver.rs:18`, `46`,
   `server.rs:36`).

Limits of the code that show in the modules, without a run of their own:

- The age of an SRS address is known modulo 1024 days, so one that is older than
  a cycle counts as young again for a part of every cycle (`srs.rs:118-121`);
  what the run `request` shows of other addresses is said within one cycle.
- `remove_file` (`server.rs:222`) does not ask whether the socket is stale: with
  one path listed twice, or a second daemon started, `RemoveSocket` takes the
  address of a listener that still runs, and `ListensAgain` is said of distinct
  addresses.
- A sender or HELO name that holds a placeholder of a later replacement is itself
  filled in (`engine.rs:153-158`). `RenderIsSimultaneous` says by which: the HELO name,
  the address and the recipient in a sender, the last two in a HELO name. It leaves
  out names with an opening brace that is not closed after one token, which could
  make a placeholder together with what follows them.
- A template with a newline ends its reply early (`response.rs:30-35`), and a
  template's reply code is not looked at (`load.rs:85-102`): both are left to
  the operator. `OneReplyPerRequest` says that a reply has the operator's newlines
  and no others, so that it is one line when the text it shows is, and
  `ReplyCodeMatchesVerb` is said of templates with the codes asked for.
- A local part with a quoted "@" is cut at the wrong place and its address left as
  it is (`srs.rs:62`).
- `SrsConfig` derives its default, so that `max_age_days` is 0 without `[srs]` and 21
  with an empty one (`model.rs:159`); since either leaves SRS disabled, nothing
  reads it, which `OmittedSectionsActAsEmpty` shows.
- `[srs]` and `[header]` are among what a reload replaces, although
  `README.md:78` does not list `[srs]`.
- The line in the mail log is written before its reply is sent, so that a line may
  be there whose reply was lost, and its `from=` is the unwrapped sender.
- A comment at the end of a line of a whitelist file is taken as a part of its
  value; an empty value, as in `ptr:`, matches a name that is there and empty.
- `server.test_only` has no effect, and `--check-config` does not load the
  whitelist files.

## Not modelled

TOML and the syntax of addresses (serde), DNS and RFC 7208 evaluation (viaspf,
hickory-resolver) beyond what SpfCheck keeps of them, the wording of messages,
headers and log lines, syslog and tracing, `--check-config` and
`--dump-example-config`, panics and running out of memory. The backlog of a
listening socket is left out: a connection begins when it is accepted. The
whitelist's view of a name with a trailing dot is not told apart from that of
another name. A request without a limit on its length (`codec.rs:27`) has no
property: there is no bound to check. A SIGHUP before its handler is installed
ends the process (`main.rs:80`), which HotReload models; nothing says it should
not.

The request that Service handles is whole, and its reply is one step; how either
is cut into bytes is Connection's. The two are not composed in one instance:
a connection's own order is PolicyStream's, which takes the handling of a
request as one step, and Service takes it in its parts for any number of
connections. SpfCheck is not put into Service either; Service lets a check end
with any outcome, which is more than SpfCheck yields.

## Plan

Theorems that tie the modules to each other: that the outcomes SpfCheck yields
are among those HotReload takes, and that what Config accepts has the shape
HotReload assumes.

## Running

```
tlc -config MCHotReload.cfg MCHotReload
tlapm ServiceProofs.tla
tlapm ConnectionProofs.tla
```

Each `MC*.cfg` belongs to the MC module whose name it begins with. The longest run
takes about a minute or two, each module of proofs a few.
