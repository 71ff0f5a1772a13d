-------------------------------- MODULE Intake --------------------------------
(***************************************************************************)
(* A request on its way to the two checks, one step of it at a time:       *)
(*   read      the attributes of a request, in the lines of a client;      *)
(*   match     a whitelist entry, written once in the [whitelist] section  *)
(*             and once in a file, and what a request says of its client;  *)
(*   rewrite   an address as a relay rewrites it and as it arrives;        *)
(*   age       a relay that rewrites an address on one day and an rspfd    *)
(*             that sees it on another.                                    *)
(* The pure modules Request, Exemption and Srs, applied to a set of each.  *)
(***************************************************************************)
EXTENDS Request, Exemption

CONSTANTS Readings,   \* requests, each a sequence of attributes
          Entries,    \* whitelist entries
          Clients,    \* what requests say of their clients
          Locals,     \* local parts of addresses
          StampDays,  \* days of the cycle to rewrite an address on
          Days,       \* days since the epoch
          Secrets,    \* what addresses are signed with
          Configs     \* [srs] sections

\* An attribute as a client means it.  Its name is what precedes the first "="
\* of its line; one name stands for a line without any.
NoEquals == "no equals sign"
Attr == [name : STRING \ {"="}, value : Seq(STRING)]

Label == [word : STRING, caps : BOOLEAN]
Name == Seq(Label) \ {<< >>}

Network == [fam : {"v4", "v6"}, bits : Seq({0, 1})]

NameEntry == [prefix : {"helo", "domain", "ptr"}, value : Name]
NetworkEntry == [prefix : {"ip"}, value : Network]

ClientOf == [client_address      : Network,
             helo_name           : Name,
             sender              : [domain : Name \cup {Missing}],
             reverse_client_name : Name \cup {Missing}]

Forger == "forger"

SrsSectionOf == [enabled : BOOLEAN, secrets : SUBSET Secrets, max_age_days : Nat]

ASSUME ReadingsAssumption == Readings \subseteq Seq(Attr)
ASSUME EntriesAssumption ==
    \A e \in Entries : IF e.prefix = "ip" THEN e \in NetworkEntry ELSE e \in NameEntry
ASSUME ClientsAssumption == Clients \subseteq ClientOf
ASSUME LocalsAssumption == Locals \subseteq Seq(STRING)
ASSUME DaysAssumption ==
    StampDays \subseteq 0..(DAYS_PER_CYCLE - 1) /\ Days \subseteq Nat
ASSUME SecretsAssumption ==
    /\ Secrets \cap {Forger, "nobody"} = {}
    /\ Configs \subseteq SrsSectionOf

VARIABLES input, output

vars == <<input, output>>

-----------------------------------------------------------------------------
(* Read. *)

Written(attrs) ==
    [i \in DOMAIN attrs |->
        IF attrs[i].name = NoEquals THEN <<"word">>
        ELSE <<attrs[i].name, "=">> \o attrs[i].value]

InitRead == \E attrs \in Readings : input = [family |-> "read", attrs |-> attrs]

Reads == /\ input.family = "read" /\ output = None
         /\ output' = Some(FromLines(Written(input.attrs)))
         /\ UNCHANGED input

-----------------------------------------------------------------------------
(* Match. *)

Section(e) ==
    [ips         |-> IF e.prefix = "ip"     THEN {e.value} ELSE {},
     helo_names  |-> IF e.prefix = "helo"   THEN {e.value} ELSE {},
     domains     |-> IF e.prefix = "domain" THEN {e.value} ELSE {},
     domains_ptr |-> IF e.prefix = "ptr"    THEN {e.value} ELSE {}]

NoEntries == [ips |-> {}, helo_names |-> {}, domains |-> {}, domains_ptr |-> {}]

File(e) == [readable |-> TRUE, lines |-> {e}]

InitMatch == \E entry \in Entries, req \in Clients :
                input = [family |-> "match", entry |-> entry, req |-> req]

\* The whitelist with the entry in the section, and the one with it in a file.
Lists == /\ input.family = "match" /\ output = None
         /\ output' = Some([
               inline |-> InlineWhitelist(Section(input.entry)),
               filed  |-> LoadFileInto(InlineWhitelist(NoEntries), File(input.entry))])
         /\ UNCHANGED input

-----------------------------------------------------------------------------
(* Rewrite and age. *)

\* What arrives is the address as it was rewritten, or with its domain or its
\* stamp in lower case.
InitRewrite ==
    \E local \in Locals, day \in StampDays, secret \in Secrets \cup {Forger},
       today \in Days, form \in {"as rewritten", "domain", "stamp"} :
       input = [family |-> "rewrite", local |-> local, day |-> day, secret |-> secret,
                today |-> today, form |-> form]

Stamp(day) == <<BASE32_ALPHABET[(day \div 32) + 1], BASE32_ALPHABET[(day % 32) + 1]>>
LowerStamp(day) == <<LowerAlphabet[(day \div 32) + 1], LowerAlphabet[(day % 32) + 1]>>

Seal == [hash |-> <<"hash">>, secret |-> input.secret,
         text |-> Signed(Stamp(input.day), <<"Dom">>, input.local)]

Rewritten(form) ==
    <<"SRS0", "=", "hash", "=">>
      \o Signed(IF form = "stamp" THEN LowerStamp(input.day) ELSE Stamp(input.day),
                IF form = "domain" THEN <<"dom">> ELSE <<"Dom">>, input.local)
      \o <<"@", "relay">>

Arrived == Rewritten(input.form)

SrsSection == [enabled |-> TRUE, secrets |-> Secrets, max_age_days |-> 21]

Unwraps == /\ input.family = "rewrite" /\ output = None
           /\ output' = Some(SubjectText(Arrived, Seal, SrsSection, input.today))
           /\ UNCHANGED input

InitAge ==
    \E cfg \in Configs, rewritten \in Days, signed_by \in Secrets \cup {Forger},
       decodable \in BOOLEAN, today \in Days :
       input = [family |-> "age", cfg |-> cfg, rewritten |-> rewritten,
                signed_by |-> signed_by, decodable |-> decodable, today |-> today]

Sender == [srs0 |-> TRUE, signed_by |-> input.signed_by,
           timestamp |-> IF input.decodable THEN input.rewritten % DAYS_PER_CYCLE
                                            ELSE Undecodable]

Ages == /\ input.family = "age" /\ output = None
        /\ output' = Some(TryUnwrap(Sender, input.cfg, input.today))
        /\ UNCHANGED input

-----------------------------------------------------------------------------
Init == /\ InitRead \/ InitMatch \/ InitRewrite \/ InitAge
        /\ output = None

Next == Reads \/ Lists \/ Unwraps \/ Ages

Spec == Init /\ [][Next]_vars

Of(family) == input.family = family /\ output # None
-----------------------------------------------------------------------------
(* Reading a request. *)

\* What the client meant by an attribute: its last value.
Meant(name) ==
    LET at == {i \in DOMAIN input.attrs : input.attrs[i].name = name} IN
    IF at = {} THEN None ELSE Some(input.attrs[Max(at)].value)

\* A request is read back as it was meant: in any order of its lines, with
\* values that hold "=" as those of rewritten senders do, with attributes this
\* program does not know and that look like ones it knows, and with an
\* attribute given twice; one line that is no attribute, anywhere, spoils it
\* (request.rs:41-73).
ReadsWhatWasMeant ==
    Of("read") =>
        IF input.attrs = << >> THEN output[1].error = "EmptyRequest"
        ELSE IF \E i \in DOMAIN input.attrs : input.attrs[i].name = NoEquals
        THEN output[1].error = "MalformedLine"
        ELSE /\ output[1].error = "-"
             /\ \A name \in Attribute : output[1].fields[1][name] = Meant(name)

\* A request is looked at whatever its values are, the empty ones included: a
\* bounce has an empty sender, a client may have an empty HELO name.  Only one
\* that lacks an attribute, or whose address does not parse, is answered
\* without a look.  The domain looked at is what follows the last "@", if there
\* is one, and an empty SASL name is that of no login
\* (server.rs:66-67, 94-101, request.rs:76-83).
EmptyIsNotMissing ==
    Of("read") /\ output[1].error = "-" =>
        LET fields == output[1].fields[1] IN
        /\ IsComplete(fields) <=>
              /\ \A name \in {"helo_name", "sender", "client_address"} : Meant(name) # None
              /\ Meant("client_address")[1] \in IpAddr
        /\ IsComplete(fields) =>
              LET sender == Meant("sender")[1]
                  domain == Looked(fields).mail_from_domain
                  at == Len(sender) - Len(domain[1])
              IN /\ domain = None <=> "@" \notin ToSet(sender)
                 /\ domain # None =>
                       /\ at > 0 /\ sender[at] = "@" /\ "@" \notin ToSet(domain[1])
                       /\ domain[1] = SubSeq(sender, at + 1, Len(sender))
                 /\ Looked(fields).sasl_username <=>
                       Meant("sasl_username") \notin {None, Some(<< >>)}

-----------------------------------------------------------------------------
(* Matching a whitelist. *)

Entry == input.entry
Client == input.req
Inline == output[1].inline
Filed == output[1].filed

LowerClient == [Client EXCEPT !.helo_name = Lower(@),
                              !.sender.domain = Lower(@),
                              !.reverse_client_name = Lower(@)]

LowerEntry == IF Entry.prefix = "ip" THEN Entry ELSE [Entry EXCEPT !.value = Lower(@)]

\* The case of a letter, in an entry or in a request, never decides who is
\* exempt: the loads lower the entries and the matches lower the request
\* (whitelist/mod.rs:56-66, 118-126, 150, 173).
CaseNeverMatters ==
    Of("match") =>
        /\ Matches(Inline, Client) = Matches(Inline, LowerClient)
        /\ Matches(Inline, Client) = Matches(InlineWhitelist(Section(LowerEntry)), Client)

\* An entry exempts the same requests from the section and from a file: the
\* two loads are written apart (whitelist/mod.rs:54-67 and 92-137).
FileAndInlineAgree == Of("match") => Matches(Inline, Client) = Matches(Filed, Client)

\* The names above a name in the tree of domains, itself included.
Ancestors(name) == {SubSeq(name, i, Len(name)) : i \in DOMAIN name}

\* A domain entry exempts exactly the requests whose HELO name or sender
\* domain lies in its subtree, a HELO entry exactly the clients of that very
\* name ("this domain or a subdomain of it", config/rspf.toml.example).
EntryCoversItsSubtree ==
    Of("match") =>
        /\ Entry.prefix = "domain" =>
              (Matches(Filed, Client) <=>
                 \/ Lower(Entry.value) \in Ancestors(Lower(Client.helo_name))
                 \/ Lower(Entry.value) \in Ancestors(Lower(Client.sender.domain)))
        /\ Entry.prefix = "helo" =>
              (Matches(Filed, Client) <=> Lower(Entry.value) = Lower(Client.helo_name))

-----------------------------------------------------------------------------
(* Unwrapping an address. *)

\* The original address is put together again from the rewritten one, with
\* "=" in its local part, with any stamp of the cycle; and whatever SPF is
\* evaluated for is that address or the one that arrived.  A local part with a
\* "@", quoted that is, is cut at the wrong place, and left as it is
\* (srs.rs:59-71, 88-90, 101-114).
UnwrapsToTheOriginal ==
    Of("rewrite") =>
        LET original == input.local \o <<"@", "Dom">>
            genuine == /\ input.secret # Forger /\ Arrived = Rewritten("as rewritten")
                       /\ (input.today - input.day) % DAYS_PER_CYCLE <= 21
        IN /\ output[1] \in {original, Arrived}
           /\ output[1] = original => genuine
           /\ genuine /\ Positions(input.local, "@", 1) = {} => output[1] = original

Verdict == output[1]

Genuine == input.cfg.enabled /\ input.signed_by \in input.cfg.secrets /\ input.decodable

Elapsed == input.today - input.rewritten

\* A genuine address is unwrapped on each of the max_age_days days after its
\* rewrite, across the wraps of the cycle too (srs.rs:84-86, 118-121).
GenuineIsUnwrapped ==
    /\ Of("age") /\ Genuine
    /\ Elapsed \in 0..input.cfg.max_age_days
    => Verdict = "Valid"

\* Within one cycle nothing else is: an address past its age, or stamped by a
\* clock ahead of this one, is evaluated as it was received (srs.rs:47-49,
\* 84-86).  A clock ahead shows as an age of almost a cycle, so max_age_days
\* must leave room for it.
OthersFallBack ==
    /\ Of("age") /\ Verdict = "Valid"
    /\ Elapsed \in (1 - DAYS_PER_CYCLE)..(DAYS_PER_CYCLE - 1)
    => \/ Genuine /\ Elapsed \in 0..input.cfg.max_age_days
       \/ Genuine /\ Elapsed < 0 /\ Elapsed + DAYS_PER_CYCLE <= input.cfg.max_age_days

\* Whatever its age, an address is unwrapped only under a secret rspfd has
\* now, and under each of them alike: retiring the relay's old secret stops
\* the addresses it signed, adding a new one stops none (srs.rs:73-79).
OnlyConfiguredSecrets ==
    Of("age") =>
        /\ Verdict = "Valid" => input.signed_by \in input.cfg.secrets
        /\ Verdict # "Valid" =>
              \A s \in input.cfg.secrets :
                  Subject(Sender, [input.cfg EXCEPT !.secrets = @ \ {s}], input.today)
                    = "literal"
        /\ Verdict = "Valid" =>
              \A s \in Secrets :
                  Subject(Sender, [input.cfg EXCEPT !.secrets = @ \cup {s}], input.today)
                    = "original"
=============================================================================
