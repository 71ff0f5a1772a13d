----------------------------- MODULE IntakeProofs -----------------------------
(***************************************************************************)
(* Proofs about Intake, for every request, entry, client, address and day. *)
(***************************************************************************)
EXTENDS Intake, Basics

-----------------------------------------------------------------------------
(* Behaviours: one step, of the family of the input. *)

Reading == input.family = "read" /\ input.attrs \in Seq(Attr)

Matching ==
    /\ input.family = "match"
    /\ IF input.entry.prefix = "ip" THEN input.entry \in NetworkEntry
                                    ELSE input.entry \in NameEntry
    /\ input.req \in ClientOf

Rewriting ==
    /\ input.family = "rewrite"
    /\ input.local \in Seq(STRING) /\ input.day \in 0..(DAYS_PER_CYCLE - 1)
    /\ input.secret \in Secrets \cup {Forger} /\ input.today \in Nat
    /\ input.form \in {"as rewritten", "domain", "stamp"}

Aging ==
    /\ input.family = "age"
    /\ input.cfg \in SrsSectionOf /\ input.rewritten \in Nat
    /\ input.signed_by \in Secrets \cup {Forger} /\ input.decodable \in BOOLEAN
    /\ input.today \in Nat

Result ==
    CASE input.family = "read"    -> FromLines(Written(input.attrs))
      [] input.family = "match"   ->
            [inline |-> InlineWhitelist(Section(input.entry)),
             filed  |-> LoadFileInto(InlineWhitelist(NoEntries), File(input.entry))]
      [] input.family = "rewrite" -> SubjectText(Arrived, Seal, SrsSection, input.today)
      [] input.family = "age"     -> TryUnwrap(Sender, input.cfg, input.today)

Outputs ==
    /\ Reading \/ Matching \/ Rewriting \/ Aging
    /\ output = None \/ output = Some(Result)

\* A request is read, matched, unwrapped or dated, once, and nothing else
\* becomes of it.
THEOREM OneStep == Spec => []Outputs
<1>1. Init => Outputs
    <2> SUFFICES ASSUME Init PROVE Outputs
        OBVIOUS
    <2>1. output = None
        BY DEF Init
    <2>2. InitRead => Reading
        BY ReadingsAssumption DEF InitRead, Reading
    <2>3. InitMatch => Matching
        BY EntriesAssumption, ClientsAssumption DEF InitMatch, Matching
    <2>4. InitRewrite => Rewriting
        <3> SUFFICES ASSUME NEW local \in Locals, NEW day \in StampDays,
                            NEW secret \in Secrets \cup {Forger}, NEW today \in Days,
                            NEW form \in {"as rewritten", "domain", "stamp"},
                            input = [family |-> "rewrite", local |-> local, day |-> day,
                                     secret |-> secret, today |-> today, form |-> form]
                     PROVE  Rewriting
            BY Zenon DEF InitRewrite
        <3>1. /\ input.family = "rewrite" /\ input.local = local /\ input.day = day
              /\ input.secret = secret /\ input.today = today /\ input.form = form
            OBVIOUS
        <3>2. local \in Seq(STRING) /\ day \in 0..(DAYS_PER_CYCLE - 1) /\ today \in Nat
            BY LocalsAssumption, DaysAssumption
        <3> QED
            BY <3>1, <3>2 DEF Rewriting
    <2>5. InitAge => Aging
        BY DaysAssumption, SecretsAssumption DEF InitAge, Aging
    <2> QED
        BY <2>1, <2>2, <2>3, <2>4, <2>5 DEF Init, Outputs
<1>2. Outputs /\ [Next]_vars => Outputs'
    <2> SUFFICES ASSUME Outputs, [Next]_vars PROVE Outputs'
        OBVIOUS
    <2>1. UNCHANGED input
        BY DEF Next, Reads, Lists, Unwraps, Ages, vars
    <2>2. output' = output \/ output' = Some(Result)
        BY DEF Next, Reads, Lists, Unwraps, Ages, vars, Result
    <2>3. Result' = Result
        BY <2>1 DEF Result, Arrived, Rewritten, Seal, Sender
    <2>4. (Reading \/ Matching \/ Rewriting \/ Aging)'
        BY <2>1 DEF Outputs, Reading, Matching, Rewriting, Aging
    <2> HIDE DEF Result
    <2> QED
        BY <2>2, <2>3, <2>4 DEF Outputs
<1> QED
    BY <1>1, <1>2, PTL DEF Spec

LEMMA OutputIs ==
    ASSUME Outputs
    PROVE  /\ Of("read")    => Reading   /\ output[1] = FromLines(Written(input.attrs))
           /\ Of("match")   => Matching  /\ output[1] = Result
           /\ Of("rewrite") => Rewriting
                               /\ output[1] = SubjectText(Arrived, Seal, SrsSection, input.today)
           /\ Of("age")     => Aging /\ output[1] = TryUnwrap(Sender, input.cfg, input.today)
<1>1. output # None => output[1] = Result
    <2> HIDE DEF Result
    <2> QED
        BY DEF Outputs, Some
<1>2. /\ Of("read") => Reading
      /\ Of("match") => Matching
      /\ Of("rewrite") => Rewriting
      /\ Of("age") => Aging
    BY DEF Outputs, Of, Reading, Matching, Rewriting, Aging
<1> QED
    BY <1>1, <1>2 DEF Of, Result

-----------------------------------------------------------------------------
(* The age of an address. *)

LEMMA AgeIs ==
    \A rewritten, today \in Nat :
       LET elapsed == today - rewritten
           age == AgeInDays(rewritten % DAYS_PER_CYCLE, today) IN
       /\ age \in Nat
       /\ elapsed >= 0 => age <= elapsed
       /\ elapsed \in 0..(DAYS_PER_CYCLE - 1) => age = elapsed
       /\ elapsed \in (1 - DAYS_PER_CYCLE)..(-1) => age = elapsed + DAYS_PER_CYCLE
BY DEF AgeInDays, DAYS_PER_CYCLE

\* The age that the stamp of an address shows on the day it is seen.
Age == AgeInDays(input.rewritten % DAYS_PER_CYCLE, input.today)

LEMMA ShownAge ==
    ASSUME input.rewritten \in Nat, input.today \in Nat
    PROVE  /\ Age \in Nat /\ Elapsed \in Int
           /\ Elapsed >= 0 => Age <= Elapsed
           /\ Elapsed \in 0..(DAYS_PER_CYCLE - 1) => Age = Elapsed
           /\ Elapsed \in (1 - DAYS_PER_CYCLE)..(-1) => Age = Elapsed + DAYS_PER_CYCLE
<1> DEFINE r == input.rewritten
           t == input.today
<1>1. r \in Nat /\ t \in Nat
    OBVIOUS
<1>2. Age = AgeInDays(r % DAYS_PER_CYCLE, t) /\ Elapsed = t - r
    BY DEF Age, Elapsed
<1> HIDE DEF r, t
<1>3. t - r \in Int
    BY <1>1
<1> QED
    BY <1>1, <1>2, <1>3, AgeIs

LEMMA StampRange == \A d \in Nat : d % DAYS_PER_CYCLE # Undecodable
BY DEF DAYS_PER_CYCLE, Undecodable

\* The verdict on an address of a family, in a word.
LEMMA VerdictIs ==
    ASSUME Aging, NEW cfg, cfg.enabled \in BOOLEAN
    PROVE  TryUnwrap(Sender, cfg, input.today) = "Valid" <=>
              /\ cfg.enabled /\ input.signed_by \in cfg.secrets /\ input.decodable
              /\ ~(Age > cfg.max_age_days)
<1>1. /\ Sender.srs0 = TRUE /\ Sender.signed_by = input.signed_by
      /\ Sender.timestamp = IF input.decodable THEN input.rewritten % DAYS_PER_CYCLE
                                               ELSE Undecodable
    BY DEF Sender
<1>2. input.rewritten % DAYS_PER_CYCLE # Undecodable
    BY StampRange DEF Aging
<1> QED
    BY <1>1, <1>2, Zenon DEF TryUnwrap, HashOk, Age

LEMMA AgingParts ==
    ASSUME Aging
    PROVE  /\ input.rewritten \in Nat /\ input.today \in Nat
           /\ input.cfg.enabled \in BOOLEAN /\ input.cfg.max_age_days \in Nat
           /\ input.cfg.secrets \in SUBSET Secrets
BY DEF Aging, SrsSectionOf

\* The verdict of the handler itself.
LEMMA VerdictOfAge ==
    ASSUME Outputs, Of("age")
    PROVE  /\ Aging
           /\ Verdict = "Valid" <=> Genuine /\ ~(Age > input.cfg.max_age_days)
<1>1. Aging /\ Verdict = TryUnwrap(Sender, input.cfg, input.today)
    BY OutputIs DEF Verdict
<1>2. input.cfg.enabled \in BOOLEAN
    BY <1>1, AgingParts
<1>3. TryUnwrap(Sender, input.cfg, input.today) = "Valid" <=>
         /\ input.cfg.enabled /\ input.signed_by \in input.cfg.secrets /\ input.decodable
         /\ ~(Age > input.cfg.max_age_days)
    BY <1>1, <1>2, VerdictIs
<1> QED
    BY <1>1, <1>3, Zenon DEF Genuine

\* Every genuine address is unwrapped on each of the days that max_age_days
\* allows, on any day since the epoch and across every wrap of the cycle
\* (srs.rs:84-86, 118-121).
THEOREM GenuineUnwrapped == Spec => []GenuineIsUnwrapped
<1>1. Outputs => GenuineIsUnwrapped
    <2> SUFFICES ASSUME Outputs, Of("age"), Genuine, Elapsed \in 0..input.cfg.max_age_days
                 PROVE  Verdict = "Valid"
        BY DEF GenuineIsUnwrapped
    <2>1. /\ Aging
          /\ Verdict = "Valid" <=> Genuine /\ ~(Age > input.cfg.max_age_days)
        BY VerdictOfAge
    <2>2. /\ input.rewritten \in Nat /\ input.today \in Nat
          /\ input.cfg.max_age_days \in Nat
        BY <2>1, AgingParts
    <2>3. Age \in Nat /\ Elapsed \in Int /\ (Elapsed >= 0 => Age <= Elapsed)
        BY <2>2, ShownAge
    <2>4. ~(Age > input.cfg.max_age_days)
        BY <2>2, <2>3
    <2> QED
        BY <2>1, <2>4
<1> QED
    BY <1>1, OneStep, PTL

\* Within a cycle nothing but a genuine address of an allowed age is
\* unwrapped, or one whose clock is so far ahead that it looks like one
\* (srs.rs:47-49, 84-86).
THEOREM OthersFall == Spec => []OthersFallBack
<1>1. Outputs => OthersFallBack
    <2> SUFFICES ASSUME Outputs, Of("age"), Verdict = "Valid",
                        Elapsed \in (1 - DAYS_PER_CYCLE)..(DAYS_PER_CYCLE - 1)
                 PROVE  \/ Genuine /\ Elapsed \in 0..input.cfg.max_age_days
                        \/ Genuine /\ Elapsed < 0
                           /\ Elapsed + DAYS_PER_CYCLE <= input.cfg.max_age_days
        BY DEF OthersFallBack
    <2>1. Aging /\ Genuine /\ ~(Age > input.cfg.max_age_days)
        BY VerdictOfAge
    <2>2. /\ input.rewritten \in Nat /\ input.today \in Nat
          /\ input.cfg.max_age_days \in Nat
        BY <2>1, AgingParts
    <2>3. /\ Age \in Nat /\ Elapsed \in Int
          /\ Elapsed \in 0..(DAYS_PER_CYCLE - 1) => Age = Elapsed
          /\ Elapsed \in (1 - DAYS_PER_CYCLE)..(-1) => Age = Elapsed + DAYS_PER_CYCLE
        BY <2>2, ShownAge
    <2>4. CASE Elapsed >= 0
        BY <2>1, <2>2, <2>3, <2>4 DEF DAYS_PER_CYCLE
    <2>5. CASE Elapsed < 0
        BY <2>1, <2>2, <2>3, <2>5 DEF DAYS_PER_CYCLE
    <2> QED
        BY <2>3, <2>4, <2>5
<1> QED
    BY <1>1, OneStep, PTL

\* For every set of secrets: an address is unwrapped only under one that rspfd
\* has now, whichever others it has beside it (srs.rs:73-79).
THEOREM OnlyConfigured == Spec => []OnlyConfiguredSecrets
<1>1. Outputs => OnlyConfiguredSecrets
    <2> SUFFICES ASSUME Outputs, Of("age")
                 PROVE  /\ Verdict = "Valid" => input.signed_by \in input.cfg.secrets
                        /\ Verdict # "Valid" =>
                              \A s \in input.cfg.secrets :
                                  Subject(Sender, [input.cfg EXCEPT !.secrets = @ \ {s}],
                                          input.today) = "literal"
                        /\ Verdict = "Valid" =>
                              \A s \in Secrets :
                                  Subject(Sender, [input.cfg EXCEPT !.secrets = @ \cup {s}],
                                          input.today) = "original"
        BY DEF OnlyConfiguredSecrets
    <2>1. Aging /\ Verdict = TryUnwrap(Sender, input.cfg, input.today)
        BY OutputIs DEF Verdict
    <2>2. input.cfg \in SrsSectionOf
        BY <2>1 DEF Aging
    <2>3. \A S : LET cfg == [input.cfg EXCEPT !.secrets = S] IN
                 /\ cfg.enabled = input.cfg.enabled /\ cfg.enabled \in BOOLEAN
                 /\ cfg.secrets = S /\ cfg.max_age_days = input.cfg.max_age_days
        BY <2>2 DEF SrsSectionOf
    <2>4. \A S : LET cfg == [input.cfg EXCEPT !.secrets = S] IN
                 Subject(Sender, cfg, input.today) =
                    IF /\ input.cfg.enabled /\ input.signed_by \in S /\ input.decodable
                       /\ ~(Age > input.cfg.max_age_days)
                    THEN "original" ELSE "literal"
        <3> TAKE S
        <3> DEFINE cfg == [input.cfg EXCEPT !.secrets = S]
        <3>1. /\ cfg.enabled = input.cfg.enabled /\ cfg.enabled \in BOOLEAN
              /\ cfg.secrets = S /\ cfg.max_age_days = input.cfg.max_age_days
            BY <2>3
        <3> HIDE DEF cfg
        <3>2. TryUnwrap(Sender, cfg, input.today) = "Valid" <=>
                 /\ cfg.enabled /\ input.signed_by \in cfg.secrets /\ input.decodable
                 /\ ~(Age > cfg.max_age_days)
            BY <2>1, <3>1, VerdictIs
        <3>3. Subject(Sender, cfg, input.today) =
                 IF TryUnwrap(Sender, cfg, input.today) = "Valid" THEN "original" ELSE "literal"
            BY DEF Subject
        <3>4. Subject(Sender, cfg, input.today) =
                    IF /\ input.cfg.enabled /\ input.signed_by \in S /\ input.decodable
                       /\ ~(Age > input.cfg.max_age_days)
                    THEN "original" ELSE "literal"
            BY <3>1, <3>2, <3>3, Zenon
        <3> QED
            BY <3>4 DEF cfg
    <2>5. Verdict = "Valid" <=>
             /\ input.cfg.enabled /\ input.signed_by \in input.cfg.secrets /\ input.decodable
             /\ ~(Age > input.cfg.max_age_days)
        BY VerdictOfAge, Zenon DEF Genuine
    <2>6. \A s : /\ [input.cfg EXCEPT !.secrets = @ \ {s}]
                       = [input.cfg EXCEPT !.secrets = input.cfg.secrets \ {s}]
                 /\ [input.cfg EXCEPT !.secrets = @ \cup {s}]
                       = [input.cfg EXCEPT !.secrets = input.cfg.secrets \cup {s}]
        OBVIOUS
    <2> QED
        BY <2>4, <2>5, <2>6
<1> QED
    BY <1>1, OneStep, PTL

-----------------------------------------------------------------------------
(* Names, and the whitelist of an entry. *)

LEMMA LowerName ==
    ASSUME NEW n \in Seq(Label)
    PROVE  /\ Lower(n) \in Seq(Label) /\ Len(Lower(n)) = Len(n)
           /\ Lower(Lower(n)) = Lower(n)
           /\ Lower(n) = << >> <=> n = << >>
<1>1. n \in [1..Len(n) -> Label] /\ DOMAIN n = 1..Len(n) /\ Len(n) \in Nat
    OBVIOUS
<1>2. Lower(n) = [i \in 1..Len(n) |-> [n[i] EXCEPT !.caps = FALSE]]
    BY <1>1 DEF Lower
<1>3. \A i \in 1..Len(n) : [n[i] EXCEPT !.caps = FALSE] \in Label
    BY <1>1 DEF Label
<1>4. Lower(n) \in [1..Len(n) -> Label]
    BY <1>2, <1>3
<1>5. Lower(n) \in Seq(Label) /\ Len(Lower(n)) = Len(n)
    BY <1>1, <1>4
<1>6. Lower(Lower(n)) = [i \in 1..Len(n) |-> [Lower(n)[i] EXCEPT !.caps = FALSE]]
    BY <1>4 DEF Lower
<1>7. \A l \in Label : [[l EXCEPT !.caps = FALSE] EXCEPT !.caps = FALSE]
                          = [l EXCEPT !.caps = FALSE]
    BY DEF Label
<1>8. \A i \in 1..Len(n) : [Lower(n)[i] EXCEPT !.caps = FALSE] = [n[i] EXCEPT !.caps = FALSE]
    BY <1>1, <1>2, <1>7
<1>9. Lower(Lower(n)) = Lower(n)
    BY <1>2, <1>6, <1>8
<1> QED
    BY <1>5, <1>9, <1>1, EmptySeq

LEMMA LowerAllOne == LowerAll({}) = {} /\ \A n : LowerAll({n}) = {Lower(n)}
BY DEF LowerAll

LEMMA ValuesOfOne ==
    \A e, p : Values(File(e), p) = IF e.prefix = p THEN {e.value} ELSE {}
<1> SUFFICES ASSUME NEW e, NEW p
             PROVE  Values(File(e), p) = IF e.prefix = p THEN {e.value} ELSE {}
    OBVIOUS
<1>1. File(e).lines = {e}
    BY DEF File
<1>2. Values(File(e), p) = {l.value : l \in {k \in {e} : k.prefix = p}}
    BY <1>1 DEF Values
<1> QED
    BY <1>2

\* The whitelist of an entry, from the section as from a file.
Listed(e) ==
    [ips         |-> IF e.prefix = "ip"     THEN {e.value} ELSE {},
     helo_names  |-> IF e.prefix = "helo"   THEN {Lower(e.value)} ELSE {},
     domains     |-> IF e.prefix = "domain" THEN {Lower(e.value)} ELSE {},
     domains_ptr |-> IF e.prefix = "ptr"    THEN {Lower(e.value)} ELSE {}]

LEMMA InlineIsListed == \A e : InlineWhitelist(Section(e)) = Listed(e)
<1> SUFFICES ASSUME NEW e PROVE InlineWhitelist(Section(e)) = Listed(e)
    OBVIOUS
<1> DEFINE s == Section(e)
<1>1. /\ s.ips = IF e.prefix = "ip" THEN {e.value} ELSE {}
      /\ s.helo_names = IF e.prefix = "helo" THEN {e.value} ELSE {}
      /\ s.domains = IF e.prefix = "domain" THEN {e.value} ELSE {}
      /\ s.domains_ptr = IF e.prefix = "ptr" THEN {e.value} ELSE {}
    BY DEF Section
<1> HIDE DEF s
<1>2. /\ LowerAll(s.helo_names) = IF e.prefix = "helo" THEN {Lower(e.value)} ELSE {}
      /\ LowerAll(s.domains) = IF e.prefix = "domain" THEN {Lower(e.value)} ELSE {}
      /\ LowerAll(s.domains_ptr) = IF e.prefix = "ptr" THEN {Lower(e.value)} ELSE {}
    BY <1>1, LowerAllOne
<1>3. InlineWhitelist(s) = Listed(e)
    BY <1>1, <1>2 DEF InlineWhitelist, Listed
<1> QED
    BY <1>3 DEF s

LEMMA FiledIsListed ==
    \A e : LoadFileInto(InlineWhitelist(NoEntries), File(e)) = Listed(e)
<1> SUFFICES ASSUME NEW e
             PROVE  LoadFileInto(InlineWhitelist(NoEntries), File(e)) = Listed(e)
    OBVIOUS
<1> DEFINE w == InlineWhitelist(NoEntries)
<1>1. w.ips = {} /\ w.helo_names = {} /\ w.domains = {} /\ w.domains_ptr = {}
    BY LowerAllOne DEF InlineWhitelist, NoEntries
<1>2. /\ Values(File(e), "ip") = IF e.prefix = "ip" THEN {e.value} ELSE {}
      /\ LowerAll(Values(File(e), "helo"))
            = IF e.prefix = "helo" THEN {Lower(e.value)} ELSE {}
      /\ LowerAll(Values(File(e), "domain"))
            = IF e.prefix = "domain" THEN {Lower(e.value)} ELSE {}
      /\ LowerAll(Values(File(e), "ptr"))
            = IF e.prefix = "ptr" THEN {Lower(e.value)} ELSE {}
    BY ValuesOfOne, LowerAllOne
<1> HIDE DEF w
<1>3. LoadFileInto(w, File(e)) = Listed(e)
    BY <1>1, <1>2 DEF LoadFileInto, Listed
<1> QED
    BY <1>3 DEF w

LEMMA MatchParts ==
    ASSUME Outputs, Of("match")
    PROVE  Matching /\ Inline = Listed(Entry) /\ Filed = Listed(Entry)
<1>1. Matching /\ output[1] = Result
    BY OutputIs
<1>2. Result = [inline |-> InlineWhitelist(Section(input.entry)),
                filed  |-> LoadFileInto(InlineWhitelist(NoEntries), File(input.entry))]
    BY <1>1 DEF Result, Matching
<1> QED
    BY <1>1, <1>2, InlineIsListed, FiledIsListed DEF Inline, Filed, Entry

\* Whatever the entry, it exempts the same requests from the section and from
\* a file (whitelist/mod.rs:54-67 and 92-137).
THEOREM FileIsSection == Spec => []FileAndInlineAgree
<1>1. Outputs => FileAndInlineAgree
    BY MatchParts, Zenon DEF FileAndInlineAgree
<1> QED
    BY <1>1, OneStep, PTL

\* What the match makes of a client, in the terms of its lowered names.
LEMMA MatchesListed ==
    ASSUME NEW w, NEW c
    PROVE  Matches(w, c) <=>
              \/ InNetworks(w.ips, c.client_address)
              \/ Lower(c.helo_name) \in w.helo_names
              \/ \E d \in w.domains : IsSuffix(d, Lower(c.helo_name))
              \/ /\ c.sender.domain # Missing
                 /\ \E d \in w.domains : IsSuffix(d, Lower(c.sender.domain))
              \/ /\ c.reverse_client_name # Missing
                 /\ \E d \in w.domains_ptr : IsSuffix(d, Lower(c.reverse_client_name))
BY Zenon DEF Matches, MatchesSuffix

LEMMA ClientParts ==
    ASSUME NEW c \in ClientOf
    PROVE  /\ c.helo_name \in Seq(Label) /\ c.helo_name # << >>
           /\ c.sender.domain \in Seq(Label)
           /\ c.reverse_client_name \in Seq(Label)
<1>1. Missing \in Seq(Label) /\ Name \subseteq Seq(Label) /\ << >> \notin Name
    BY DEF Missing, Name
<1> QED
    BY <1>1 DEF ClientOf

\* Case never decides who is exempt, whatever the entry and the client
\* (whitelist/mod.rs:56-66, 118-126, 150, 173).
THEOREM CaseIsIgnored == Spec => []CaseNeverMatters
<1>1. Outputs => CaseNeverMatters
    <2> SUFFICES ASSUME Outputs, Of("match")
                 PROVE  /\ Matches(Inline, Client) = Matches(Inline, LowerClient)
                        /\ Matches(Inline, Client)
                              = Matches(InlineWhitelist(Section(LowerEntry)), Client)
        BY DEF CaseNeverMatters
    <2>1. Matching /\ Inline = Listed(Entry)
        BY MatchParts
    <2>2. Client \in ClientOf
        BY <2>1 DEF Matching, Client
    <2>3. /\ LowerClient.client_address = Client.client_address
          /\ LowerClient.helo_name = Lower(Client.helo_name)
          /\ LowerClient.sender.domain = Lower(Client.sender.domain)
          /\ LowerClient.reverse_client_name = Lower(Client.reverse_client_name)
        BY <2>2 DEF LowerClient, ClientOf
    <2>4. /\ Lower(LowerClient.helo_name) = Lower(Client.helo_name)
          /\ Lower(LowerClient.sender.domain) = Lower(Client.sender.domain)
          /\ Lower(LowerClient.reverse_client_name) = Lower(Client.reverse_client_name)
          /\ LowerClient.sender.domain # Missing <=> Client.sender.domain # Missing
          /\ LowerClient.reverse_client_name # Missing <=> Client.reverse_client_name # Missing
        BY <2>2, <2>3, ClientParts, LowerName DEF Missing
    <2>5. \A w : Matches(w, Client) <=> Matches(w, LowerClient)
        BY <2>3, <2>4, MatchesListed
    <2>6. Listed(LowerEntry) = Listed(Entry)
        <3>1. CASE Entry.prefix = "ip"
            BY <3>1 DEF LowerEntry
        <3>2. CASE Entry.prefix # "ip"
            <4>1. Entry \in NameEntry
                BY <2>1, <3>2 DEF Matching, Entry
            <4>2. Lower(Lower(Entry.value)) = Lower(Entry.value)
                BY <4>1, LowerName DEF NameEntry, Name
            <4>3. LowerEntry.prefix = Entry.prefix /\ LowerEntry.value = Lower(Entry.value)
                BY <4>1, <3>2 DEF LowerEntry, NameEntry
            <4> QED
                BY <3>2, <4>2, <4>3 DEF Listed
        <3> QED
            BY <3>1, <3>2
    <2>7. InlineWhitelist(Section(LowerEntry)) = Inline
        BY <2>1, <2>6, InlineIsListed
    <2>8. \A w, c : Matches(w, c) \in BOOLEAN
        BY Zenon DEF Matches
    <2>9. Matches(Inline, Client) = Matches(Inline, LowerClient)
        BY <2>5, <2>8, Zenon
    <2> QED
        BY <2>7, <2>9, Zenon
<1> QED
    BY <1>1, OneStep, PTL

\* A suffix of a name is one of its ancestors.
LEMMA SuffixIsAncestor ==
    ASSUME NEW S, NEW s \in Seq(S), NEW t \in Seq(S), s # << >>
    PROVE  IsSuffix(s, t) <=> s \in Ancestors(t)
<1> DEFINE m == Len(s)
           n == Len(t)
<1>1. m \in Nat /\ n \in Nat /\ m > 0 /\ DOMAIN t = 1..n
    BY EmptySeq
<1>2. /\ Reverse(s) = [i \in 1..m |-> s[(m - i) + 1]]
      /\ Reverse(t) = [i \in 1..n |-> t[(n - i) + 1]]
    BY DEF Reverse
<1>3. /\ Reverse(s) \in Seq(S) /\ Len(Reverse(s)) = m
      /\ Reverse(t) \in Seq(S) /\ Len(Reverse(t)) = n
    <2>1. \A i \in 1..m : s[(m - i) + 1] \in S
        BY <1>1
    <2>2. \A i \in 1..n : t[(n - i) + 1] \in S
        BY <1>1
    <2> HIDE DEF m, n
    <2> QED
        BY <1>1, <1>2, <2>1, <2>2
<1>4. IsSuffix(s, t) <=> m <= n /\ \A i \in 1..m : s[(m - i) + 1] = t[(n - i) + 1]
    <2>1. CASE m <= n
        <3>1. /\ SubSeq(Reverse(s), 1, m) = [i \in 1..m |-> s[(m - i) + 1]]
              /\ SubSeq(Reverse(t), 1, m) = [i \in 1..m |-> t[(n - i) + 1]]
            BY <1>1, <1>2, <1>3, <2>1, SubSeqProperties
        <3> QED
            BY <1>3, <2>1, <3>1 DEF IsSuffix, IsPrefix
    <2>2. CASE ~(m <= n)
        BY <1>3, <2>2 DEF IsSuffix, IsPrefix
    <2> QED
        BY <2>1, <2>2
<1>5. ASSUME m <= n
      PROVE  /\ SubSeq(t, n - m + 1, n) \in Seq(S) /\ Len(SubSeq(t, n - m + 1, n)) = m
             /\ \A i \in 1..m : SubSeq(t, n - m + 1, n)[i] = t[n - m + i]
    BY <1>1, <1>5
<1>6. ASSUME NEW i \in 1..n, s = SubSeq(t, i, n)
      PROVE  i = n - m + 1
    BY <1>1, <1>6
<1>7. s \in Ancestors(t) <=> m <= n /\ s = SubSeq(t, n - m + 1, n)
    <2>1. Ancestors(t) = {SubSeq(t, i, n) : i \in 1..n}
        BY <1>1, Zenon DEF Ancestors
    <2>2. ASSUME s \in Ancestors(t) PROVE m <= n /\ s = SubSeq(t, n - m + 1, n)
        <3>1. PICK i \in 1..n : s = SubSeq(t, i, n)
            BY <2>1, <2>2
        <3>2. i = n - m + 1
            BY <3>1, <1>6
        <3>3. m <= n
            BY <1>1, <3>2
        <3> QED
            BY <3>1, <3>2, <3>3
    <2>3. ASSUME m <= n, s = SubSeq(t, n - m + 1, n) PROVE s \in Ancestors(t)
        <3>1. n - m + 1 \in 1..n
            BY <1>1, <2>3
        <3> QED
            BY <2>1, <2>3, <3>1, Zenon
    <2> QED
        BY <2>2, <2>3
<1>8. ASSUME m <= n, \A i \in 1..m : s[(m - i) + 1] = t[(n - i) + 1]
      PROVE  s = SubSeq(t, n - m + 1, n)
    <2>1. \A j \in 1..m : s[j] = t[n - m + j]
        <3> TAKE j \in 1..m
        <3>1. m - j + 1 \in 1..m /\ (m - (m - j + 1)) + 1 = j
              /\ (n - (m - j + 1)) + 1 = n - m + j
            BY <1>1
        <3> QED
            BY <1>8, <3>1
    <2> QED
        BY <1>1, <1>5, <1>8, <2>1, SeqEqual
<1>9. ASSUME m <= n, s = SubSeq(t, n - m + 1, n)
      PROVE  \A i \in 1..m : s[(m - i) + 1] = t[(n - i) + 1]
    <2> TAKE i \in 1..m
    <2>1. m - i + 1 \in 1..m /\ n - m + (m - i + 1) = (n - i) + 1
        BY <1>1
    <2> QED
        BY <1>5, <1>9, <2>1
<1> QED
    BY <1>4, <1>7, <1>8, <1>9

\* A domain entry exempts its subtree and nothing else, a HELO entry that very
\* name, for every entry and client ("this domain or a subdomain of it",
\* config/rspf.toml.example, whitelist/mod.rs:150-181).
THEOREM EntryIsItsSubtree == Spec => []EntryCoversItsSubtree
<1>1. Outputs => EntryCoversItsSubtree
    <2> SUFFICES ASSUME Outputs, Of("match")
                 PROVE  /\ Entry.prefix = "domain" =>
                              (Matches(Filed, Client) <=>
                                 \/ Lower(Entry.value) \in Ancestors(Lower(Client.helo_name))
                                 \/ Lower(Entry.value)
                                      \in Ancestors(Lower(Client.sender.domain)))
                        /\ Entry.prefix = "helo" =>
                              (Matches(Filed, Client) <=>
                                  Lower(Entry.value) = Lower(Client.helo_name))
        BY DEF EntryCoversItsSubtree
    <2>1. Matching /\ Filed = Listed(Entry)
        BY MatchParts
    <2>2. Client \in ClientOf
        BY <2>1 DEF Matching, Client
    <2>3. ~InNetworks({}, Client.client_address)
        BY DEF InNetworks
    <2>4. CASE Entry.prefix = "domain"
        <3>1. Entry \in NameEntry
            BY <2>1, <2>4 DEF Matching, Entry
        <3> DEFINE entry == Lower(Entry.value)
                   helo == Lower(Client.helo_name)
                   domain == Lower(Client.sender.domain)
        <3>2. Entry.value \in Seq(Label) /\ Entry.value # << >>
            BY <3>1 DEF NameEntry, Name
        <3>3. entry \in Seq(Label) /\ entry # << >>
            BY <3>2, LowerName
        <3>4. helo \in Seq(Label) /\ domain \in Seq(Label)
            BY <2>2, ClientParts, LowerName
        <3>5. Client.sender.domain = Missing => domain = << >>
            BY <2>2, ClientParts, LowerName DEF Missing
        <3>6. /\ Filed.ips = {} /\ Filed.helo_names = {}
              /\ Filed.domains = {entry} /\ Filed.domains_ptr = {}
            BY <2>1, <2>4 DEF Listed
        <3> HIDE DEF entry, helo, domain
        <3>7. Matches(Filed, Client) <=>
                 \/ IsSuffix(entry, helo)
                 \/ Client.sender.domain # Missing /\ IsSuffix(entry, domain)
            BY <2>3, <3>6, MatchesListed DEF helo, domain
        <3>8. /\ IsSuffix(entry, helo) <=> entry \in Ancestors(helo)
              /\ IsSuffix(entry, domain) <=> entry \in Ancestors(domain)
            BY <3>3, <3>4, SuffixIsAncestor
        <3>9. Ancestors(<< >>) = {}
            BY DEF Ancestors
        <3>10. Matches(Filed, Client) <=>
                  entry \in Ancestors(helo) \/ entry \in Ancestors(domain)
            BY <3>5, <3>7, <3>8, <3>9
        <3> QED
            BY <2>4, <3>10 DEF entry, helo, domain
    <2>5. CASE Entry.prefix = "helo"
        <3>1. /\ Filed.ips = {} /\ Filed.helo_names = {Lower(Entry.value)}
              /\ Filed.domains = {} /\ Filed.domains_ptr = {}
            BY <2>1, <2>5 DEF Listed
        <3>2. Matches(Filed, Client) <=> Lower(Client.helo_name) = Lower(Entry.value)
            BY <2>3, <3>1, MatchesListed
        <3> QED
            BY <2>5, <3>2
    <2> QED
        BY <2>4, <2>5
<1> QED
    BY <1>1, OneStep, PTL

-----------------------------------------------------------------------------
(* Reading a request. *)

\* What texts are made of: the separators, the digits of a stamp, and words.
Token ==
    STRING \cup {"=", "@", "SRS0", "hash", "Dom", "dom", "relay"}
           \cup {BASE32_ALPHABET[i + 1] : i \in 0..31} \cup {LowerAlphabet[i + 1] : i \in 0..31}

LEMMA WordsAreTokens ==
    /\ STRING \subseteq Token
    /\ "=" \in Token
    /\ \A i \in 0..31 : BASE32_ALPHABET[i + 1] \in Token /\ LowerAlphabet[i + 1] \in Token
<1>1. "=" \in Token
    BY DEF Token
<1>2. \A i \in 0..31 : BASE32_ALPHABET[i + 1] \in Token /\ LowerAlphabet[i + 1] \in Token
    BY Zenon DEF Token
<1>3. ASSUME NEW w \in STRING PROVE w \in Token
    BY Zenon DEF Token
<1> QED
    BY <1>1, <1>2, <1>3

LEMMA LargerAlphabet ==
    ASSUME NEW S, NEW T, S \subseteq T
    PROVE  Seq(S) \subseteq Seq(T)
OBVIOUS

\* A line that has a name, an equals sign and a value is cut after the name,
\* whatever the value holds.
LEMMA NameIsCut ==
    ASSUME NEW eq \in Token, NEW n \in Token, n # eq, NEW v \in Seq(Token)
    PROVE  SplitOnce(<<n, eq>> \o v, eq) = Some([before |-> <<n>>, after |-> v])
<1> DEFINE line == <<n, eq>> \o v
           at == Positions(line, eq, 1)
<1>1. /\ line \in Seq(Token) /\ Len(line) = Len(v) + 2 /\ Len(v) \in Nat
      /\ line[1] = n /\ line[2] = eq
      /\ \A i \in 1..Len(v) : line[i + 2] = v[i]
    OBVIOUS
<1> HIDE DEF line
<1>2. at = {i \in 1..Len(line) : line[i] = eq}
    BY DEF Positions
<1>3. at \in SUBSET Nat /\ 2 \in at /\ 1 \notin at /\ 0 \notin at
    BY <1>1, <1>2
<1> HIDE DEF at
<1>4. Min(at) \in at /\ Min(at) <= 2 /\ Min(at) \in Nat
    BY <1>3, MinIsLeast
<1>5. Min(at) = 2
    BY <1>3, <1>4
<1>6. Before(line, 2) = <<n>>
    <2>1. Before(line, 2) = SubSeq(line, 1, 1)
        BY DEF Before
    <2>2. SubSeq(line, 1, 1) \in Seq(Token) /\ Len(SubSeq(line, 1, 1)) = 1
          /\ SubSeq(line, 1, 1)[1] = n
        BY <1>1
    <2> QED
        BY <2>1, <2>2
<1>7. After(line, 2) = v
    <2>1. After(line, 2) = SubSeq(line, 3, Len(line))
        BY <1>1 DEF After
    <2>2. SubSeq(line, 3, Len(line)) \in Seq(Token)
          /\ Len(SubSeq(line, 3, Len(line))) = Len(v)
          /\ \A i \in 1..Len(v) : SubSeq(line, 3, Len(line))[i] = v[i]
        BY <1>1
    <2> QED
        BY <1>1, <2>1, <2>2, SeqEqual
<1>8. SplitOnce(line, eq) = IF at = {} THEN None
        ELSE Some([before |-> Before(line, Min(at)), after |-> After(line, Min(at))])
    BY Zenon DEF SplitOnce, at
<1>9. SplitOnce(line, eq) = Some([before |-> <<n>>, after |-> v])
    BY <1>3, <1>5, <1>6, <1>7, <1>8
<1> QED
    BY <1>9 DEF line

LEMMA WordIsNotCut ==
    ASSUME NEW w, NEW eq, w # eq
    PROVE  SplitOnce(<<w>>, eq) = None
<1>1. Positions(<<w>>, eq, 1) = {}
    BY DEF Positions
<1> QED
    BY <1>1 DEF SplitOnce

LEMMA SomeIsOne ==
    /\ \A v : Some(v) # None /\ Some(v)[1] = v
    /\ \A v, w : Some(v) = Some(w) <=> v = w
BY DEF Some, None

\* The lines of a request, one by one.
LEMMA LinesAreCut ==
    ASSUME NEW attrs \in Seq(Attr), NEW i \in DOMAIN attrs
    PROVE  /\ HasNoEquals(Written(attrs)[i]) <=> attrs[i].name = NoEquals
           /\ attrs[i].name # NoEquals =>
                 SplitOnce(Written(attrs)[i], "=")
                   = Some([before |-> <<attrs[i].name>>, after |-> attrs[i].value])
<1> DEFINE n == attrs[i].name
           v == attrs[i].value
           eq == "="
           line == Written(attrs)[i]
<1>1. attrs[i] \in Attr
    OBVIOUS
<1>2. n \in Token /\ n # eq /\ v \in Seq(Token) /\ eq \in Token
    <2>1. n \in STRING /\ n # eq /\ v \in Seq(STRING)
        BY <1>1 DEF Attr
    <2>2. STRING \subseteq Token /\ eq \in Token
        BY WordsAreTokens
    <2> HIDE DEF n, v, eq
    <2>3. v \in Seq(Token)
        BY <2>1, <2>2, LargerAlphabet, Zenon
    <2> QED
        BY <2>1, <2>2, <2>3
<1>3. line = IF n = NoEquals THEN <<"word">> ELSE <<n, eq>> \o v
    BY DEF Written
<1> HIDE DEF n, v, line
<1>4. SplitOnce(<<"word">>, eq) = None
    BY WordIsNotCut
<1>5. n # NoEquals => SplitOnce(line, eq) = Some([before |-> <<n>>, after |-> v])
    <2> HIDE DEF eq
    <2> QED
        BY <1>2, <1>3, NameIsCut
<1>6. HasNoEquals(line) <=> n = NoEquals
    BY <1>3, <1>4, <1>5, SomeIsOne DEF HasNoEquals
<1> QED
    BY <1>5, <1>6 DEF n, v, line

\* What is read of a request whose lines all are attributes.
LEMMA FieldIsMeant ==
    ASSUME Reading, \A i \in DOMAIN input.attrs : input.attrs[i].name # NoEquals, NEW name
    PROVE  Field(Written(input.attrs), name) = Meant(name)
<1> DEFINE attrs == input.attrs
           lines == Written(attrs)
           at == {i \in DOMAIN lines : SplitOnce(lines[i], "=")[1].before = <<name>>}
           meant == {i \in DOMAIN attrs : attrs[i].name = name}
<1>1. attrs \in Seq(Attr) /\ DOMAIN attrs = 1..Len(attrs) /\ Len(attrs) \in Nat
    BY DEF Reading
<1>2. DOMAIN lines = DOMAIN attrs
    BY DEF Written
<1>3. \A i \in DOMAIN attrs :
         /\ SplitOnce(lines[i], "=")[1].before = <<attrs[i].name>>
         /\ SplitOnce(lines[i], "=")[1].after = attrs[i].value
    <2> TAKE i \in DOMAIN attrs
    <2>1. SplitOnce(lines[i], "=")
             = Some([before |-> <<attrs[i].name>>, after |-> attrs[i].value])
        BY <1>1, LinesAreCut
    <2> HIDE DEF attrs, lines
    <2> QED
        BY <2>1, SomeIsOne
<1>4. at = meant
    <2>1. \A i \in DOMAIN attrs :
             SplitOnce(lines[i], "=")[1].before = <<name>> <=> attrs[i].name = name
        <3>1. \A n : <<n>> = <<name>> <=> n = name
            OBVIOUS
        <3> HIDE DEF attrs, lines
        <3> QED
            BY <1>3, <3>1
    <2> HIDE DEF attrs, lines
    <2> QED
        BY <1>2, <2>1
<1>5. meant # {} => Max(meant) \in DOMAIN attrs
    <2>1. meant \in SUBSET (0..Len(attrs))
        BY <1>1
    <2> HIDE DEF meant
    <2>2. meant # {} => Max(meant) \in meant
        BY <1>1, <2>1, MaxIsGreatest
    <2> QED
        BY <2>2 DEF meant
<1>6. Field(lines, name)
        = IF at = {} THEN None ELSE Some(SplitOnce(lines[Max(at)], "=")[1].after)
    BY Zenon DEF Field
<1>7. Meant(name) = IF meant = {} THEN None ELSE Some(attrs[Max(meant)].value)
    BY Zenon DEF Meant
<1> HIDE DEF at, meant, attrs, lines
<1>8. Field(lines, name) = Meant(name)
    BY <1>3, <1>4, <1>5, <1>6, <1>7
<1> QED
    BY <1>8 DEF attrs, lines

\* A value that was meant is a text.
LEMMA MeantIsText ==
    ASSUME Reading, NEW name
    PROVE  Meant(name) # None => /\ Meant(name)[1] \in Seq(STRING)
                                 /\ Meant(name) = Some(Meant(name)[1])
<1> DEFINE attrs == input.attrs
           meant == {i \in DOMAIN attrs : attrs[i].name = name}
<1>1. attrs \in Seq(Attr) /\ DOMAIN attrs = 1..Len(attrs) /\ Len(attrs) \in Nat
    BY DEF Reading
<1>2. meant \in SUBSET (0..Len(attrs)) /\ meant \subseteq DOMAIN attrs
    BY <1>1
<1>3. Meant(name) = IF meant = {} THEN None ELSE Some(attrs[Max(meant)].value)
    BY Zenon DEF Meant
<1>4. \A i \in DOMAIN attrs : attrs[i].value \in Seq(STRING)
    <2>1. \A i \in DOMAIN attrs : attrs[i] \in Attr
        BY <1>1
    <2>2. \A a \in Attr : a.value \in Seq(STRING)
        BY DEF Attr
    <2> HIDE DEF attrs
    <2> QED
        BY <2>1, <2>2
<1> HIDE DEF meant, attrs
<1>5. meant # {} => Max(meant) \in DOMAIN attrs
    BY <1>1, <1>2, MaxIsGreatest
<1> QED
    BY <1>3, <1>4, <1>5, SomeIsOne

LEMMA WhatIsRead ==
    ASSUME Outputs, Of("read")
    PROVE  /\ Reading
           /\ input.attrs = << >> => output[1].error = "EmptyRequest"
           /\ input.attrs # << >> /\ (\E i \in DOMAIN input.attrs :
                                          input.attrs[i].name = NoEquals)
                 => output[1].error = "MalformedLine"
           /\ input.attrs # << >> /\ (\A i \in DOMAIN input.attrs :
                                          input.attrs[i].name # NoEquals)
                 => /\ output[1].error = "-"
                    /\ output[1].fields = Some([name \in Attribute |-> Meant(name)])
<1> DEFINE attrs == input.attrs
           lines == Written(attrs)
<1>1. Reading /\ output[1] = FromLines(lines)
    BY OutputIs
<1>2. attrs \in Seq(Attr)
    BY <1>1 DEF Reading
<1>3. DOMAIN lines = DOMAIN attrs
    BY DEF Written
<1>4. lines = << >> <=> attrs = << >>
    BY <1>2, <1>3
<1>5. \A i \in DOMAIN attrs : HasNoEquals(lines[i]) <=> attrs[i].name = NoEquals
    BY <1>2, LinesAreCut
<1>6. (\A i \in DOMAIN attrs : attrs[i].name # NoEquals)
         => \A name : Field(lines, name) = Meant(name)
    BY <1>1, FieldIsMeant
<1> HIDE DEF attrs, lines
<1>7. attrs = << >> => output[1].error = "EmptyRequest"
    BY <1>1, <1>4 DEF FromLines
<1>8. attrs # << >> /\ (\E i \in DOMAIN attrs : attrs[i].name = NoEquals)
         => output[1].error = "MalformedLine"
    BY <1>1, <1>3, <1>4, <1>5 DEF FromLines
<1>9. attrs # << >> /\ (\A i \in DOMAIN attrs : attrs[i].name # NoEquals)
         => /\ output[1].error = "-"
            /\ output[1].fields = Some([name \in Attribute |-> Meant(name)])
    <2> SUFFICES ASSUME attrs # << >>, \A i \in DOMAIN attrs : attrs[i].name # NoEquals
                 PROVE  /\ output[1].error = "-"
                        /\ output[1].fields = Some([name \in Attribute |-> Meant(name)])
        OBVIOUS
    <2>1. FromLines(lines)
            = [error |-> "-", fields |-> Some([name \in Attribute |-> Field(lines, name)])]
        BY <1>3, <1>4, <1>5 DEF FromLines
    <2>2. [name \in Attribute |-> Field(lines, name)] = [name \in Attribute |-> Meant(name)]
        BY <1>6
    <2> QED
        BY <1>1, <2>1, <2>2
<1> QED
    BY <1>1, <1>7, <1>8, <1>9 DEF attrs

\* Whatever a client sends, in any number and order of lines, is read as it
\* meant it (request.rs:41-73).
THEOREM ReadAsMeant == Spec => []ReadsWhatWasMeant
<1>1. Outputs => ReadsWhatWasMeant
    <2> SUFFICES ASSUME Outputs, Of("read")
                 PROVE  IF input.attrs = << >> THEN output[1].error = "EmptyRequest"
                        ELSE IF \E i \in DOMAIN input.attrs : input.attrs[i].name = NoEquals
                        THEN output[1].error = "MalformedLine"
                        ELSE /\ output[1].error = "-"
                             /\ \A name \in Attribute :
                                   output[1].fields[1][name] = Meant(name)
        BY DEF ReadsWhatWasMeant
    <2>1. CASE input.attrs = << >>
        BY <2>1, WhatIsRead
    <2>2. CASE input.attrs # << >> /\ \E i \in DOMAIN input.attrs :
                                         input.attrs[i].name = NoEquals
        BY <2>2, WhatIsRead
    <2>3. CASE input.attrs # << >> /\ \A i \in DOMAIN input.attrs :
                                         input.attrs[i].name # NoEquals
        <3>1. /\ output[1].error = "-"
              /\ output[1].fields = Some([name \in Attribute |-> Meant(name)])
            BY <2>3, WhatIsRead
        <3>2. output[1].fields[1] = [name \in Attribute |-> Meant(name)]
            BY <3>1, SomeIsOne
        <3>3. \A name \in Attribute : output[1].fields[1][name] = Meant(name)
            BY <3>2
        <3> QED
            BY <2>3, <3>1, <3>3
    <2> QED
        BY <2>1, <2>2, <2>3
<1> QED
    BY <1>1, OneStep, PTL

\* The domain of an address is what follows its last separator, if it has one.
LEMMA DomainIsTheTail ==
    ASSUME NEW address \in Seq(STRING)
    PROVE  LET domain == AfterLastAt(address)
               at == Len(address) - Len(domain[1])
           IN /\ domain = None <=> "@" \notin ToSet(address)
              /\ domain # None =>
                    /\ at > 0 /\ address[at] = "@" /\ "@" \notin ToSet(domain[1])
                    /\ domain[1] = SubSeq(address, at + 1, Len(address))
<1> DEFINE sep == "@"
           n == Len(address)
           ats == Positions(address, sep, 1)
           m == Max(ats)
           tail == SubSeq(address, m + 1, n)
           domain == AfterLastAt(address)
<1>1. n \in Nat /\ DOMAIN address = 1..n
    OBVIOUS
<1>2. ats = {i \in 1..n : address[i] = sep}
    BY DEF Positions
<1>3. domain = IF ats = {} THEN None ELSE Some(tail)
    BY Zenon DEF AfterLastAt, After
<1>4. ToSet(address) = {address[i] : i \in 1..n}
    BY <1>1 DEF ToSet
<1> HIDE DEF sep, ats, domain
<1>5. ats = {} <=> sep \notin ToSet(address)
    BY <1>2, <1>4
<1>6. domain = None <=> sep \notin ToSet(address)
    BY <1>3, <1>5, SomeIsOne
<1>7. ASSUME domain # None
      PROVE  LET at == n - Len(domain[1]) IN
             /\ at > 0 /\ address[at] = sep /\ sep \notin ToSet(domain[1])
             /\ domain[1] = SubSeq(address, at + 1, n)
    <2>1. ats # {} /\ domain[1] = tail
        BY <1>3, <1>7, SomeIsOne
    <2>2. ats \in SUBSET (0..n)
        BY <1>2
    <2>3. m \in ats /\ \A i \in ats : m >= i
        <3> HIDE DEF n
        <3> QED
            BY <1>1, <2>1, <2>2, MaxIsGreatest
    <2>4. m \in 1..n /\ address[m] = sep
        BY <1>2, <2>3
    <2>5. \A i \in (m + 1)..n : address[i] # sep
        <3> SUFFICES ASSUME NEW i \in (m + 1)..n, address[i] = sep PROVE FALSE
            OBVIOUS
        <3> HIDE DEF m
        <3>1. i \in ats
            BY <1>1, <1>2, <2>4
        <3>2. m >= i
            BY <2>3, <3>1
        <3> QED
            BY <1>1, <2>4, <3>2
    <2> HIDE DEF m
    <2>6. /\ Len(tail) = n - m /\ DOMAIN tail = 1..(n - m)
          /\ \A i \in 1..(n - m) : tail[i] = address[m + i]
        <3>1. m + 1 \in Int /\ n \in Int /\ n - (m + 1) + 1 = n - m /\ n - m \in Nat
              /\ \A i \in 1..(n - m) : (m + 1) + i - 1 = m + i
            BY <1>1, <2>4
        <3>2. \A i \in (m + 1)..n : address[i] \in STRING
            BY <1>1, <2>4
        <3> HIDE DEF n
        <3>3. /\ tail \in Seq(STRING)
              /\ Len(tail) = IF m + 1 <= n THEN n - (m + 1) + 1 ELSE 0
              /\ \A i \in 1..(n - (m + 1) + 1) : tail[i] = address[(m + 1) + i - 1]
            BY <3>1, <3>2, SubSeqProperties
        <3> HIDE DEF tail
        <3>4. Len(tail) = n - m
            BY <1>1, <2>4, <3>1, <3>3
        <3> QED
            BY <3>1, <3>3, <3>4
    <2> HIDE DEF tail, n
    <2>7. \A i \in 1..(n - m) : m + i \in (m + 1)..n
        BY <1>1, <2>4
    <2>8. \A i \in 1..(n - m) : tail[i] # sep
        BY <2>5, <2>6, <2>7
    <2>9. sep \notin ToSet(tail)
        BY <2>6, <2>8 DEF ToSet
    <2>10. n - Len(tail) = m
        BY <1>1, <2>4, <2>6
    <2>11. n - Len(domain[1]) = m
        BY <2>1, <2>10
    <2>12. domain[1] = SubSeq(address, (n - Len(domain[1])) + 1, n)
        BY <2>1, <2>11, Zenon DEF tail
    <2>13. m > 0
        BY <1>1, <2>4
    <2>14. sep \notin ToSet(domain[1])
        BY <2>1, <2>9, Zenon
    <2> QED
        BY <2>4, <2>11, <2>12, <2>13, <2>14, Zenon
<1> QED
    BY <1>6, <1>7 DEF domain, sep

\* A request is looked at for what it lacks and never for what is empty, and
\* the domain looked at is that of its sender, for every request
\* (server.rs:66-67, 94-101, request.rs:76-83).
THEOREM EmptyIsLookedAt == Spec => []EmptyIsNotMissing
<1>1. Outputs => EmptyIsNotMissing
    <2> SUFFICES ASSUME Outputs, Of("read"), output[1].error = "-"
                 PROVE  EmptyIsNotMissing
        BY DEF EmptyIsNotMissing
    <2> DEFINE fields == output[1].fields[1]
               sender == Meant("sender")[1]
    <2>1. Reading /\ fields = [name \in Attribute |-> Meant(name)]
        <3>1. /\ Reading
              /\ output[1].fields = Some([name \in Attribute |-> Meant(name)])
            <4>1. "EmptyRequest" # "-" /\ "MalformedLine" # "-"
                OBVIOUS
            <4> QED
                BY <4>1, WhatIsRead, Zenon
        <3> QED
            BY <3>1, SomeIsOne
    <2> HIDE DEF fields
    <2>2. /\ fields["helo_name"] = Meant("helo_name")
          /\ fields["sender"] = Meant("sender")
          /\ fields["client_address"] = Meant("client_address")
          /\ fields["sasl_username"] = Meant("sasl_username")
        BY <2>1 DEF Attribute
    <2>3. ClientIp(fields) = "-" <=>
             /\ Meant("client_address") # None
             /\ Meant("client_address")[1] \in IpAddr
        BY <2>2 DEF ClientIp
    <2>4. IsComplete(fields) <=>
             /\ \A name \in {"helo_name", "sender", "client_address"} : Meant(name) # None
             /\ Meant("client_address")[1] \in IpAddr
        BY <2>2, <2>3 DEF IsComplete
    <2>5. /\ Looked(fields).mail_from_domain = AfterLastAt(sender)
          /\ Looked(fields).sasl_username <=>
                Meant("sasl_username") \notin {None, Some(<< >>)}
        <3>1. /\ Looked(fields).mail_from_domain = AfterLastAt(fields["sender"][1])
              /\ Looked(fields).sasl_username = (NonEmpty(fields["sasl_username"]) # None)
            BY DEF Looked
        <3>2. NonEmpty(Meant("sasl_username")) # None <=>
                 Meant("sasl_username") \notin {None, Some(<< >>)}
            BY SomeIsOne DEF NonEmpty
        <3> QED
            BY <2>2, <3>1, <3>2
    <2>6. ASSUME IsComplete(fields)
          PROVE  LET domain == AfterLastAt(sender)
                     at == Len(sender) - Len(domain[1])
                 IN /\ domain = None <=> "@" \notin ToSet(sender)
                    /\ domain # None =>
                          /\ at > 0 /\ sender[at] = "@" /\ "@" \notin ToSet(domain[1])
                          /\ domain[1] = SubSeq(sender, at + 1, Len(sender))
        <3>1. sender \in Seq(STRING)
            BY <2>1, <2>4, <2>6, MeantIsText
        <3> HIDE DEF sender
        <3> QED
            BY <3>1, DomainIsTheTail
    <2> QED
        BY <2>4, <2>5, <2>6, Zenon DEF EmptyIsNotMissing, fields
<1> QED
    BY <1>1, OneStep, PTL

-----------------------------------------------------------------------------
(* Unwrapping an address. *)

LEMMA ConcatParts ==
    ASSUME NEW u \in Seq(Token), NEW v \in Seq(Token)
    PROVE  /\ u \o v \in Seq(Token) /\ Len(u \o v) = Len(u) + Len(v)
           /\ \A i \in 1..Len(u) : (u \o v)[i] = u[i]
           /\ \A i \in 1..Len(v) : (u \o v)[i + Len(u)] = v[i]
OBVIOUS

LEMMA TailParts ==
    ASSUME NEW s \in Seq(Token), NEW m \in 1..Len(s)
    PROVE  /\ SubSeq(s, m, Len(s)) \in Seq(Token)
           /\ Len(SubSeq(s, m, Len(s))) = Len(s) - m + 1
           /\ \A i \in 1..(Len(s) - m + 1) : SubSeq(s, m, Len(s))[i] = s[(m - 1) + i]
<1>1. m \in Int /\ Len(s) \in Int /\ \A i \in m..Len(s) : s[i] \in Token
    OBVIOUS
<1>2. /\ SubSeq(s, m, Len(s)) \in Seq(Token)
      /\ Len(SubSeq(s, m, Len(s))) = IF m <= Len(s) THEN Len(s) - m + 1 ELSE 0
      /\ \A i \in 1..(Len(s) - m + 1) : SubSeq(s, m, Len(s))[i] = s[m + i - 1]
    BY <1>1, SubSeqProperties
<1>3. \A i \in 1..(Len(s) - m + 1) : m + i - 1 = (m - 1) + i
    BY <1>1
<1> QED
    BY <1>2, <1>3

\* A text is cut at the first of a token.
CutsAs(text, c, u, v) ==
    /\ u \in Seq(Token) /\ v \in Seq(Token) /\ text \in Seq(Token)
    /\ Len(text) = Len(u) + 1 + Len(v)
    /\ \A i \in 1..Len(u) : text[i] = u[i] /\ u[i] # c
    /\ text[Len(u) + 1] = c
    /\ \A i \in 1..Len(v) : text[Len(u) + 1 + i] = v[i]

LEMMA CutAtFirst ==
    ASSUME NEW c, NEW u, NEW v, NEW text, CutsAs(text, c, u, v)
    PROVE  SplitOnce(text, c) = Some([before |-> u, after |-> v])
<1> DEFINE n == Len(u)
           at == Positions(text, c, 1)
<1> USE DEF CutsAs
<1>1. n \in Nat /\ Len(v) \in Nat /\ Len(text) = n + 1 + Len(v)
    OBVIOUS
<1>2. at = {i \in 1..Len(text) : text[i] = c}
    BY DEF Positions
<1>3. at \in SUBSET Nat /\ n + 1 \in at /\ \A i \in at : i > n
    <2>1. at \in SUBSET Nat /\ n + 1 \in at
        BY <1>1, <1>2
    <2>2. \A i \in 1..n : text[i] # c
        OBVIOUS
    <2> HIDE DEF at, n
    <2>3. \A i \in at : i \notin 1..n /\ i \in 1..Len(text)
        BY <1>2, <2>2
    <2> QED
        BY <1>1, <2>1, <2>3
<1> HIDE DEF at
<1>4. Min(at) \in at /\ Min(at) <= n + 1 /\ Min(at) \in Nat
    BY <1>3, MinIsLeast
<1>5. Min(at) = n + 1
    BY <1>1, <1>3, <1>4
<1>6. Before(text, n + 1) = u
    <2>1. Before(text, n + 1) = SubSeq(text, 1, n)
        BY <1>1 DEF Before
    <2>2. /\ SubSeq(text, 1, n) \in Seq(Token) /\ Len(SubSeq(text, 1, n)) = n
          /\ \A i \in 1..n : SubSeq(text, 1, n)[i] = u[i]
        BY <1>1
    <2> QED
        BY <2>1, <2>2, SeqEqual
<1>7. After(text, n + 1) = v
    <2> DEFINE w == SubSeq(text, n + 2, Len(text))
    <2>1. After(text, n + 1) = w
        BY <1>1 DEF After
    <2>2. w \in Seq(Token) /\ Len(w) = Len(v) /\ \A i \in 1..Len(v) : w[i] = text[n + 1 + i]
        BY <1>1
    <2> HIDE DEF w
    <2>3. w = v
        BY <1>1, <2>2, SeqEqual
    <2> QED
        BY <2>1, <2>3
<1>8. SplitOnce(text, c) = IF at = {} THEN None
        ELSE Some([before |-> Before(text, Min(at)), after |-> After(text, Min(at))])
    BY Zenon DEF SplitOnce, at
<1> QED
    BY <1>3, <1>5, <1>6, <1>7, <1>8

\* What precedes the first of a token in a text, all of it if there is none.
LEMMA FirstPart ==
    ASSUME NEW c \in Token, NEW text \in Seq(Token)
    PROVE  \E k \in 0..Len(text) :
              /\ \A i \in 1..k : text[i] # c
              /\ k = Len(text) \/ text[k + 1] = c
              /\ k = Len(text) <=> Positions(text, c, 1) = {}
<1> DEFINE at == Positions(text, c, 1)
<1>1. at = {i \in 1..Len(text) : text[i] = c} /\ Len(text) \in Nat
    BY DEF Positions
<1> HIDE DEF at
<1>2. CASE at = {}
    BY <1>1, <1>2 DEF at
<1>3. CASE at # {}
    <2>1. at \in SUBSET Nat
        BY <1>1
    <2>2. PICK m \in at : \A i \in at : m <= i
        BY <1>3, <2>1, Least
    <2>3. m \in 1..Len(text) /\ text[m] = c
        BY <1>1, <2>2
    <2>4. \A i \in 1..(m - 1) : text[i] # c
        BY <1>1, <2>2, <2>3
    <2>5. m - 1 \in 0..Len(text) /\ m - 1 # Len(text) /\ (m - 1) + 1 = m
        BY <1>1, <2>3
    <2> QED
        BY <1>3, <2>3, <2>4, <2>5 DEF at
<1> QED
    BY <1>2, <1>3

LEMMA DigitsDiffer ==
    \A i, j \in 0..31 : BASE32_ALPHABET[i + 1] \in {BASE32_ALPHABET[j + 1], LowerAlphabet[j + 1]}
                           => i = j
BY SMTT(120) DEF BASE32_ALPHABET, LowerAlphabet

LEMMA DigitsAreDigits ==
    \A i \in 0..31 : \A c \in {BASE32_ALPHABET[i + 1], LowerAlphabet[i + 1]} :
       c # "=" /\ c # "@"
BY SMTT(60) DEF BASE32_ALPHABET, LowerAlphabet

\* The tokens of an address, by name: what they are does not matter.
Equals == "="
Sign == "@"
Tag == "SRS0"
Hash == "hash"
Relay == "relay"
Dom == "Dom"

LEMMA Separators ==
    /\ Equals \in Token /\ Sign \in Token /\ Tag \in Token /\ Hash \in Token
    /\ Relay \in Token /\ Dom \in Token
    /\ Equals # Sign /\ Hash # Equals /\ Hash # Sign
BY DEF Equals, Sign, Tag, Hash, Relay, Dom, Token

\* An address SRS0=hash=stamp=domain=local@rewriter.
SrsForm(a, b, d, l) ==
    <<Tag, Equals, Hash, Equals>> \o (<<a, b>> \o <<Equals>> \o <<d>> \o <<Equals>> \o l) \o <<Sign, Relay>>

\* Its tokens.
LEMMA AddressTokens ==
    ASSUME NEW a \in Token, NEW b \in Token, NEW d \in Token, NEW l \in Seq(Token)
    PROVE  LET address == SrsForm(a, b, d, l) IN
           /\ address \in Seq(Token) /\ Len(address) = Len(l) + 11 /\ Len(l) \in Nat
           /\ address[1] = Tag /\ address[2] = Equals /\ address[3] = Hash /\ address[4] = Equals
           /\ address[5] = a /\ address[6] = b /\ address[7] = Equals /\ address[8] = d
           /\ address[9] = Equals
           /\ \A i \in 1..Len(l) : address[i + 9] = l[i]
           /\ address[Len(l) + 10] = Sign
<1> USE Separators
<1> DEFINE address == SrsForm(a, b, d, l)
           s == <<a, b>> \o <<Equals>> \o <<d>> \o <<Equals>>
           body == s \o l
           front == <<Tag, Equals, Hash, Equals>> \o body
<1>1. /\ s \in Seq(Token) /\ Len(s) = 5
      /\ s[1] = a /\ s[2] = b /\ s[3] = Equals /\ s[4] = d /\ s[5] = Equals
    OBVIOUS
<1>2. address = front \o <<Sign, Relay>>
    BY DEF SrsForm
<1> HIDE DEF s, address
<1>3. /\ body \in Seq(Token) /\ Len(body) = Len(l) + 5 /\ Len(l) \in Nat
      /\ body[1] = a /\ body[2] = b /\ body[3] = Equals /\ body[4] = d /\ body[5] = Equals
      /\ \A i \in 1..Len(l) : body[i + 5] = l[i]
    <2>1. /\ body \in Seq(Token) /\ Len(body) = Len(s) + Len(l)
          /\ \A i \in 1..Len(s) : body[i] = s[i]
          /\ \A i \in 1..Len(l) : body[i + Len(s)] = l[i]
        <3>1. s \in Seq(Token)
            BY <1>1
        <3> QED
            BY <3>1, ConcatParts, Zenon
    <2> HIDE DEF body
    <2>2. \A i \in 1..Len(l) : body[i + 5] = l[i]
        BY <1>1, <2>1
    <2>3. Len(l) \in Nat
        OBVIOUS
    <2> QED
        BY <1>1, <2>1, <2>2, <2>3
<1> HIDE DEF body
<1>4. /\ front \in Seq(Token) /\ Len(front) = Len(l) + 9
      /\ front[1] = Tag /\ front[2] = Equals /\ front[3] = Hash /\ front[4] = Equals
      /\ front[5] = a /\ front[6] = b /\ front[7] = Equals /\ front[8] = d /\ front[9] = Equals
    BY <1>3
<1>5. \A i \in 1..Len(l) : front[i + 9] = l[i]
    <2> TAKE i \in 1..Len(l)
    <2>1. i + 5 \in 1..Len(body) /\ (i + 5) + 4 = i + 9
        BY <1>3
    <2>2. front[(i + 5) + 4] = body[i + 5]
        BY <1>3, <2>1
    <2> QED
        BY <1>3, <2>1, <2>2
<1> HIDE DEF front
<1>6. /\ address \in Seq(Token) /\ Len(address) = Len(l) + 11
      /\ \A i \in 1..(Len(l) + 9) : address[i] = front[i]
      /\ address[Len(l) + 10] = Sign
    BY <1>2, <1>3, <1>4
<1>7. \A i \in 1..Len(l) : address[i + 9] = l[i]
    <2> TAKE i \in 1..Len(l)
    <2>1. i + 9 \in 1..(Len(l) + 9)
        BY <1>3
    <2>2. address[i + 9] = front[i + 9]
        BY <1>6, <2>1
    <2> QED
        BY <1>5, <2>2
<1> QED
    BY <1>3, <1>4, <1>6, <1>7 DEF address

\* The cuts that the code makes in it, with what is left of the local part.
CutInto(a, b, d, l, l1) ==
    LET domain == <<d, Equals>> \o l1
        stamp == <<a, b, Equals>> \o domain
        payload == <<Hash, Equals>> \o stamp
        address == SrsForm(a, b, d, l)
        text == SubSeq(address, 3, Len(address))
    IN /\ l1 = l <=> Positions(l, Sign, 1) = {}
       /\ SplitOnce(text, Sign) # None /\ SplitOnce(text, Sign)[1].before = payload
       /\ SplitOnce(payload, Equals) = Some([before |-> <<Hash>>, after |-> stamp])
       /\ SplitOnce(stamp, Equals) = Some([before |-> <<a, b>>, after |-> domain])
       /\ SplitOnce(domain, Equals) = Some([before |-> <<d>>, after |-> l1])

\* The local part ends at its first "@".
LEMMA AddressIsCut ==
    ASSUME NEW a \in Token, NEW b \in Token, NEW d \in Token, NEW l \in Seq(Token),
           a # Equals, b # Equals, d # Equals, a # Sign, b # Sign, d # Sign
    PROVE  \E l1 \in Seq(Token) : CutInto(a, b, d, l, l1)
<1> USE Separators
<1>1. PICK k \in 0..Len(l) : /\ \A i \in 1..k : l[i] # Sign
                             /\ k = Len(l) \/ l[k + 1] = Sign
                             /\ k = Len(l) <=> Positions(l, Sign, 1) = {}
    BY FirstPart
<1> DEFINE l1 == SubSeq(l, 1, k)
           domain == <<d, Equals>> \o l1
           stamp == <<a, b, Equals>> \o domain
           payload == <<Hash, Equals>> \o stamp
           address == SrsForm(a, b, d, l)
           text == SubSeq(address, 3, Len(address))
           rest == SubSeq(text, k + 9, Len(text))
<1>2. /\ l1 \in Seq(Token) /\ Len(l1) = k /\ k \in Nat /\ Len(l) \in Nat /\ k <= Len(l)
      /\ \A i \in 1..k : l1[i] = l[i]
    BY <1>1
<1>3. l1 = l <=> k = Len(l)
    <2>1. l1 = l => k = Len(l)
        BY <1>2
    <2>2. k = Len(l) => l1 = l
        <3> HIDE DEF l1
        <3> QED
            BY <1>2, SeqEqual
    <2> QED
        BY <2>1, <2>2
<1> HIDE DEF l1
<1>4. /\ address \in Seq(Token) /\ Len(address) = Len(l) + 11 /\ Len(l) \in Nat
      /\ address[1] = Tag /\ address[2] = Equals /\ address[3] = Hash /\ address[4] = Equals
      /\ address[5] = a /\ address[6] = b /\ address[7] = Equals /\ address[8] = d
      /\ address[9] = Equals
      /\ \A i \in 1..Len(l) : address[i + 9] = l[i]
      /\ address[Len(l) + 10] = Sign
    BY AddressTokens
<1> HIDE DEF address
<1>5. text \in Seq(Token) /\ Len(text) = Len(l) + 9
      /\ \A i \in 1..(Len(l) + 9) : text[i] = address[i + 2]
    <2>1. \A i \in 3..Len(address) : address[i] \in Token
        BY <1>4
    <2>2. /\ text \in Seq(Token)
          /\ Len(text) = IF 3 <= Len(address) THEN Len(address) - 3 + 1 ELSE 0
          /\ \A i \in 1..(Len(address) - 3 + 1) : text[i] = address[3 + i - 1]
        BY <1>2, <1>4, <2>1, SubSeqProperties
    <2> HIDE DEF text
    <2>3. Len(text) = Len(l) + 9
        BY <1>2, <1>4, <2>2
    <2>4. \A i \in 1..(Len(l) + 9) : i \in 1..(Len(address) - 3 + 1) /\ 3 + i - 1 = i + 2
        BY <1>2, <1>4
    <2> QED
        BY <2>2, <2>3, <2>4
<1> HIDE DEF text
<1>6. /\ payload \in Seq(Token) /\ Len(payload) = k + 7
      /\ payload[1] = Hash /\ payload[2] = Equals /\ payload[3] = a /\ payload[4] = b
      /\ payload[5] = Equals /\ payload[6] = d /\ payload[7] = Equals
      /\ \A i \in 1..k : payload[i + 7] = l1[i]
    <2>1. /\ domain \in Seq(Token) /\ Len(domain) = k + 2 /\ domain[1] = d /\ domain[2] = Equals
          /\ \A i \in 1..k : domain[i + 2] = l1[i]
        BY <1>2
    <2> HIDE DEF domain
    <2>2. /\ stamp \in Seq(Token) /\ Len(stamp) = k + 5
          /\ stamp[1] = a /\ stamp[2] = b /\ stamp[3] = Equals
          /\ \A i \in 1..(k + 2) : stamp[i + 3] = domain[i]
        BY <1>2, <2>1
    <2>3. stamp[4] = d /\ stamp[5] = Equals
        BY <1>2, <2>1, <2>2
    <2>4. \A i \in 1..k : i + 2 \in 1..(k + 2) /\ (i + 2) + 3 = i + 5
        BY <1>2
    <2>5. \A i \in 1..k : stamp[i + 5] = l1[i]
        BY <2>1, <2>2, <2>4
    <2> HIDE DEF stamp
    <2>6. /\ payload \in Seq(Token) /\ Len(payload) = k + 7
          /\ payload[1] = Hash /\ payload[2] = Equals
          /\ \A i \in 1..(k + 5) : payload[i + 2] = stamp[i]
        BY <1>2, <2>2
    <2>7. \A i \in 1..k : i + 5 \in 1..(k + 5) /\ (i + 5) + 2 = i + 7
        BY <1>2
    <2>8. \A i \in 1..k : payload[i + 7] = l1[i]
        BY <2>5, <2>6, <2>7
    <2>9. /\ payload[3] = a /\ payload[4] = b /\ payload[5] = Equals
          /\ payload[6] = d /\ payload[7] = Equals
        BY <1>2, <2>2, <2>3, <2>6
    <2> QED
        BY <2>6, <2>8, <2>9
<1> HIDE DEF payload
<1>7. \A i \in 1..(k + 7) : text[i] = payload[i] /\ payload[i] # Sign
    <2> TAKE i \in 1..(k + 7)
    <2>1. CASE i \in 1..7
        <3>1. i = 1 \/ i = 2 \/ i = 3 \/ i = 4 \/ i = 5 \/ i = 6 \/ i = 7
            BY <2>1
        <3>2. text[1] = Hash /\ text[2] = Equals /\ text[3] = a /\ text[4] = b /\ text[5] = Equals
              /\ text[6] = d /\ text[7] = Equals
            BY <1>2, <1>4, <1>5
        <3> QED
            BY <1>6, <3>1, <3>2
    <2>2. CASE i \notin 1..7
        <3>1. i - 7 \in 1..k /\ (i - 7) + 7 = i /\ (i - 7) + 9 = i + 2
              /\ i \in 1..(Len(l) + 9) /\ i - 7 \in 1..Len(l)
            BY <1>2, <2>2
        <3>2. payload[(i - 7) + 7] = l1[i - 7] /\ l1[i - 7] = l[i - 7] /\ l[i - 7] # Sign
            BY <1>1, <1>2, <1>6, <3>1
        <3>3. text[i] = address[i + 2] /\ address[(i - 7) + 9] = l[i - 7]
            BY <1>4, <1>5, <3>1
        <3> QED
            BY <3>1, <3>2, <3>3
    <2> QED
        BY <2>1, <2>2
<1>8. text[k + 8] = Sign
    <2>1. text[k + 8] = address[k + 10]
        <3>1. k + 8 \in 1..(Len(l) + 9) /\ (k + 8) + 2 = k + 10
            BY <1>2
        <3> QED
            BY <1>5, <3>1
    <2>2. CASE k = Len(l)
        BY <1>4, <2>1, <2>2
    <2>3. CASE k # Len(l)
        <3>1. l[k + 1] = Sign /\ k + 1 \in 1..Len(l) /\ (k + 1) + 9 = k + 10
            BY <1>1, <1>2, <2>3
        <3> QED
            BY <1>4, <2>1, <3>1
    <2> QED
        BY <2>2, <2>3
<1>9. /\ rest \in Seq(Token) /\ Len(rest) = Len(l) - k + 1
      /\ \A i \in 1..Len(rest) : text[(k + 8) + i] = rest[i]
    <2>1. k + 9 \in 1..Len(text) /\ Len(text) - (k + 9) + 1 = Len(l) - k + 1
          /\ (k + 9) - 1 = k + 8
        BY <1>2, <1>5
    <2>2. /\ rest \in Seq(Token) /\ Len(rest) = Len(text) - (k + 9) + 1
          /\ \A i \in 1..(Len(text) - (k + 9) + 1) : rest[i] = text[((k + 9) - 1) + i]
        BY <1>5, <2>1, TailParts
    <2> HIDE DEF rest
    <2> QED
        BY <2>1, <2>2
<1> HIDE DEF rest
<1>10. SplitOnce(text, Sign) = Some([before |-> payload, after |-> rest])
    <2>1. Len(text) = Len(payload) + 1 + Len(rest)
        BY <1>2, <1>5, <1>6, <1>9
    <2>2. Len(payload) + 1 = k + 8
        BY <1>2, <1>6
    <2>3. \A i \in 1..Len(rest) : text[Len(payload) + 1 + i] = rest[i]
        BY <1>9, <2>2
    <2>4. \A i \in 1..Len(payload) : text[i] = payload[i] /\ payload[i] # Sign
        BY <1>6, <1>7
    <2>5. text[Len(payload) + 1] = Sign
        BY <1>8, <2>2
    <2>6. CutsAs(text, Sign, payload, rest)
        BY <1>5, <1>6, <1>9, <2>1, <2>3, <2>4, <2>5 DEF CutsAs
    <2> QED
        BY <2>6, CutAtFirst
<1>11. SplitOnce(text, Sign) # None /\ SplitOnce(text, Sign)[1].before = payload
    BY <1>10, SomeIsOne
<1>12. stamp \in Seq(Token) /\ domain \in Seq(Token)
    BY <1>2
<1>13. SplitOnce(payload, Equals) = Some([before |-> <<Hash>>, after |-> stamp])
    <2> HIDE DEF stamp
    <2> QED
        BY <1>12, NameIsCut DEF payload
<1>14. SplitOnce(domain, Equals) = Some([before |-> <<d>>, after |-> l1])
    BY <1>2, NameIsCut
<1>15. SplitOnce(stamp, Equals) = Some([before |-> <<a, b>>, after |-> domain])
    <2> DEFINE u == <<a, b>>
    <2>1. u \in Seq(Token) /\ Len(u) = 2 /\ u[1] = a /\ u[2] = b
        OBVIOUS
    <2>2. Len(domain) = k + 2 /\ domain[1] = d /\ domain[2] = Equals
          /\ \A i \in 1..k : domain[i + 2] = l1[i]
        BY <1>2
    <2> HIDE DEF domain
    <2>3. Len(stamp) = k + 5 /\ stamp[1] = a /\ stamp[2] = b /\ stamp[3] = Equals
          /\ \A i \in 1..(k + 2) : stamp[i + 3] = domain[i]
        BY <1>2, <1>12, <2>2
    <2> HIDE DEF u, stamp
    <2>4. \A i \in 1..Len(domain) : stamp[Len(u) + 1 + i] = domain[i]
        <3>1. \A i \in 1..(k + 2) : Len(u) + 1 + i = i + 3
            BY <1>2, <2>1
        <3> QED
            BY <2>2, <2>3, <3>1
    <2>5. \A i \in 1..Len(u) : stamp[i] = u[i] /\ u[i] # Equals
        BY <2>1, <2>3
    <2>6. Len(stamp) = Len(u) + 1 + Len(domain) /\ stamp[Len(u) + 1] = Equals
        BY <1>2, <2>1, <2>2, <2>3
    <2>7. SplitOnce(stamp, Equals) = Some([before |-> u, after |-> domain])
        <3>1. CutsAs(stamp, Equals, u, domain)
            BY <1>12, <2>1, <2>4, <2>5, <2>6 DEF CutsAs, domain, stamp
        <3> QED
            BY <3>1, CutAtFirst
    <2> QED
        BY <2>7 DEF u
<1>16. l1 = l <=> Positions(l, Sign, 1) = {}
    BY <1>1, <1>3
<1> QED
    BY <1>2, <1>11, <1>13, <1>14, <1>15, <1>16, Zenon DEF CutInto, payload, stamp, domain, text, address

\* The parts that the code cuts it into.
PartsAre(a, b, d, l, l1) ==
    /\ l1 = l <=> Positions(l, Sign, 1) = {}
    /\ SrsParts(SrsForm(a, b, d, l))
         = Some([hash |-> <<Hash>>, timestamp |-> <<a, b>>, domain |-> <<d>>, local |-> l1])

LEMMA PartsOfAddress ==
    ASSUME NEW a \in Token, NEW b \in Token, NEW d \in Token, NEW l \in Seq(Token),
           a # Equals, b # Equals, d # Equals, a # Sign, b # Sign, d # Sign
    PROVE  \E l1 \in Seq(Token) : PartsAre(a, b, d, l, l1)
<1> DEFINE address == SrsForm(a, b, d, l)
           Domain(l1) == <<d, Equals>> \o l1
           Stamped(l1) == <<a, b, Equals>> \o Domain(l1)
           Payload(l1) == <<Hash, Equals>> \o Stamped(l1)
           text == SubSeq(address, 3, Len(address))
<1>0. PICK l1 \in Seq(Token) : CutInto(a, b, d, l, l1)
    BY AddressIsCut
<1>1. /\ l1 = l <=> Positions(l, Sign, 1) = {}
      /\ SplitOnce(text, Sign) # None /\ SplitOnce(text, Sign)[1].before = Payload(l1)
      /\ SplitOnce(Payload(l1), Equals)
           = Some([before |-> <<Hash>>, after |-> Stamped(l1)])
      /\ SplitOnce(Stamped(l1), Equals)
           = Some([before |-> <<a, b>>, after |-> Domain(l1)])
      /\ SplitOnce(Domain(l1), Equals) = Some([before |-> <<d>>, after |-> l1])
    BY <1>0, Zenon DEF CutInto
<1>2. IsPrefix(<<Tag, Equals>>, address)
    <2>1. /\ address \in Seq(Token) /\ Len(address) = Len(l) + 11 /\ Len(l) \in Nat
          /\ address[1] = Tag /\ address[2] = Equals
        BY AddressTokens
    <2>2. <<Tag, Equals>> \in Seq(Token) /\ Len(<<Tag, Equals>>) = 2
        BY Separators
    <2> HIDE DEF address
    <2>3. SubSeq(<<Tag, Equals>>, 1, 2) = SubSeq(address, 1, 2)
        BY <2>1, <2>2
    <2> QED
        BY <2>1, <2>2, <2>3 DEF IsPrefix
<1> HIDE DEF text, Domain, Stamped, Payload
<1>3. SrsParts(address) =
         LET payload == SplitOnce(text, Sign)
             hash == SplitOnce(payload[1].before, Equals)
             timestamp == SplitOnce(hash[1].after, Equals)
             domain == SplitOnce(timestamp[1].after, Equals)
         IN IF \/ ~IsPrefix(<<Tag, Equals>>, address)
               \/ payload = None \/ hash = None \/ timestamp = None \/ domain = None
            THEN None
            ELSE Some([hash |-> hash[1].before, timestamp |-> timestamp[1].before,
                       domain |-> domain[1].before, local |-> domain[1].after])
    BY DEF SrsParts, text, Equals, Sign, Tag
<1> HIDE DEF address
<1>4. SrsParts(address) = Some([hash |-> <<Hash>>, timestamp |-> <<a, b>>,
                                domain |-> <<d>>, local |-> l1])
    <2> DEFINE payload == SplitOnce(text, Sign)
               hash == SplitOnce(payload[1].before, Equals)
               timestamp == SplitOnce(hash[1].after, Equals)
               domain == SplitOnce(timestamp[1].after, Equals)
    <2>1. payload # None /\ payload[1].before = Payload(l1)
        BY <1>1
    <2>2. hash # None /\ hash[1].before = <<Hash>> /\ hash[1].after = Stamped(l1)
        BY <1>1, <2>1, SomeIsOne
    <2> HIDE DEF hash
    <2>3. /\ timestamp # None /\ timestamp[1].before = <<a, b>>
          /\ timestamp[1].after = Domain(l1)
        BY <1>1, <2>2, SomeIsOne
    <2> HIDE DEF timestamp
    <2>4. domain # None /\ domain[1].before = <<d>> /\ domain[1].after = l1
        BY <1>1, <2>3, SomeIsOne
    <2> HIDE DEF domain
    <2>5. SrsParts(address) =
             IF \/ ~IsPrefix(<<Tag, Equals>>, address)
                \/ payload = None \/ hash = None \/ timestamp = None \/ domain = None
             THEN None
             ELSE Some([hash |-> hash[1].before, timestamp |-> timestamp[1].before,
                        domain |-> domain[1].before, local |-> domain[1].after])
        BY <1>3, Zenon DEF hash, timestamp, domain
    <2> HIDE DEF payload
    <2> QED
        BY <1>2, <2>1, <2>2, <2>3, <2>4, <2>5
<1> QED
    BY <1>1, <1>4, Zenon DEF address, PartsAre

\* What its hash is made over.
SignedText(a, b, d, l) == Signed(<<a, b>>, <<d>>, l)

\* That text, token by token.
TokensAre(text, a, b, d, l) ==
    /\ text \in Seq(Token) /\ Len(text) = Len(l) + 5
    /\ text[1] = a /\ text[2] = b /\ text[4] = d
    /\ \A i \in 1..Len(l) : text[i + 5] = l[i]

LEMMA SignedTokens ==
    ASSUME NEW a \in Token, NEW b \in Token, NEW d \in Token, NEW l \in Seq(Token)
    PROVE  TokensAre(SignedText(a, b, d, l), a, b, d, l)
<1> DEFINE s == <<a, b>> \o <<"=">> \o <<d>> \o <<"=">>
           text == s \o l
<1>1. s \in Seq(Token)
    BY WordsAreTokens
<1>2. Len(s) = 5 /\ s[1] = a /\ s[2] = b /\ s[4] = d
    OBVIOUS
<1> HIDE DEF s
<1>3. /\ text \in Seq(Token) /\ Len(text) = Len(s) + Len(l)
      /\ \A i \in 1..Len(s) : text[i] = s[i]
      /\ \A i \in 1..Len(l) : text[i + Len(s)] = l[i]
    BY <1>1, ConcatParts, Zenon
<1>4. SignedText(a, b, d, l) = text
    BY DEF SignedText, Signed, s
<1> HIDE DEF text
<1>5. TokensAre(text, a, b, d, l)
    BY <1>2, <1>3 DEF TokensAre
<1> QED
    BY <1>4, <1>5

\* Different addresses have different texts to sign.
LEMMA SignedIsOne ==
    ASSUME NEW a \in Token, NEW b \in Token, NEW d \in Token, NEW l \in Seq(Token),
           NEW a2 \in Token, NEW b2 \in Token, NEW d2 \in Token, NEW l2 \in Seq(Token)
    PROVE  SignedText(a, b, d, l) = SignedText(a2, b2, d2, l2)
              => a = a2 /\ b = b2 /\ d = d2 /\ l = l2
<1> DEFINE text == SignedText(a, b, d, l)
           text2 == SignedText(a2, b2, d2, l2)
<1>1. TokensAre(text, a, b, d, l)
    BY SignedTokens
<1>2. TokensAre(text2, a2, b2, d2, l2)
    BY SignedTokens
<1> HIDE DEF text, text2
<1> SUFFICES ASSUME text = text2 PROVE a = a2 /\ b = b2 /\ d = d2 /\ l = l2
    BY DEF text, text2
<1>3. text = text2
    OBVIOUS
<1>4. Len(l) = Len(l2)
    BY <1>1, <1>2, <1>3 DEF TokensAre
<1>5. \A i \in 1..Len(l) : l[i] = l2[i]
    BY <1>1, <1>2, <1>3, <1>4 DEF TokensAre
<1>6. l = l2
    BY <1>4, <1>5, SeqEqual
<1> QED
    BY <1>1, <1>2, <1>3, <1>6 DEF TokensAre

\* A stamp of either case is read as its day.
LEMMA StampIsItsDay ==
    ASSUME NEW day \in 0..(DAYS_PER_CYCLE - 1)
    PROVE  /\ DecodeTimestamp(Stamp(day)) = day
           /\ \A text \in {Stamp(day), LowerStamp(day)} :
                 \E a, b \in Token : /\ text = <<a, b>>
                                     /\ a # Equals /\ b # Equals /\ a # Sign /\ b # Sign
<1> DEFINE hi == day \div 32
           lo == day % 32
           H == BASE32_ALPHABET[hi + 1]
           L == BASE32_ALPHABET[lo + 1]
<1>1. hi \in 0..31 /\ lo \in 0..31 /\ 32 * hi + lo = day
    BY DEF DAYS_PER_CYCLE
<1>2. Stamp(day) = <<H, L>>
      /\ LowerStamp(day) = <<LowerAlphabet[hi + 1], LowerAlphabet[lo + 1]>>
    BY DEF Stamp, LowerStamp
<1> HIDE DEF hi, lo
<1>3. Digit(H) = {hi} /\ Digit(L) = {lo}
    <2>1. \A i \in 0..31 : Digit(BASE32_ALPHABET[i + 1]) = {i}
        <3> TAKE i \in 0..31
        <3>1. \A j \in Digit(BASE32_ALPHABET[i + 1]) : j = i
            BY DigitsDiffer DEF Digit
        <3>2. i \in Digit(BASE32_ALPHABET[i + 1])
            BY DEF Digit
        <3> QED
            BY <3>1, <3>2
    <2> QED
        BY <1>1, <2>1
<1> HIDE DEF H, L
<1>4. \A n \in Nat : Min({n}) = n
    BY DEF Min
<1>5. DecodeTimestamp(<<H, L>>) = day
    <2> DEFINE text == <<H, L>>
    <2>1. Len(text) = 2 /\ DOMAIN text = {1, 2} /\ text[1] = H /\ text[2] = L
        OBVIOUS
    <2> HIDE DEF text
    <2>2. \A i \in DOMAIN text : Digit(text[i]) # {}
        BY <1>3, <2>1
    <2>3. DecodeTimestamp(text) = 32 * Min(Digit(text[1])) + Min(Digit(text[2]))
        BY <2>1, <2>2 DEF DecodeTimestamp
    <2>4. Min(Digit(text[1])) = hi /\ Min(Digit(text[2])) = lo
        BY <1>1, <1>3, <1>4, <2>1
    <2> QED
        BY <1>1, <2>3, <2>4 DEF text
<1>6. \A i \in 0..31 : \A c \in {BASE32_ALPHABET[i + 1], LowerAlphabet[i + 1]} :
         c \in Token /\ c # Equals /\ c # Sign
    BY WordsAreTokens, DigitsAreDigits DEF Equals, Sign
<1>7. /\ H \in Token /\ H # Equals /\ H # Sign
      /\ L \in Token /\ L # Equals /\ L # Sign
      /\ LowerAlphabet[hi + 1] \in Token
      /\ LowerAlphabet[hi + 1] # Equals /\ LowerAlphabet[hi + 1] # Sign
      /\ LowerAlphabet[lo + 1] \in Token
      /\ LowerAlphabet[lo + 1] # Equals /\ LowerAlphabet[lo + 1] # Sign
    BY <1>1, <1>6 DEF H, L
<1> QED
    BY <1>2, <1>5, <1>7, Zenon

LEMMA AgeOfStamp ==
    \A day \in 0..(DAYS_PER_CYCLE - 1), today \in Nat :
       /\ AgeInDays(day, today) = (today - day) % DAYS_PER_CYCLE
       /\ (today - day) % DAYS_PER_CYCLE \in Nat
       /\ day # Undecodable
BY DEF AgeInDays, DAYS_PER_CYCLE, Undecodable

LEMMA TwoMore ==
    ASSUME NEW x \in Token, NEW y \in Token, NEW l \in Seq(Token)
    PROVE  /\ l \o <<x>> \o <<y>> = l \o <<x, y>>
           /\ Len(l \o <<x, y>>) = Len(l) + 2
<1> DEFINE one == l \o <<x>>
           left == one \o <<y>>
           right == l \o <<x, y>>
           n == Len(l)
<1>1. n \in Nat /\ one \in Seq(Token) /\ Len(one) = n + 1
      /\ one[n + 1] = x /\ \A i \in 1..n : one[i] = l[i]
    OBVIOUS
<1>2. right \in Seq(Token) /\ Len(right) = n + 2
      /\ right[n + 1] = x /\ right[n + 2] = y /\ \A i \in 1..n : right[i] = l[i]
    OBVIOUS
<1> HIDE DEF one
<1>3. left \in Seq(Token) /\ Len(left) = n + 2
      /\ left[n + 2] = y /\ \A i \in 1..(n + 1) : left[i] = one[i]
    BY <1>1
<1> HIDE DEF left, right, n
<1>4. \A i \in 1..(n + 2) : i \in 1..n \/ i = n + 1 \/ i = n + 2
    BY <1>1
<1>5. n + 1 \in 1..(n + 1) /\ \A i \in 1..n : i \in 1..(n + 1)
    BY <1>1
<1>6. \A i \in 1..(n + 2) : left[i] = right[i]
    BY <1>1, <1>2, <1>3, <1>4, <1>5
<1>7. left = right
    BY <1>2, <1>3, <1>6, SeqEqual
<1> QED
    BY <1>2, <1>7 DEF left, right, one, n

\* The address that arrives and the one that was rewritten, in their tokens.
LEMMA ArrivedForm ==
    ASSUME Rewriting
    PROVE  \E a, b, d, a0, b0 \in Token :
              /\ a # Equals /\ b # Equals /\ d # Equals
              /\ a # Sign /\ b # Sign /\ d # Sign
              /\ Stamp(input.day) = <<a0, b0>>
              /\ DecodeTimestamp(<<a0, b0>>) = input.day
              /\ Arrived = SrsForm(a, b, d, input.local)
              /\ Rewritten("as rewritten") = SrsForm(a0, b0, Dom, input.local)
              /\ Seal = [hash |-> <<Hash>>, secret |-> input.secret,
                         text |-> SignedText(a0, b0, Dom, input.local)]
<1>1. input.day \in 0..(DAYS_PER_CYCLE - 1)
    BY DEF Rewriting
<1> DEFINE stamp == IF input.form = "stamp" THEN LowerStamp(input.day) ELSE Stamp(input.day)
           d == IF input.form = "domain" THEN "dom" ELSE "Dom"
<1>2. stamp \in {Stamp(input.day), LowerStamp(input.day)}
    OBVIOUS
<1> HIDE DEF stamp
<1>3. PICK a, b \in Token : /\ stamp = <<a, b>>
                            /\ a # Equals /\ b # Equals /\ a # Sign /\ b # Sign
    BY <1>1, <1>2, StampIsItsDay
<1>4. PICK a0, b0 \in Token : Stamp(input.day) = <<a0, b0>>
    BY <1>1, StampIsItsDay
<1>5. /\ d \in Token
      /\ d # Equals /\ d # Sign
    BY DEF Token, Equals, Sign
<1>6. Arrived = SrsForm(a, b, d, input.local)
    <2>1. Arrived = <<"SRS0", "=", "hash", "=">>
                      \o Signed(stamp, IF input.form = "domain" THEN <<"dom">> ELSE <<"Dom">>,
                                input.local)
                      \o <<"@", "relay">>
        BY DEF Arrived, Rewritten, stamp
    <2>2. (IF input.form = "domain" THEN <<"dom">> ELSE <<"Dom">>) = <<d>>
        OBVIOUS
    <2> HIDE DEF d
    <2>3. Arrived = <<"SRS0", "=", "hash", "=">>
                      \o Signed(<<a, b>>, <<d>>, input.local) \o <<"@", "relay">>
        BY <1>3, <2>1, <2>2, Zenon
    <2> QED
        BY <2>3, Zenon DEF SrsForm, Signed, Tag, Equals, Hash, Sign, Relay, Dom
<1>7. Rewritten("as rewritten") = SrsForm(a0, b0, Dom, input.local)
    <2>1. "as rewritten" # "stamp" /\ "as rewritten" # "domain"
        OBVIOUS
    <2>2. Rewritten("as rewritten")
             = <<"SRS0", "=", "hash", "=">>
                 \o Signed(<<a0, b0>>, <<"Dom">>, input.local) \o <<"@", "relay">>
        BY <1>4, <2>1, Zenon DEF Rewritten
    <2> QED
        BY <2>2, Zenon DEF SrsForm, Signed, Tag, Equals, Hash, Sign, Relay, Dom
<1>8. Seal = [hash |-> <<Hash>>, secret |-> input.secret,
              text |-> SignedText(a0, b0, Dom, input.local)]
    BY <1>4, Zenon DEF Seal, SignedText, Hash, Dom
<1>9. DecodeTimestamp(<<a0, b0>>) = input.day
    BY <1>1, <1>4, StampIsItsDay
<1> HIDE DEF d
<1> QED
    BY <1>3, <1>4, <1>5, <1>6, <1>7, <1>8, <1>9, Zenon

\* What an address is unwrapped to, in its tokens.
LEMMA Unwrapped ==
    ASSUME Rewriting
    PROVE  \E a, b, d, a0, b0 \in Token :
              LET valid == /\ a = a0 /\ b = b0 /\ d = Dom
                           /\ Positions(input.local, Sign, 1) = {}
                           /\ input.secret # Forger
                           /\ (input.today - input.day) % DAYS_PER_CYCLE <= 21
              IN /\ Arrived = SrsForm(a, b, d, input.local)
                 /\ Rewritten("as rewritten") = SrsForm(a0, b0, Dom, input.local)
                 /\ SubjectText(Arrived, Seal, SrsSection, input.today)
                      = IF valid THEN input.local \o <<Sign>> \o <<Dom>> ELSE Arrived
<1> DEFINE l == input.local
           age == (input.today - input.day) % DAYS_PER_CYCLE
           sender == SrsSender(Arrived, Seal)
           subject == Subject(sender, SrsSection, input.today)
<1>1. /\ l \in Seq(Token) /\ input.day \in 0..(DAYS_PER_CYCLE - 1) /\ input.today \in Nat
      /\ input.secret \in Secrets \cup {Forger}
    <2>1. /\ l \in Seq(STRING) /\ input.day \in 0..(DAYS_PER_CYCLE - 1)
          /\ input.today \in Nat /\ input.secret \in Secrets \cup {Forger}
        BY DEF Rewriting
    <2>2. l \in Seq(Token)
        BY <2>1, LargerAlphabet, WordsAreTokens, Zenon
    <2> QED
        BY <2>1, <2>2
<1> HIDE DEF l
<1>0. PICK a, b, d, a0, b0 \in Token :
         /\ a # Equals /\ b # Equals /\ d # Equals
         /\ a # Sign /\ b # Sign /\ d # Sign
         /\ DecodeTimestamp(<<a0, b0>>) = input.day
         /\ Arrived = SrsForm(a, b, d, l)
         /\ Rewritten("as rewritten") = SrsForm(a0, b0, Dom, l)
         /\ Seal = [hash |-> <<Hash>>, secret |-> input.secret,
                    text |-> SignedText(a0, b0, Dom, l)]
    BY ArrivedForm DEF l
<1>2. PICK l1 \in Seq(Token) :
         /\ l1 = l <=> Positions(l, Sign, 1) = {}
         /\ SrsParts(Arrived) = Some([hash |-> <<Hash>>, timestamp |-> <<a, b>>,
                                      domain |-> <<d>>, local |-> l1])
    <2>1. a # Equals /\ b # Equals /\ d # Equals /\ a # Sign /\ b # Sign /\ d # Sign
        BY <1>0, Zenon
    <2>2. l \in Seq(Token)
        BY <1>1
    <2>3. \E l1 \in Seq(Token) : PartsAre(a, b, d, l, l1)
        BY <2>1, <2>2, PartsOfAddress
    <2>4. Arrived = SrsForm(a, b, d, l)
        BY <1>0, Zenon
    <2> QED
        BY <2>3, <2>4, Zenon DEF PartsAre
<1> DEFINE parts == SrsParts(Arrived)
           sealed == SignedText(a, b, d, l1) = Seal.text
<1>3. /\ parts # None /\ parts[1].hash = <<Hash>> /\ parts[1].timestamp = <<a, b>>
      /\ parts[1].domain = <<d>> /\ parts[1].local = l1
    BY <1>2, SomeIsOne
<1>4. sealed <=> a = a0 /\ b = b0 /\ d = Dom /\ l1 = l
    <2>1. Seal.text = SignedText(a0, b0, Dom, l)
        BY <1>0
    <2>2. Dom \in Token /\ l \in Seq(Token)
        BY <1>1, Separators
    <2>3. SignedText(a, b, d, l1) = SignedText(a0, b0, Dom, l)
             => a = a0 /\ b = b0 /\ d = Dom /\ l1 = l
        BY <2>2, SignedIsOne, SMTT(30)
    <2> QED
        BY <2>1, <2>2, <2>3, Zenon DEF sealed
<1>5. /\ sender.srs0 = TRUE
      /\ sender.signed_by = IF sealed THEN input.secret ELSE "nobody"
      /\ sender.timestamp = DecodeTimestamp(<<a, b>>)
    <2>1. Seal.hash = <<Hash>> /\ Seal.secret = input.secret
        BY <1>0
    <2>2. sender = [srs0 |-> TRUE,
                    signed_by |-> IF /\ parts[1].hash = Seal.hash
                                     /\ Signed(parts[1].timestamp, parts[1].domain,
                                               parts[1].local) = Seal.text
                                  THEN Seal.secret ELSE "nobody",
                    timestamp |-> DecodeTimestamp(parts[1].timestamp)]
        BY <1>3, Zenon DEF SrsSender
    <2>3. Signed(parts[1].timestamp, parts[1].domain, parts[1].local) = SignedText(a, b, d, l1)
        BY <1>3, Zenon DEF SignedText
    <2> HIDE DEF parts, sender
    <2> QED
        BY <1>3, <2>1, <2>2, <2>3
<1>6. SrsSection.enabled = TRUE /\ SrsSection.secrets = Secrets /\ SrsSection.max_age_days = 21
    BY DEF SrsSection
<1>7. AgeInDays(input.day, input.today) = age
    BY <1>1, AgeOfStamp
<1>8. age \in Nat /\ input.day # Undecodable
    BY <1>1, AgeOfStamp
<1>9. sender.signed_by \in Secrets <=> sealed /\ input.secret # Forger
    BY <1>1, <1>5, SecretsAssumption
<1> HIDE DEF sender, age, sealed
<1>10. subject = "original" <=> sealed /\ input.secret # Forger /\ age <= 21
    <2>1. subject = "original" <=> TryUnwrap(sender, SrsSection, input.today) = "Valid"
        BY DEF Subject
    <2>2. CASE sealed /\ input.secret # Forger
        <3>1. sender.timestamp = input.day
            BY <1>0, <1>4, <1>5, <2>2
        <3>2. TryUnwrap(sender, SrsSection, input.today) = "Valid" <=> ~(age > 21)
            BY <1>5, <1>6, <1>7, <1>8, <1>9, <2>2, <3>1 DEF TryUnwrap, HashOk
        <3> QED
            BY <1>8, <2>1, <2>2, <3>2
    <2>3. CASE ~(sealed /\ input.secret # Forger)
        <3>1. TryUnwrap(sender, SrsSection, input.today) # "Valid"
            BY <1>5, <1>6, <1>9, <2>3 DEF TryUnwrap, HashOk
        <3> QED
            BY <2>1, <2>3, <3>1
    <2> QED
        BY <2>2, <2>3
<1>11. SubjectText(Arrived, Seal, SrsSection, input.today)
         = IF subject = "original" THEN l1 \o <<Sign>> \o <<d>> ELSE Arrived
    BY <1>3, Zenon DEF SubjectText, sender, Sign
<1> HIDE DEF subject
<1>12. SubjectText(Arrived, Seal, SrsSection, input.today)
          = IF /\ a = a0 /\ b = b0 /\ d = Dom /\ Positions(l, Sign, 1) = {}
               /\ input.secret # Forger /\ age <= 21
            THEN l \o <<Sign>> \o <<Dom>> ELSE Arrived
    BY <1>2, <1>4, <1>10, <1>11, Zenon
<1> QED
    BY <1>0, <1>12, ZenonT(30) DEF l, age

\* Every original address comes back from what a relay made of it, and nothing
\* but it or the address that arrived is evaluated: for every local part, day,
\* secret and age (srs.rs:59-71, 88-90, 101-114).
THEOREM OriginalComesBack == Spec => []UnwrapsToTheOriginal
<1>1. Outputs => UnwrapsToTheOriginal
    <2> SUFFICES ASSUME Outputs, Of("rewrite") PROVE UnwrapsToTheOriginal
        BY DEF UnwrapsToTheOriginal
    <2> DEFINE l == input.local
               original == l \o <<"@", "Dom">>
               age == (input.today - input.day) % DAYS_PER_CYCLE
    <2>1. Rewriting /\ output[1] = SubjectText(Arrived, Seal, SrsSection, input.today)
        BY OutputIs
    <2>2. l \in Seq(Token)
        <3>1. l \in Seq(STRING)
            BY <2>1 DEF Rewriting
        <3> QED
            BY <3>1, LargerAlphabet, WordsAreTokens, Zenon
    <2>3. PICK a, b, d, a0, b0 \in Token :
              LET valid == /\ a = a0 /\ b = b0 /\ d = Dom
                           /\ Positions(l, Sign, 1) = {}
                           /\ input.secret # Forger /\ age <= 21
              IN /\ Arrived = SrsForm(a, b, d, l)
                 /\ Rewritten("as rewritten") = SrsForm(a0, b0, Dom, l)
                 /\ SubjectText(Arrived, Seal, SrsSection, input.today)
                      = IF valid THEN l \o <<Sign>> \o <<Dom>> ELSE Arrived
        BY <2>1, Unwrapped
    <2> DEFINE valid == /\ a = a0 /\ b = b0 /\ d = Dom
                        /\ Positions(l, Sign, 1) = {}
                        /\ input.secret # Forger /\ age <= 21
               asRewritten == Rewritten("as rewritten")
    <2> HIDE DEF l, age, asRewritten
    <2>4. /\ output[1] = IF valid THEN l \o <<Sign>> \o <<Dom>> ELSE Arrived
          /\ Arrived = SrsForm(a, b, d, l) /\ asRewritten = SrsForm(a0, b0, Dom, l)
        BY <2>1, <2>3, Zenon DEF asRewritten
    <2>5. /\ l \o <<Sign>> \o <<Dom>> = original
          /\ Len(original) = Len(l) + 2
        BY <2>2, Separators, TwoMore DEF Sign, Dom
    <2>6. /\ Len(Arrived) = Len(l) + 11 /\ Len(l) \in Nat
          /\ Arrived[5] = a /\ Arrived[6] = b /\ Arrived[8] = d
        <3> DEFINE form == SrsForm(a, b, d, l)
        <3>1. /\ Len(form) = Len(l) + 11 /\ Len(l) \in Nat
              /\ form[5] = a /\ form[6] = b /\ form[8] = d
            BY <2>2, AddressTokens
        <3> HIDE DEF form
        <3>2. Arrived = form
            BY <2>4, Zenon DEF form
        <3> QED
            BY <3>1, <3>2, Zenon
    <2>7. asRewritten[5] = a0 /\ asRewritten[6] = b0 /\ asRewritten[8] = Dom
        <3> DEFINE form == SrsForm(a0, b0, Dom, l)
        <3>1. Dom \in Token
            BY Separators
        <3>2. form[5] = a0 /\ form[6] = b0 /\ form[8] = Dom
            BY <2>2, <3>1, AddressTokens
        <3> HIDE DEF form
        <3>3. asRewritten = form
            BY <2>4, Zenon DEF form
        <3> QED
            BY <3>2, <3>3, Zenon
    <2>8. Arrived = asRewritten <=> a = a0 /\ b = b0 /\ d = Dom
        BY <2>4, <2>6, <2>7
    <2> HIDE DEF original
    <2>9. original # Arrived
        BY <2>5, <2>6
    <2>10. output[1] = IF valid THEN original ELSE Arrived
        BY <2>4, <2>5
    <2>11. output[1] \in {original, Arrived}
        BY <2>10
    <2>12. output[1] = original <=>
              /\ input.secret # Forger /\ Arrived = asRewritten /\ age <= 21
              /\ Positions(l, "@", 1) = {}
        BY <2>8, <2>9, <2>10 DEF Sign
    <2> QED
        BY <2>11, <2>12, Zenon DEF UnwrapsToTheOriginal, original, asRewritten, l, age
<1> QED
    BY <1>1, OneStep, PTL
=============================================================================
