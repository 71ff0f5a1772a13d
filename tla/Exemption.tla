------------------------------ MODULE Exemption ------------------------------
(***************************************************************************)
(* Who is exempt from SPF: networks (rspf/src/net/cidr_set.rs), the static *)
(* whitelist (rspf/src/whitelist/mod.rs) and the configuration's own       *)
(* exemptions (should_skip in rspf/src/server.rs).  A pure module, used by *)
(* HotReload and applied to every case in Intake.                          *)
(*                                                                         *)
(* An address is a family and a string of bits, a network a family and the *)
(* leading bits it fixes.  A domain name is the sequence of its labels,    *)
(* what stands between its dots: ".b" is two labels, the first one empty,  *)
(* so that a name ends with a dot and a suffix exactly when the suffix is  *)
(* a proper tail of its labels.  A label is a word and whether some letter *)
(* of it is a capital.  No name is the empty sequence.                     *)
(***************************************************************************)
EXTENDS SequencesExt

\* An attribute the request does not carry, or a sender without "@".
Missing == << >>

\* IpNet::contains: a network holds no address of the other family.
InNetworks(nets, ip) ==
    \E net \in nets : net.fam = ip.fam /\ IsPrefix(net.bits, ip.bits)

Lower(name) == [i \in DOMAIN name |-> [name[i] EXCEPT !.caps = FALSE]]

LowerAll(names) == {Lower(name) : name \in names}

\* Mutants of MatchesSuffix: the name is not lowered; subdomains do not match.
MatchesSuffixAsIs(name, suffix) == IsSuffix(suffix, name)

MatchesExactly(name, suffix) == Lower(name) = suffix

\* Whether name is suffix or a subdomain of it.  Only name is lowered here:
\* the suffix was when the whitelist was built.
MatchesSuffix(name, suffix) == IsSuffix(suffix, Lower(name))

-----------------------------------------------------------------------------
\* A line of a whitelist file is a prefix and a value; the blank lines and
\* the comments are left out.  A line with another prefix, or a network that
\* does not parse, fails the file, and one file fails the whole load.
NotANetwork == [fam |-> "none", bits |-> << >>]

Malformed(line) == \/ line.prefix \notin {"ip", "helo", "domain", "ptr"}
                   \/ line.prefix = "ip" /\ line.value = NotANetwork

Loads(file) == file.readable /\ \A line \in file.lines : ~Malformed(line)

Values(file, prefix) ==
    {line.value : line \in {l \in file.lines : l.prefix = prefix}}

\* Whitelist::load before its files: the entries of the [whitelist] section.
InlineWhitelist(cfg) ==
    [ips         |-> cfg.ips,
     helo_names  |-> LowerAll(cfg.helo_names),
     domains     |-> LowerAll(cfg.domains),
     domains_ptr |-> LowerAll(cfg.domains_ptr)]

\* Mutant of LoadFileInto: the names of a file are not lowered.
LoadFileAsIs(whitelist, file) ==
    [ips         |-> whitelist.ips         \cup Values(file, "ip"),
     helo_names  |-> whitelist.helo_names  \cup Values(file, "helo"),
     domains     |-> whitelist.domains     \cup Values(file, "domain"),
     domains_ptr |-> whitelist.domains_ptr \cup Values(file, "ptr")]

\* load_file: what a well-formed file adds to a whitelist.
LoadFileInto(whitelist, file) ==
    [ips         |-> whitelist.ips         \cup Values(file, "ip"),
     helo_names  |-> whitelist.helo_names  \cup LowerAll(Values(file, "helo")),
     domains     |-> whitelist.domains     \cup LowerAll(Values(file, "domain")),
     domains_ptr |-> whitelist.domains_ptr \cup LowerAll(Values(file, "ptr"))]

-----------------------------------------------------------------------------
\* Whitelist::matches, on the envelope sender as Postfix gave it.
Matches(whitelist, req) ==
    \/ InNetworks(whitelist.ips, req.client_address)
    \/ Lower(req.helo_name) \in whitelist.helo_names
    \/ \E d \in whitelist.domains : MatchesSuffix(req.helo_name, d)
    \/ /\ req.sender.domain # Missing
       /\ \E d \in whitelist.domains : MatchesSuffix(req.sender.domain, d)
    \/ /\ req.reverse_client_name # Missing
       /\ \E d \in whitelist.domains_ptr : MatchesSuffix(req.reverse_client_name, d)

\* The first half of should_skip: what the configuration exempts by itself.
SkippedByConfig(config, req) ==
    \/ InNetworks(config.skip, req.client_address)
    \/ InNetworks(config.trusted_relays, req.client_address)
    \/ config.exempt_sasl_authenticated /\ req.sasl_username
=============================================================================
