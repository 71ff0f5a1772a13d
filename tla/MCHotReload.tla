----------------------------- MODULE MCHotReload -----------------------------
(***************************************************************************)
(* HotReload with a relay that the configurations exempt in one way or     *)
(* another, and a forwarder that rewrites its senders.                     *)
(***************************************************************************)
EXTENDS HotReload

CONSTANTS hosts   \* the whitelist file

RelayNet == [fam |-> "v4", bits |-> <<1>>]

Host(word) == <<[word |-> word, caps |-> FALSE]>>

Plain == [enabled |-> FALSE, secrets |-> {}, max_age_days |-> 21]
Unwrapping == [enabled |-> TRUE, secrets |-> {"secret"}, max_age_days |-> 21]

Lax == [helo_reject |-> "NoCheck", mail_from_reject |-> "Fail",
        permerror_reject |-> FALSE, temperror_defer |-> TRUE]
Strict == [Lax EXCEPT !.helo_reject = "SpfNotPass"]

Config(skip, ips, files, srs, policy, header) ==
    [skip |-> skip, trusted_relays |-> {}, exempt_sasl_authenticated |-> FALSE,
     whitelist |-> [ips |-> ips, helo_names |-> {}, domains |-> {},
                    domains_ptr |-> {}, files |-> files],
     srs |-> srs, policy |-> policy, messages |-> DefaultMessages,
     header_mode |-> header]

\* The relay is skipped, listed, listed in the file, or not exempt at all.
MCConf == {Config({RelayNet}, {}, << >>, Plain, Lax, "Spf"),
           Config({}, {RelayNet}, << >>, Unwrapping, Lax, "Spf"),
           Config({}, {}, <<hosts>>, Plain, Strict, "None")}

MCPath == {hosts}

Lines(lines) == [readable |-> TRUE, lines |-> lines]

\* The file lists the relay, lists nothing, or has a line that does not parse.
MCContent == {Lines({[prefix |-> "ip", value |-> RelayNet]}),
              Lines({}),
              Lines({[prefix |-> "ip", value |-> NotANetwork]})}

Relay == [complete |-> TRUE,
          client_address |-> [fam |-> "v4", bits |-> <<1, 0>>],
          helo_name |-> Host("relay"),
          sender |-> [domain |-> Host("sender"), srs0 |-> FALSE,
                      signed_by |-> "nobody", timestamp |-> Undecodable],
          reverse_client_name |-> Missing,
          sasl_username |-> FALSE]

Forwarder == [Relay EXCEPT !.client_address.bits = <<0, 0>>,
                           !.sender = [domain |-> Host("forwarder"), srs0 |-> TRUE,
                                       signed_by |-> "secret", timestamp |-> 1020]]

MCRequest == {Relay, Forwarder, [Relay EXCEPT !.complete = FALSE]}

\* Enough to take each path to an answer and to fail in each way.
MCFewConf == {c \in MCConf : c.skip = {}}
MCFewContent == {c \in MCContent : c.lines # {}}
MCFewRequest == {Relay, Forwarder}
=============================================================================
