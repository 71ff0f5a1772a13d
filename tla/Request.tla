------------------------------- MODULE Request -------------------------------
(***************************************************************************)
(* From the lines of a policy request to what handle_request looks at:     *)
(* PolicyRequest::from_lines and client_ip (rspf/src/proto/request.rs),    *)
(* the attributes that must be there (rspf/src/server.rs), and the form of *)
(* an SRS address (rspf/src/srs.rs).                                       *)
(*                                                                         *)
(* A line is a text, see Words, whose separators are "=" and "@".          *)
(***************************************************************************)
EXTENDS Words, Srs

CONSTANT IpAddr   \* the texts that IpAddr::from_str reads

Attribute == {"request", "protocol_state", "protocol_name", "helo_name", "queue_id",
              "sender", "recipient", "client_address", "client_name",
              "reverse_client_name", "instance", "sasl_username"}

HasNoEquals(line) == SplitOnce(line, "=") = None

\* The value of an attribute, that of its last line.  An attribute without a
\* field goes to `extra`, which nothing reads.
Field(lines, name) ==
    LET at == {i \in DOMAIN lines : SplitOnce(lines[i], "=")[1].before = <<name>>} IN
    IF at = {} THEN None ELSE Some(SplitOnce(lines[Max(at)], "=")[1].after)

\* PolicyRequest::from_lines.
FromLines(lines) ==
    IF lines = << >>
    THEN [error |-> "EmptyRequest", fields |-> None]
    ELSE IF \E i \in DOMAIN lines : HasNoEquals(lines[i])
    THEN [error |-> "MalformedLine", fields |-> None]
    ELSE [error |-> "-", fields |-> Some([name \in Attribute |-> Field(lines, name)])]

ClientIp(fields) ==
    IF fields["client_address"] = None THEN "MissingClientAddress"
    ELSE IF fields["client_address"][1] \notin IpAddr THEN "InvalidClientAddress"
    ELSE "-"

\* Mutant of IsComplete: an empty value counts as none.
IsNotEmpty(fields) ==
    /\ NonEmpty(fields["helo_name"]) # None
    /\ NonEmpty(fields["sender"]) # None
    /\ ClientIp(fields) = "-"

\* The attributes without which handle_request answers dunno.
IsComplete(fields) ==
    /\ fields["helo_name"] # None
    /\ fields["sender"] # None
    /\ ClientIp(fields) = "-"

\* What should_skip and the checks are given of a complete request.
Looked(fields) ==
    [client_address      |-> fields["client_address"][1],
     helo_name           |-> fields["helo_name"][1],
     sender              |-> fields["sender"][1],
     mail_from_domain    |-> AfterLastAt(fields["sender"][1]),
     recipient           |-> UnwrapOr(fields["recipient"], << >>),
     reverse_client_name |-> fields["reverse_client_name"],
     sasl_username       |-> NonEmpty(fields["sasl_username"]) # None]

-----------------------------------------------------------------------------
(* SRS addresses, SRS0=hash=timestamp=domain=local@rewriter. *)

BASE32_ALPHABET ==
    <<"0", "1", "2", "3", "4", "5", "6", "7", "8", "9", "A", "B", "C", "D", "E", "F",
      "G", "H", "I", "J", "K", "L", "M", "N", "O", "P", "Q", "R", "S", "T", "U", "V">>

LowerAlphabet ==
    <<"0", "1", "2", "3", "4", "5", "6", "7", "8", "9", "a", "b", "c", "d", "e", "f",
      "g", "h", "i", "j", "k", "l", "m", "n", "o", "p", "q", "r", "s", "t", "u", "v">>

\* The number a digit of either case stands for.
Digit(c) == {i \in 0..31 : c \in {BASE32_ALPHABET[i + 1], LowerAlphabet[i + 1]}}

\* decode_timestamp.
DecodeTimestamp(text) ==
    IF Len(text) = 2 /\ \A i \in DOMAIN text : Digit(text[i]) # {}
    THEN 32 * Min(Digit(text[1])) + Min(Digit(text[2]))
    ELSE Undecodable

\* What the hash of an address is made over.
Signed(timestamp, domain, local) ==
    timestamp \o <<"=">> \o domain \o <<"=">> \o local

\* Mutant of SrsParts: a local part is cut at a "=".
SrsPartsSplitAll(sender) ==
    LET Cut(text) == SplitOnce(text, "=")
        payload == SplitOnce(SubSeq(sender, 3, Len(sender)), "@")
        hash == Cut(payload[1].before)
        timestamp == Cut(hash[1].after)
        domain == Cut(timestamp[1].after)
    IN IF \/ ~IsPrefix(<<"SRS0", "=">>, sender)
          \/ payload = None \/ hash = None \/ timestamp = None \/ domain = None
       THEN None
       ELSE Some([hash |-> hash[1].before, timestamp |-> timestamp[1].before,
                  domain |-> domain[1].before,
                  local |-> IF Cut(domain[1].after) = None THEN domain[1].after
                            ELSE Cut(domain[1].after)[1].before])

\* The parts of a sender that has the form: the payload ends at the first
\* "@", and its fourth part, the local one, may hold further "=".
SrsParts(sender) ==
    LET Cut(text) == SplitOnce(text, "=")
        payload == SplitOnce(SubSeq(sender, 3, Len(sender)), "@")
        hash == Cut(payload[1].before)
        timestamp == Cut(hash[1].after)
        domain == Cut(timestamp[1].after)
    IN IF \/ ~IsPrefix(<<"SRS0", "=">>, sender)
          \/ payload = None \/ hash = None \/ timestamp = None \/ domain = None
       THEN None
       ELSE Some([hash |-> hash[1].before, timestamp |-> timestamp[1].before,
                  domain |-> domain[1].before, local |-> domain[1].after])

\* A sender as Srs takes it.  The hash is ideal: seal tells the secret and the
\* text it was made of, the only ones it verifies for.
SrsSender(sender, seal) ==
    LET parts == SrsParts(sender) IN
    IF parts = None
    THEN [srs0 |-> FALSE, signed_by |-> "nobody", timestamp |-> Undecodable]
    ELSE [srs0 |-> TRUE,
          signed_by |-> IF /\ parts[1].hash = seal.hash
                           /\ Signed(parts[1].timestamp, parts[1].domain, parts[1].local)
                                = seal.text
                        THEN seal.secret ELSE "nobody",
          timestamp |-> DecodeTimestamp(parts[1].timestamp)]

\* The sender that SPF is evaluated for, as a text.
SubjectText(sender, seal, cfg, today) ==
    IF Subject(SrsSender(sender, seal), cfg, today) = "original"
    THEN SrsParts(sender)[1].local \o <<"@">> \o SrsParts(sender)[1].domain
    ELSE sender
=============================================================================
