----------------------------- MODULE Validation -----------------------------
(***************************************************************************)
(* What a request body must be like before the catalogue looks at it.  A   *)
(* field stands for what the checks tell apart: a text for its length and  *)
(* the spaces around it, an address for its form, its host and port and    *)
(* where it has a space.  Validate returns the fields with an error, so    *)
(* that a body passes if there are none.                                   *)
(***************************************************************************)
EXTENDS Integers

CONSTANT Null   \* an optional field that is absent

ValidRegions == {"CIS", "EUROPE", "ASIA", "AFRICA", "NORTHAMERICA", "SOUTHAMERICA"}
ValidTags == {"PVP", "PVE", "RP", "RPG", "VANILLA", "SURVIVAL", "MINIGAMES"}

(* Addresses.  "blank" is nothing but space, "garbled" has colons that do  *)
(* not split it into host and port.                                        *)

Form == {"blank", "host", "host:port", "garbled"}
Space == {"none", "before", "after", "inside"}
Port == 1 .. 65535
Address == [form : Form, host : Nat, port : Nat, space : Space]

Empty == [form |-> "blank", host |-> 0, port |-> 0, space |-> "none"]

TrimSpace(a) == IF a.space = "inside" THEN a ELSE [a EXCEPT !.space = "none"]

Given(a) == a # Null /\ a.form # "blank"

\* A space behind the port keeps Atoi from reading it.
PortOK(a) == a.port \in Port /\ a.space # "after"

\* Mutant: an address without a port will do.
HostPortOrHost(a) == a.form = "host" \/ (a.form = "host:port" /\ PortOK(a) /\ a.host > 0)

isValidHostPort(a) == a.form = "host:port" /\ PortOK(a) /\ a.host > 0

isValidDomain(a) ==
    /\ a.form = "host" \/ (a.form = "host:port" /\ PortOK(a))
    /\ a.host \in 1 .. 254 /\ a.space = "none"

(* Texts.                                                                  *)

TextOK(t, least, most) == ~t.padded /\ t.length \in least .. most

NameOK(t) == TextOK(t, 2, 30)
NameIdOK(t) == TextOK(t, 2, 30) /\ t.kebab
DescriptionOK(t) == TextOK(t, 10, 300)

(* The bodies.                                                             *)

Error(field, wrong) == IF wrong THEN {field} ELSE {}

CreateErrors(dto) ==
    Error("_atLeastOne", ~Given(dto.ip) /\ ~Given(dto.domain)) \cup
    Error("ip", Given(dto.ip) /\ ~isValidHostPort(TrimSpace(dto.ip))) \cup
    Error("domain", Given(dto.domain) /\ ~isValidDomain(TrimSpace(dto.domain))) \cup
    Error("name", ~NameOK(dto.name)) \cup
    Error("nameId", ~NameIdOK(dto.nameId)) \cup
    Error("description", ~DescriptionOK(dto.description)) \cup
    Error("tags", dto.tags = {} \/ ~(dto.tags \subseteq ValidTags)) \cup
    Error("region", dto.region \notin ValidRegions) \cup
    Error("poster", dto.poster = "not a URL")

\* Every field may be absent; an address is checked as it is, and one that
\* is blank, tags that are none and any poster pass.
UpdateErrors(dto) ==
    LET has(field) == field \in DOMAIN dto
    IN  Error("ip", has("ip") /\ Given(dto.ip) /\ ~isValidHostPort(dto.ip)) \cup
        Error("domain", has("domain") /\ Given(dto.domain) /\ ~isValidDomain(dto.domain)) \cup
        Error("name", has("name") /\ ~NameOK(dto.name)) \cup
        Error("nameId", has("nameId") /\ ~NameIdOK(dto.nameId)) \cup
        Error("description", has("description") /\ ~DescriptionOK(dto.description)) \cup
        Error("tags", has("tags") /\ ~(dto.tags \subseteq ValidTags)) \cup
        Error("region", has("region") /\ dto.region \notin ValidRegions)

PageErrors(page, quantity) ==
    Error("page", page < 0) \cup Error("quantity", quantity \notin 1 .. 50)
=============================================================================
