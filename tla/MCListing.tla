------------------------------ MODULE MCListing ------------------------------
(* A small catalogue, bodies and questions for Listing.                    *)
EXTENDS Listing

At(host) == [form |-> "host:port", host |-> host, port |-> 5520, space |-> "none"]
Padded(host, space) == [At(host) EXCEPT !.space = space]
Named(host) == [form |-> "host", host |-> host, port |-> 0, space |-> "none"]
Entry(ip, domain, region, tags, words, likes) ==
    [ip |-> ip, domain |-> domain, region |-> region, tags |-> tags,
     words |-> words, likes |-> likes]

\* Hosts are as long as their number: no two rows share one.
ThreeServers ==
    <<Entry(At(1), Null, "EUROPE", {"PVP"}, {"SKY"}, 1),
      Entry(Null, Named(2), "ASIA", {"PVE", "RP"}, {"SKY"}, 0),
      Entry(Empty, Named(3), "EUROPE", {"RP"}, {}, 1)>>

Body(ip, region, tags, length) ==
    [ip |-> ip, domain |-> Null, region |-> region, tags |-> tags, words |-> {"SKY"},
     name |-> [length |-> 5, padded |-> FALSE],
     nameId |-> [length |-> 5, padded |-> FALSE, kebab |-> TRUE],
     description |-> [length |-> length, padded |-> FALSE], poster |-> Null]

\* The last four are refused.
Bodies ==
    {Body(Padded(4, "after"), "EUROPE", {"RP"}, 10), Body(Named(4), "EUROPE", {"RP"}, 10),
     Body(At(4), "MARS", {"RP"}, 10), Body(At(4), "ASIA", {}, 10), Body(At(4), "ASIA", {"RP"}, 9)}

\* The last one is refused.
Edits ==
    {[ip |-> Empty, domain |-> Empty], [region |-> "EUROPE", tags |-> {}],
     [ip |-> Padded(5, "before")], [ip |-> Padded(5, "after")]}

Pages(region, tags, likes, createdAt, limit) ==
    [kind |-> "page", region |-> region, tags |-> tags, likes |-> likes,
     createdAt |-> createdAt, limit |-> limit]
Search(words, limit) == [kind |-> "search", words |-> words, limit |-> limit]

Questions ==
    {Pages(Null, {}, Null, Null, 1), Pages("EUROPE", {}, "asc", "desc", 1),
     Pages(Null, {"RP", "PVP"}, Null, "asc", 2), Pages(Null, {}, "desc", Null, 1),
     Pages(Null, {}, Null, Null, 0), Search({"SKY"}, 1), Search({"RP"}, 0),
     [kind |-> "one", id |-> 3], [kind |-> "statuses", ids |-> <<4, 2, 1, 3>>]}
=============================================================================
