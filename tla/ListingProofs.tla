---------------------------- MODULE ListingProofs ----------------------------
(***************************************************************************)
(* What holds of Listing for all rows, bodies and questions: a server      *)
(* shown as liked was voted for, no status that was asked for is missing,  *)
(* and a visitor who turns pages misses few servers.                       *)
(***************************************************************************)
EXTENDS Listing, FiniteSetTheorems, SequenceTheorems, TLAPS

\* What a SELECT returns, and what is shown of it; what is shown of a status.
Found == [id : Nat, likes : Nat]
Seen == [id : Nat, likes : Nat, liked : BOOLEAN]
Online == [id : Nat, online : BOOLEAN \cup {Null}]

ShownIds == {shown[i].id : i \in DOMAIN shown}

\* Where the visitor's request stands, and what it has in hand there.
StageOK ==
    /\ pc = "idle" => /\ query = NoQuery /\ rows = <<>> /\ shown = <<>> /\ page = 0
                      /\ moved = 0 /\ steady = {} /\ ever = {} /\ own = {}
    /\ pc # "idle" => query \in Query
    /\ pc = "select" => query.kind \in {"page", "search", "one"}
    /\ pc = "liked" => query.kind \in {"page", "one"} /\ rows \in Seq(Found)
    /\ pc = "answered" => query.kind = "search"
    /\ pc = "dial" => query.kind = "statuses" /\ rows \in Seq(Nat)
    /\ pc \in {"select", "done"} => rows = <<>>
    /\ shown \in IF query.kind = "statuses" THEN Seq(Online) ELSE Seq(Seen)
    /\ moved <= changes

\* Between the servers shown all along and those shown at some time there
\* are those that answer the question now.
QuestionOK ==
    pc # "idle" =>
        steady \subseteq Selected(query, server) /\ Selected(query, server) \subseteq ever

\* A vote that stands while a question is open is among those that stood
\* since.
VotesKnown == pc # "idle" => voted \subseteq own

\* A server that was to be shown all along is shown, or is still to come, and
\* none comes that was not asked for.
StatusesFollow ==
    query.kind = "statuses" =>
        /\ ShownIds \subseteq ever
        /\ steady \subseteq ShownIds \cup ToSet(rows)
        /\ ToSet(rows) \subseteq ToSet(query.ids)

\* All pages before the one at hand were full, and so there was a server
\* for each of them.
Full(n) == n = (page + 1) * Limit(query)

PagingOK ==
    IF query.kind \in {"page", "search"}
    THEN /\ Limit(query) \in Nat \ {0}
         /\ pc = "select" => Len(shown) = page * Limit(query)
         /\ pc = "liked" /\ Full(Len(shown) + Len(rows)) => page < MaxServers
         /\ pc = "answered" /\ Full(Len(shown)) => page < MaxServers
    ELSE page = 0

ListingInv ==
    /\ TypeOK /\ StageOK /\ QuestionOK /\ VotesKnown
    /\ StatusesFollow /\ PagingOK /\ LikedWasVoted

-----------------------------------------------------------------------------
(* Rows and bodies.                                                        *)

Fields == {"ip", "domain", "region", "tags", "words", "likes"}

IsRow(r) ==
    /\ r = [k \in Fields |-> r[k]]
    /\ r["ip"] \in Optional /\ r["domain"] \in Optional
    /\ r["region"] \in ValidRegions /\ r["tags"] \in SUBSET ValidTags
    /\ r["words"] \in SUBSET STRING /\ r["likes"] \in 0 .. MaxLikes
    /\ Stored(r["ip"])

LEMMA RowFields ==
    ASSUME NEW r
    PROVE  r \in Row <=> IsRow(r)
<1> DEFINE Tags == SUBSET ValidTags
           Words == SUBSET STRING
           Counts == 0 .. MaxLikes
<1>1. r \in Row <=> /\ r \in [ip : Optional, domain : Optional, region : ValidRegions,
                             tags : Tags, words : Words, likes : Counts]
                    /\ Stored(r["ip"])
    BY Zenon DEF Row
<1>2. r \in [ip : Optional, domain : Optional, region : ValidRegions,
            tags : Tags, words : Words, likes : Counts] <=>
          /\ r = [k \in Fields |-> r[k]]
          /\ r["ip"] \in Optional /\ r["domain"] \in Optional
          /\ r["region"] \in ValidRegions /\ r["tags"] \in Tags
          /\ r["words"] \in Words /\ r["likes"] \in Counts
    <2> HIDE DEF Tags, Words, Counts
    <2> QED
        BY DEF Fields
<1> QED
    BY <1>1, <1>2, Zenon DEF IsRow

LEMMA RowVoted ==
    ASSUME NEW r, r \in Row, NEW n \in 0 .. MaxLikes
    PROVE  [r EXCEPT !.likes = n] \in Row /\ [r EXCEPT !.likes = n].likes = n
<1> DEFINE e == [r EXCEPT !["likes"] = n]
<1>1. IsRow(r)
    BY RowFields
<1>2. r = [k \in Fields |-> r[k]]
    BY <1>1, Zenon DEF IsRow
<1>3. e = [[k \in Fields |-> r[k]] EXCEPT !["likes"] = n]
    BY <1>2, Zenon
<1>4. /\ e = [k \in Fields |-> e[k]] /\ e["likes"] = n
      /\ \A k \in Fields : k # "likes" => e[k] = r[k]
    BY <1>3 DEF Fields
<1> HIDE DEF e
<1>5. /\ e["ip"] = r["ip"] /\ e["domain"] = r["domain"] /\ e["region"] = r["region"]
      /\ e["tags"] = r["tags"] /\ e["words"] = r["words"]
    BY <1>4 DEF Fields
<1>6. IsRow(e)
    BY <1>1, <1>4, <1>5 DEF IsRow
<1>7. e \in Row
    BY <1>6, RowFields
<1> QED
    BY <1>4, <1>7 DEF e

\* What the checks of a body leave.
LEMMA ValidIsStored ==
    ASSUME NEW a, ~Given(a) \/ isValidHostPort(a)
    PROVE  Stored(a)
BY Zenon DEF Stored, isValidHostPort, PortOK

LEMMA TrimmedIsStored ==
    ASSUME NEW a \in Optional, ~Given(a) \/ isValidHostPort(TrimSpace(a))
    PROVE  Stored(a)
<1>1. CASE ~Given(a)
    BY <1>1, Zenon DEF Stored
<1>2. CASE Given(a) /\ isValidHostPort(TrimSpace(a))
    <2>1. a \in Address
        BY <1>2, Zenon DEF Given, Optional
    <2>2. TrimSpace(a).form = a.form /\ TrimSpace(a).port = a.port
        <3> DEFINE Ports == Nat
        <3>1. a \in [form : Form, host : Nat, port : Ports, space : Space]
            BY <2>1, Zenon DEF Address
        <3> HIDE DEF Ports
        <3> QED
            BY <3>1 DEF TrimSpace
    <2>3. TrimSpace(a).form = "host:port" /\ TrimSpace(a).port \in Port
        BY <1>2, Zenon DEF isValidHostPort, PortOK
    <2> QED
        BY <2>2, <2>3, Zenon DEF Stored
<1> QED
    BY <1>1, <1>2

LEMMA CreatePasses ==
    ASSUME NEW dto, CreateErrors(dto) = {}
    PROVE  /\ ~Given(dto.ip) \/ isValidHostPort(TrimSpace(dto.ip))
           /\ dto.tags \subseteq ValidTags /\ dto.region \in ValidRegions
<1>1. /\ Error("ip", Given(dto.ip) /\ ~isValidHostPort(TrimSpace(dto.ip))) = {}
      /\ Error("tags", dto.tags = {} \/ ~(dto.tags \subseteq ValidTags)) = {}
      /\ Error("region", dto.region \notin ValidRegions) = {}
    BY Zenon DEF CreateErrors
<1> QED
    BY <1>1, Zenon DEF Error

LEMMA UpdatePasses ==
    ASSUME NEW dto, UpdateErrors(dto) = {}
    PROVE  /\ "ip" \in DOMAIN dto => ~Given(dto.ip) \/ isValidHostPort(dto.ip)
           /\ "tags" \in DOMAIN dto => dto.tags \subseteq ValidTags
           /\ "region" \in DOMAIN dto => dto.region \in ValidRegions
<1>1. /\ Error("ip", "ip" \in DOMAIN dto /\ Given(dto.ip) /\ ~isValidHostPort(dto.ip)) = {}
      /\ Error("tags", "tags" \in DOMAIN dto /\ ~(dto.tags \subseteq ValidTags)) = {}
      /\ Error("region", "region" \in DOMAIN dto /\ dto.region \notin ValidRegions) = {}
    BY Zenon DEF UpdateErrors
<1> QED
    BY <1>1, Zenon DEF Error

LEMMA RowCreated ==
    ASSUME NEW dto \in Draft, CreateErrors(dto) = {}, NEW r,
           r = [c \in Column \cup {"likes"} |-> IF c = "likes" THEN 0 ELSE dto[c]]
    PROVE  r \in Row
<1>1. /\ r = [k \in Fields |-> r[k]] /\ r["likes"] = 0
      /\ r["ip"] = dto["ip"] /\ r["domain"] = dto["domain"] /\ r["region"] = dto["region"]
      /\ r["tags"] = dto["tags"] /\ r["words"] = dto["words"]
    BY DEF Fields, Column
<1>2. dto["ip"] \in Optional /\ dto["domain"] \in Optional /\ dto["words"] \in SUBSET STRING
    BY ListingAssumption
<1>3. /\ dto["tags"] \in SUBSET ValidTags /\ dto["region"] \in ValidRegions
      /\ Stored(dto["ip"])
    BY <1>2, CreatePasses, TrimmedIsStored
<1>4. 0 \in 0 .. MaxLikes
    BY ListingAssumption
<1>5. IsRow(r)
    BY <1>1, <1>2, <1>3, <1>4 DEF IsRow
<1> QED
    BY <1>5, RowFields

LEMMA RowEdited ==
    ASSUME NEW r, r \in Row, NEW dto \in Patch, UpdateErrors(dto) = {}, NEW e,
           e = [c \in DOMAIN r |-> IF c \in DOMAIN dto THEN dto[c] ELSE r[c]]
    PROVE  e \in Row /\ e.likes = r.likes
<1>1. IsRow(r)
    BY RowFields
<1>2. DOMAIN r = Fields
    BY <1>1 DEF IsRow
<1>3. /\ e = [k \in Fields |-> e[k]]
      /\ \A k \in Fields : e[k] = IF k \in DOMAIN dto THEN dto[k] ELSE r[k]
    BY <1>2
<1>4. /\ "likes" \notin DOMAIN dto
      /\ "ip" \in DOMAIN dto => dto["ip"] \in Address
      /\ "domain" \in DOMAIN dto => dto["domain"] \in Address
      /\ "words" \in DOMAIN dto => dto["words"] \in SUBSET STRING
    BY ListingAssumption
<1>5. /\ "ip" \in DOMAIN dto => Stored(dto["ip"])
      /\ "tags" \in DOMAIN dto => dto["tags"] \in SUBSET ValidTags
      /\ "region" \in DOMAIN dto => dto["region"] \in ValidRegions
    BY UpdatePasses, ValidIsStored
<1>6. e["ip"] \in Optional /\ Stored(e["ip"])
    BY <1>1, <1>3, <1>4, <1>5 DEF IsRow, Fields, Optional
<1>7. e["domain"] \in Optional
    BY <1>1, <1>3, <1>4 DEF IsRow, Fields, Optional
<1>8. e["region"] \in ValidRegions
    BY <1>1, <1>3, <1>5 DEF IsRow, Fields
<1>9. e["tags"] \in SUBSET ValidTags
    BY <1>1, <1>3, <1>5 DEF IsRow, Fields
<1>10. e["words"] \in SUBSET STRING
    BY <1>1, <1>3, <1>4 DEF IsRow, Fields
<1>11. e["likes"] = r["likes"]
    BY <1>3, <1>4 DEF Fields
<1>12. IsRow(e)
    BY <1>1, <1>3, <1>6, <1>7, <1>8, <1>9, <1>10, <1>11 DEF IsRow
<1> QED
    BY <1>11, <1>12, RowFields

-----------------------------------------------------------------------------
(* Changes by others.                                                      *)

LEMMA SelectedListed ==
    ASSUME NEW q, NEW table
    PROVE  Selected(q, table) \subseteq DOMAIN table
BY Zenon DEF Selected

LEMMA ChangeKeeps ==
    ASSUME ListingInv, NEW new, Change(new),
           new \in [DOMAIN new -> Row], DOMAIN new \subseteq 1 .. ids',
           ids' \in 0 .. MaxServers, ids <= ids',
           voted' \subseteq 1 .. ids',
           own \subseteq own', own' \subseteq 1 .. ids', pc = "idle" => own' = own,
           pc # "idle" => voted' \subseteq voted \cup own'
    PROVE  ListingInv'
<1>1. /\ TypeOK /\ StageOK /\ QuestionOK /\ VotesKnown
      /\ StatusesFollow /\ PagingOK /\ LikedWasVoted
    BY DEF ListingInv
<1>2. /\ server' = new /\ changes < MaxChanges /\ changes' = changes + 1
      /\ UNCHANGED <<pc, query, page, rows, shown>>
      /\ pc = "idle" => UNCHANGED <<steady, ever, moved>>
      /\ pc # "idle" => /\ steady' = steady \cap Selected(query, new)
                        /\ ever' = ever \cup Selected(query, new)
                        /\ moved' = moved + 1
    BY Zenon DEF Change
<1>3. steady' \subseteq steady /\ ever \subseteq ever'
    BY <1>2
<1>4. ids \in Nat /\ changes \in Nat /\ moved \in Nat /\ changes <= MaxChanges /\ moved <= changes
    BY <1>1, ListingAssumption DEF TypeOK, StageOK
<1>5. ids' \in Nat /\ 1 .. ids \subseteq 1 .. ids'
    BY <1>4
<1>6. ever' \subseteq 1 .. ids'
    <2>1. Selected(query, new) \subseteq 1 .. ids'
        BY SelectedListed
    <2>2. ever \subseteq 1 .. ids'
        BY <1>1, <1>5 DEF TypeOK
    <2> QED
        BY <1>2, <2>1, <2>2
<1>7. TypeOK'
    <2>1. steady' \subseteq ever'
        BY <1>1, <1>2 DEF TypeOK
    <2>2. changes' \in 0 .. MaxChanges /\ moved' \in 0 .. MaxChanges
        BY <1>2, <1>4, ListingAssumption
    <2>3. /\ pc' \in {"idle", "select", "liked", "answered", "dial", "done"}
          /\ query' \in Query \cup {NoQuery} /\ page' \in 0 .. MaxServers
        BY <1>1, <1>2 DEF TypeOK, NoQuery
    <2> QED
        BY <1>2, <1>6, <2>1, <2>2, <2>3 DEF TypeOK, Listed
<1>8. StageOK'
    <2>1. moved' <= changes'
        BY <1>2, <1>4
    <2>2. pc = "idle" => /\ query = NoQuery /\ rows = <<>> /\ shown = <<>> /\ page = 0
                         /\ moved' = 0 /\ steady' = {} /\ ever' = {} /\ own' = {}
        BY <1>1, <1>2 DEF StageOK
    <2> QED
        BY <1>1, <1>2, <2>1, <2>2 DEF StageOK
<1>9. QuestionOK'
    BY <1>1, <1>2, Zenon DEF QuestionOK
<1>10. VotesKnown'
    BY <1>1, <1>2 DEF VotesKnown
<1>12. StatusesFollow'
    BY <1>1, <1>2, <1>3 DEF StatusesFollow, ShownIds
<1>13. PagingOK'
    BY <1>1, <1>2 DEF PagingOK, Full
<1>14. LikedWasVoted'
    BY <1>1, <1>2 DEF LikedWasVoted
<1> QED
    BY <1>7, <1>8, <1>9, <1>10, <1>12, <1>13, <1>14 DEF ListingInv

LEMMA ListedFacts ==
    ASSUME ListingInv
    PROVE  /\ server \in [Listed -> Row] /\ Listed \subseteq 1 .. ids /\ Listed = DOMAIN server
           /\ ids \in Nat /\ ids <= MaxServers /\ MaxServers \in Nat
           /\ voted \subseteq 1 .. ids /\ own \subseteq 1 .. ids
           /\ \A id \in Listed : server[id] \in Row /\ server[id].likes \in Nat
<1>1. TypeOK
    BY DEF ListingInv
<1>2. ASSUME NEW id \in Listed PROVE server[id] \in Row /\ server[id].likes \in Nat
    <2>1. server[id] \in Row
        BY <1>1 DEF TypeOK
    <2> QED
        BY <2>1, RowFields, ListingAssumption DEF IsRow
<1> QED
    BY <1>1, <1>2, ListingAssumption DEF TypeOK, Listed

LEMMA CreateKeeps ==
    ASSUME ListingInv, NEW dto \in Draft, CreateServer(dto)
    PROVE  ListingInv'
<1>1. PICK row, new :
          /\ row = [c \in Column \cup {"likes"} |-> IF c = "likes" THEN 0 ELSE dto[c]]
          /\ new = [i \in Listed \cup {ids + 1} |-> IF i = ids + 1 THEN row ELSE server[i]]
          /\ Change(new) /\ CreateErrors(dto) = {} /\ ids < MaxServers
          /\ ids' = ids + 1 /\ UNCHANGED <<voted, own>>
    BY Zenon DEF CreateServer
<1>2. row \in Row
    BY <1>1, RowCreated
<1>3. /\ server \in [Listed -> Row] /\ Listed \subseteq 1 .. ids /\ ids \in Nat
      /\ voted \subseteq 1 .. ids /\ own \subseteq 1 .. ids /\ MaxServers \in Nat
    BY ListedFacts
<1>4. DOMAIN new = Listed \cup {ids + 1} /\ new \in [DOMAIN new -> Row]
    BY <1>1, <1>2, <1>3
<1>5. /\ ids' \in 0 .. MaxServers /\ ids <= ids' /\ DOMAIN new \subseteq 1 .. ids'
      /\ own' \subseteq 1 .. ids' /\ voted' \subseteq 1 .. ids'
    BY <1>1, <1>3, <1>4
<1>6. own \subseteq own' /\ (pc = "idle" => own' = own)
      /\ (pc # "idle" => voted' \subseteq voted \cup own')
    BY <1>1
<1> QED
    BY <1>1, <1>4, <1>5, <1>6, ChangeKeeps

\* The row of one server is replaced.
LEMMA EditKeeps ==
    ASSUME ListingInv, NEW id \in Listed, NEW row \in Row, NEW new,
           new = [server EXCEPT ![id] = row], Change(new),
           UNCHANGED ids, voted' \subseteq voted \cup {id},
           own \subseteq own', own' \subseteq own \cup {id}, pc = "idle" => own' = own,
           pc # "idle" => voted' \subseteq voted \cup own'
    PROVE  ListingInv'
<1>1. /\ server \in [Listed -> Row] /\ Listed \subseteq 1 .. ids /\ ids \in Nat
      /\ own \subseteq 1 .. ids /\ MaxServers \in Nat /\ ids <= MaxServers
      /\ voted \subseteq 1 .. ids
    BY ListedFacts
<1>2. DOMAIN new = Listed /\ new \in [DOMAIN new -> Row]
    BY <1>1
<1>3. /\ ids' \in 0 .. MaxServers /\ ids <= ids' /\ DOMAIN new \subseteq 1 .. ids'
      /\ own' \subseteq 1 .. ids' /\ voted' \subseteq 1 .. ids'
    BY <1>1, <1>2
<1> QED
    BY <1>2, <1>3, ChangeKeeps

LEMMA UpdateKeeps ==
    ASSUME ListingInv, NEW id \in 1 .. ids, NEW dto \in Patch, UpdateServer(id, dto)
    PROVE  ListingInv'
<1>1. PICK row, new :
          /\ row = [c \in DOMAIN server[id] |-> IF c \in DOMAIN dto THEN dto[c] ELSE server[id][c]]
          /\ new = [server EXCEPT ![id] = row]
          /\ Change(new) /\ UpdateErrors(dto) = {} /\ id \in Listed
          /\ UNCHANGED <<ids, voted, own>>
    BY Zenon DEF UpdateServer
<1>2. row \in Row
    BY <1>1, RowEdited, ListedFacts
<1>3. /\ voted' \subseteq voted \cup {id}
      /\ own \subseteq own' /\ own' \subseteq own \cup {id} /\ (pc = "idle" => own' = own)
      /\ (pc # "idle" => voted' \subseteq voted \cup own')
    BY <1>1, <1>2, ListedFacts
<1> QED
    BY <1>1, <1>2, <1>3, EditKeeps

LEMMA LikesKeeps ==
    ASSUME ListingInv, NEW id \in Listed, NEW n, Likes(id, n),
           UNCHANGED ids, voted' \subseteq voted \cup {id},
           own \subseteq own', own' \subseteq own \cup {id}, pc = "idle" => own' = own,
           pc # "idle" => voted' \subseteq voted \cup own'
    PROVE  ListingInv'
<1>1. PICK row, new :
          /\ row = [server[id] EXCEPT !.likes = n]
          /\ new = [server EXCEPT ![id] = row] /\ Change(new) /\ n \in 0 .. MaxLikes
    <2>1. [server EXCEPT ![id].likes = n] = [server EXCEPT ![id] = [server[id] EXCEPT !.likes = n]]
        OBVIOUS
    <2> QED
        BY <2>1, Zenon DEF Likes
<1>2. row \in Row
    BY <1>1, RowVoted, ListedFacts
<1> QED
    BY <1>1, <1>2, EditKeeps

LEMMA DeleteKeeps ==
    ASSUME ListingInv, NEW id \in 1 .. ids, DeleteServer(id)
    PROVE  ListingInv'
<1>1. PICK new :
          /\ new = [i \in Listed \ {id} |-> server[i]] /\ Change(new)
          /\ voted' \in {voted, voted \ {id}} /\ UNCHANGED <<ids, own>>
    BY Zenon DEF DeleteServer
<1>2. /\ server \in [Listed -> Row] /\ Listed \subseteq 1 .. ids /\ ids \in Nat
      /\ own \subseteq 1 .. ids /\ MaxServers \in Nat /\ ids <= MaxServers
      /\ voted \subseteq 1 .. ids
    BY ListedFacts
<1>3. DOMAIN new = Listed \ {id} /\ new \in [DOMAIN new -> Row]
    BY <1>1, <1>2
<1>4. /\ ids' \in 0 .. MaxServers /\ ids <= ids' /\ DOMAIN new \subseteq 1 .. ids'
      /\ own' \subseteq 1 .. ids' /\ own \subseteq own' /\ voted' \subseteq 1 .. ids'
    BY <1>1, <1>2, <1>3
<1>5. (pc = "idle" => own' = own) /\ (pc # "idle" => voted' \subseteq voted \cup own')
    BY <1>1
<1> QED
    BY <1>1, <1>3, <1>4, <1>5, ChangeKeeps

LEMMA VoteKeeps ==
    ASSUME ListingInv, NEW id \in 1 .. ids, Vote(id)
    PROVE  ListingInv'
<1>1. PICK n : Likes(id, n) /\ id \in Listed /\ UNCHANGED <<ids, voted, own>>
    BY Zenon DEF Vote
<1> QED
    BY <1>1, LikesKeeps

\* What the visitor takes back or gives.
LEMMA TakeOrGive ==
    ASSUME NEW id, Take(id) \/ Give(id)
    PROVE  /\ voted' \subseteq voted \cup {id}
           /\ own \subseteq own' /\ own' \subseteq own \cup {id} /\ (pc = "idle" => own' = own)
           /\ (pc # "idle" => voted' \subseteq voted \cup own')
BY DEF Take, Give

LEMMA ToggleUserLikeKeeps ==
    ASSUME ListingInv, NEW id \in 1 .. ids, ToggleUserLike(id)
    PROVE  ListingInv'
<1>1. id \in Listed /\ UNCHANGED ids /\ (Take(id) \/ Give(id))
    BY DEF ToggleUserLike
<1>2. PICK n : Likes(id, n)
    BY Zenon DEF ToggleUserLike
<1> QED
    BY <1>1, <1>2, TakeOrGive, LikesKeeps

LEMMA OthersKeep == ListingInv /\ Others => ListingInv'
BY CreateKeeps, UpdateKeeps, DeleteKeeps, VoteKeeps, ToggleUserLikeKeeps DEF Others

LEMMA ToggleGuestKeyKeeps ==
    ASSUME ListingInv, NEW id \in 1 .. ids, ToggleGuestKey(id)
    PROVE  ListingInv'
<1>1. /\ changes < MaxChanges /\ changes' = changes + 1
      /\ UNCHANGED <<server, ids, pc, query, page, rows, shown, steady, ever, moved>>
      /\ Take(id) \/ Give(id)
    BY DEF ToggleGuestKey
<1>2. /\ voted' \subseteq voted \cup {id}
      /\ own \subseteq own' /\ own' \subseteq own \cup {id} /\ (pc = "idle" => own' = own)
      /\ (pc # "idle" => voted' \subseteq voted \cup own')
    BY <1>1, TakeOrGive
<1>3. /\ TypeOK /\ StageOK /\ QuestionOK /\ VotesKnown
      /\ StatusesFollow /\ PagingOK /\ LikedWasVoted
    BY DEF ListingInv
<1>4. changes \in Nat /\ MaxChanges \in Nat /\ moved \in 0 .. MaxChanges /\ moved <= changes
    BY <1>3, ListingAssumption DEF TypeOK, StageOK
<1>5. TypeOK'
    <2>1. changes' \in 0 .. MaxChanges /\ voted' \subseteq 1 .. ids' /\ own' \subseteq 1 .. ids'
        BY <1>1, <1>2, <1>3, <1>4 DEF TypeOK
    <2> QED
        BY <1>1, <1>3, <2>1 DEF TypeOK, Listed, NoQuery
<1>6. StageOK'
    <2>1. moved' <= changes'
        BY <1>1, <1>4
    <2>2. pc = "idle" => own' = {}
        BY <1>2, <1>3 DEF StageOK
    <2> QED
        BY <1>1, <1>3, <2>1, <2>2 DEF StageOK
<1>7. QuestionOK'
    BY <1>1, <1>3 DEF QuestionOK
<1>8. VotesKnown'
    BY <1>1, <1>2, <1>3 DEF VotesKnown
<1>9. StatusesFollow' /\ PagingOK'
    BY <1>1, <1>3 DEF StatusesFollow, ShownIds, PagingOK, Full
<1>10. LikedWasVoted'
    BY <1>1, <1>2, <1>3 DEF LikedWasVoted
<1> QED
    BY <1>5, <1>6, <1>7, <1>8, <1>9, <1>10 DEF ListingInv

-----------------------------------------------------------------------------
(* The visitor.                                                            *)

LEMMA Parts ==
    ASSUME ListingInv
    PROVE  /\ TypeOK /\ StageOK /\ QuestionOK /\ VotesKnown
           /\ StatusesFollow /\ PagingOK /\ LikedWasVoted
BY DEF ListingInv

\* A visitor's step leaves the catalogue alone.
LEMMA CatalogueSame ==
    ASSUME TypeOK, VotesKnown, UNCHANGED catalogue,
           pc' \in {"idle", "select", "liked", "answered", "dial", "done"},
           query' \in Query \cup {NoQuery}, page' \in 0 .. MaxServers,
           steady' \subseteq ever', ever' \subseteq 1 .. ids,
           moved' \in 0 .. MaxChanges, own' \subseteq 1 .. ids,
           pc' # "idle" => voted \subseteq own'
    PROVE  TypeOK' /\ VotesKnown'
<1>1. UNCHANGED <<server, ids, voted, changes>>
    BY DEF catalogue
<1> QED
    BY <1>1 DEF TypeOK, VotesKnown, Listed, NoQuery

LEMMA LimitPositive ==
    ASSUME NEW q \in Query, q.kind \in {"page", "search"}, Passes(q)
    PROVE  Limit(q) \in Nat \ {0}
<1>1. q.limit \in Int
    BY ListingAssumption
<1>2. CASE q.kind = "page"
    <2>1. PageErrors(page, q.limit) = {}
        BY <1>2 DEF Passes
    <2>2. q.limit \in 1 .. 50
        BY <2>1 DEF PageErrors, Error
    <2> QED
        BY <1>2, <2>2 DEF Limit
<1>3. CASE q.kind = "search"
    BY <1>1, <1>3 DEF Limit
<1> QED
    BY <1>2, <1>3

LEMMA AsksKeeps ==
    ASSUME ListingInv, NEW q \in Query, Asks(q),
           IF q.kind = "statuses" THEN pc' = "dial" /\ rows' = q.ids
           ELSE pc' = "select" /\ UNCHANGED rows,
           UNCHANGED <<catalogue, page, shown, moved>>
    PROVE  ListingInv'
<1>0. /\ TypeOK /\ StageOK /\ VotesKnown
    BY Parts
<1>1. /\ pc = "idle" /\ Passes(q) /\ query' = q
      /\ steady' = Selected(q, server) /\ ever' = Selected(q, server) /\ own' = voted
    BY Zenon DEF Asks
<1>2. /\ rows = <<>> /\ shown' = <<>> /\ page' = 0 /\ moved' = 0 /\ voted \subseteq 1 .. ids
      /\ server' = server /\ changes' = changes /\ changes \in Nat
    BY <1>0, <1>1, ListingAssumption DEF StageOK, catalogue, TypeOK
<1>3. /\ q.kind \in {"page", "search", "one", "statuses"}
      /\ q.kind = "statuses" => q.ids \in Seq(Nat)
    BY ListingAssumption
<1>4. Selected(q, server) \subseteq 1 .. ids
    BY SelectedListed, ListedFacts
<1>5. TypeOK' /\ VotesKnown'
    <2>1. 0 \in 0 .. MaxServers /\ 0 \in 0 .. MaxChanges
        BY ListingAssumption
    <2>2. pc' \in {"idle", "select", "liked", "answered", "dial", "done"}
        OBVIOUS
    <2> QED
        BY <1>0, <1>1, <1>2, <1>4, <2>1, <2>2, CatalogueSame
<1>6. StageOK'
    <2>1. shown' \in Seq(Online) /\ shown' \in Seq(Seen)
        BY <1>2
    <2> QED
        BY <1>1, <1>2, <1>3, <2>1 DEF StageOK
<1>7. QuestionOK'
    BY <1>1, <1>2, Zenon DEF QuestionOK
<1>8. LikedWasVoted'
    BY <1>2 DEF LikedWasVoted
<1>9. StatusesFollow'
    <2> SUFFICES ASSUME q.kind = "statuses" PROVE StatusesFollow'
        BY <1>1 DEF StatusesFollow
    <2>1. Selected(q, server) \subseteq ToSet(q.ids)
        BY DEF Selected
    <2>2. ShownIds' = {} /\ rows' = q.ids
        BY <1>2 DEF ShownIds
    <2> QED
        BY <1>1, <2>1, <2>2 DEF StatusesFollow
<1>10. PagingOK'
    <2>1. q.kind \in {"page", "search"} => Limit(q) \in Nat \ {0}
        BY <1>1, LimitPositive
    <2>2. q.kind \in {"page", "search"} => Len(shown') = page' * Limit(q)
        BY <1>2, <2>1
    <2>3. q.kind \in {"page", "search"} => pc' = "select"
        OBVIOUS
    <2> QED
        BY <1>1, <1>2, <2>1, <2>2, <2>3 DEF PagingOK
<1> QED
    BY <1>5, <1>6, <1>7, <1>8, <1>9, <1>10 DEF ListingInv

LEMMA AskKeeps ==
    ASSUME ListingInv, NEW q \in Query, Ask(q) \/ AskStatuses(q)
    PROVE  ListingInv'
<1>1. /\ Asks(q) /\ UNCHANGED <<catalogue, page, shown, moved>>
      /\ IF q.kind = "statuses" THEN pc' = "dial" /\ rows' = q.ids
         ELSE pc' = "select" /\ UNCHANGED rows
    BY DEF Ask, AskStatuses
<1> QED
    BY <1>1, AsksKeeps

LEMMA LeaveKeeps ==
    ASSUME ListingInv, Leave
    PROVE  ListingInv'
<1>0. /\ TypeOK /\ StageOK /\ VotesKnown
    BY Parts
<1>1. /\ pc' = "idle" /\ query' = NoQuery /\ page' = 0 /\ rows' = <<>> /\ shown' = <<>>
      /\ steady' = {} /\ ever' = {} /\ moved' = 0 /\ own' = {}
      /\ UNCHANGED catalogue
    BY DEF Leave, Reset
<1>2. NoQuery.kind = "none"
    BY DEF NoQuery
<1>3. 0 \in 0 .. MaxServers /\ 0 \in 0 .. MaxChanges
    BY ListingAssumption
<1>4. TypeOK' /\ VotesKnown'
    BY <1>0, <1>1, <1>3, CatalogueSame
<1>5. changes' \in Nat
    BY <1>0, <1>1, ListingAssumption DEF catalogue, TypeOK
<1>6. StageOK'
    BY <1>1, <1>2, <1>5 DEF StageOK
<1>7. QuestionOK' /\ LikedWasVoted' /\ StatusesFollow' /\ PagingOK'
    BY <1>1, <1>2 DEF QuestionOK, LikedWasVoted, StatusesFollow, PagingOK
<1> QED
    BY <1>4, <1>6, <1>7 DEF ListingInv

\* What a SELECT reads of listed servers.
LEMMA ShownFound ==
    ASSUME ListingInv, NEW t \in Seq(Listed)
    PROVE  Shown(t) \in Seq(Found) /\ Len(Shown(t)) = Len(t)
<1>0. /\ Listed \subseteq 1 .. ids /\ ids \in Nat
      /\ \A id \in Listed : server[id].likes \in Nat
    BY ListedFacts
<1>1. Listed \subseteq Nat
    BY <1>0
<1>2. /\ DOMAIN Shown(t) = 1 .. Len(t) /\ Len(t) \in Nat
      /\ \A i \in 1 .. Len(t) :
            t[i] \in Listed /\ Shown(t)[i] = [id |-> t[i], likes |-> server[t[i]].likes]
    BY DEF Shown
<1>3. ASSUME NEW i \in 1 .. Len(t) PROVE Shown(t)[i] \in Found
    <2>1. t[i] \in Nat /\ server[t[i]].likes \in Nat
        BY <1>0, <1>1, <1>2
    <2>2. Shown(t)[i] = [id |-> t[i], likes |-> server[t[i]].likes]
        BY <1>2
    <2> QED
        BY <2>1, <2>2 DEF Found
<1>4. Shown(t) = [i \in 1 .. Len(t) |-> Shown(t)[i]]
    BY DEF Shown
<1> QED
    BY <1>2, <1>3, <1>4

LEMMA FlaggedSeen ==
    ASSUME NEW row \in Found, NEW flag \in BOOLEAN
    PROVE  /\ Flagged(row, flag) \in Seen /\ Flagged(row, flag).id = row.id
           /\ Flagged(row, flag).likes = row.likes /\ Flagged(row, flag).liked = flag
<1> DEFINE Flags == BOOLEAN
<1>1. row.id \in Nat /\ row.likes \in Nat /\ flag \in Flags
    BY DEF Found
<1> HIDE DEF Flags
<1>2. [id |-> row.id, likes |-> row.likes, liked |-> flag] \in [id : Nat, likes : Nat, liked : Flags]
    BY <1>1
<1> QED
    BY <1>2 DEF Flagged, Seen, Flags

LEMMA MaxIs == ASSUME NEW S, NEW m \in S, \A y \in S : m >= y
               PROVE  Max(S) \in S /\ \A y \in S : Max(S) >= y
BY Zenon DEF Max

LEMMA MinIs == ASSUME NEW S, NEW m \in S, \A y \in S : m <= y
               PROVE  Min(S) \in S /\ \A y \in S : Min(S) <= y
BY Zenon DEF Min

\* A page is no longer than the limit, and within what was selected.
LEMMA CutIsPage ==
    ASSUME NEW q, NEW S, NEW s \in Seq(S), Limit(q) \in Nat \ {0}, page \in Nat
    PROVE  /\ Cut(q, s) \in Seq(S) /\ Len(Cut(q, s)) <= Limit(q)
           /\ Len(Cut(q, s)) = Limit(q) => (page + 1) * Limit(q) <= Len(s)
           /\ Len(Cut(q, s)) < Limit(q) => Len(s) <= page * Limit(q) + Len(Cut(q, s))
           /\ \A i \in 1 .. Len(Cut(q, s)) :
                 page * Limit(q) + i \in 1 .. Len(s) /\ Cut(q, s)[i] = s[page * Limit(q) + i]
<1> DEFINE L == Limit(q)
           o == page * L
           n == Len(s)
           m == Max({0, n - o})
           k == Min({L, m})
<1>1. L \in Nat /\ L > 0 /\ n \in Nat /\ o \in Nat
    OBVIOUS
<1>2. Cut(q, s) = [i \in 1 .. k |-> s[o + i]]
    BY DEF Cut, Offset
<1>3. (page + 1) * L = o + L
    OBVIOUS
<1> HIDE DEF L, o, n
<1>4. (m = 0 /\ n <= o) \/ (m = n - o /\ m > 0)
    <2>1. \E x \in {0, n - o} : \A y \in {0, n - o} : x >= y
        BY <1>1
    <2>2. m \in {0, n - o} /\ \A y \in {0, n - o} : m >= y
        BY <2>1, MaxIs
    <2> QED
        BY <1>1, <2>2
<1> HIDE DEF m
<1>5. k \in Nat /\ k <= L /\ k <= m /\ (k = L \/ k = m)
    <2>1. \E x \in {L, m} : \A y \in {L, m} : x <= y
        BY <1>1, <1>4
    <2>2. k \in {L, m} /\ \A y \in {L, m} : k <= y
        BY <2>1, MinIs
    <2> QED
        BY <1>1, <1>4, <2>2
<1> HIDE DEF k
<1>6. ASSUME NEW i \in 1 .. k PROVE o + i \in 1 .. n /\ s[o + i] \in S
    <2>1. o + i \in 1 .. n
        BY <1>1, <1>4, <1>5
    <2> QED
        BY <2>1 DEF n
<1>7. Cut(q, s) \in Seq(S) /\ Len(Cut(q, s)) = k
    BY <1>2, <1>5, <1>6
<1>8. (k = L => o + L <= n) /\ (k < L => n <= o + k)
    BY <1>1, <1>4, <1>5
<1>9. \A i \in 1 .. k : o + i \in 1 .. n /\ Cut(q, s)[i] = s[o + i]
    BY <1>2, <1>6
<1> QED
    BY <1>3, <1>5, <1>7, <1>8, <1>9 DEF L, n, o

\* A query selects each server once.
LEMMA OrderedFits ==
    ASSUME ListingInv, NEW q, NEW s \in Ordered(q)
    PROVE  s \in Seq(Listed) /\ Len(s) <= MaxServers
<1> DEFINE S == Selected(q, server)
           n == Cardinality(S)
<1>1. /\ S \subseteq Listed /\ Listed \subseteq 1 .. ids /\ ids \in Nat
      /\ ids <= MaxServers /\ MaxServers \in Nat
    BY SelectedListed, ListedFacts
<1>2. n \in Nat /\ n <= ids
    <2>1. IsFiniteSet(1 .. ids) /\ Cardinality(1 .. ids) = ids
        BY <1>1, FS_Interval
    <2>2. S \subseteq 1 .. ids
        BY <1>1
    <2> QED
        BY <2>1, <2>2, FS_Subset, FS_CardinalityType
<1>3. s \in SetToSeqs(S)
    BY DEF Ordered
<1>4. s \in [1 .. n -> S]
    BY <1>3 DEF SetToSeqs
<1> HIDE DEF S, n
<1>5. s \in Seq(Listed) /\ Len(s) = n
    <2>1. /\ DOMAIN s = 1 .. n /\ \A i \in 1 .. n : s[i] \in Listed
          /\ s = [i \in 1 .. n |-> s[i]]
        BY <1>1, <1>4
    <2> QED
        BY <1>2, <2>1
<1> QED
    BY <1>1, <1>2, <1>5

\* What does not depend on where the request stands.
LEMMA StepOfRequest ==
    ASSUME ListingInv, pc # "idle", UNCHANGED <<catalogue, query, ever, moved, own>>,
           pc' \in {"select", "liked", "answered", "dial", "done"},
           page' \in 0 .. MaxServers, steady' \subseteq steady
    PROVE  /\ TypeOK' /\ VotesKnown' /\ QuestionOK'
           /\ query \in Query /\ moved' <= changes'
<1>0. TypeOK /\ StageOK /\ VotesKnown /\ QuestionOK
    BY Parts
<1>1. /\ server' = server /\ changes' = changes /\ query' = query /\ ever' = ever
      /\ moved' = moved /\ own' = own
    BY DEF catalogue
<1>2. steady' \subseteq ever' /\ ever' \subseteq 1 .. ids /\ moved' \in 0 .. MaxChanges
      /\ own' \subseteq 1 .. ids /\ query' \in Query \cup {NoQuery} /\ voted \subseteq own'
    BY <1>0, <1>1 DEF TypeOK, VotesKnown
<1>3. TypeOK' /\ VotesKnown'
    BY <1>0, <1>2, CatalogueSame
<1>4. QuestionOK'
    BY <1>0, <1>1 DEF QuestionOK
<1>5. query \in Query /\ moved' <= changes'
    BY <1>0, <1>1 DEF StageOK
<1> QED
    BY <1>3, <1>4, <1>5

LEMMA PageBelow ==
    ASSUME NEW p \in Nat, NEW L \in Nat \ {0}, NEW n \in Nat, NEW most \in Nat,
           (p + 1) * L <= n, n <= most
    PROVE  p < most
<1>1. p + 1 <= (p + 1) * L
    <2>1. (p + 1) * L = (p + 1) * (L - 1) + (p + 1)
        OBVIOUS
    <2>2. (p + 1) * (L - 1) >= 0
        OBVIOUS
    <2> QED
        BY <2>1, <2>2
<1>2. (p + 1) * L \in Nat
    OBVIOUS
<1> QED
    BY <1>1, <1>2

LEMMA SelectPageKeeps ==
    ASSUME ListingInv, SelectPage
    PROVE  ListingInv'
<1>0. /\ TypeOK /\ StageOK /\ PagingOK /\ LikedWasVoted /\ StatusesFollow
    BY Parts
<1>1. PICK s, found :
          /\ s \in Ordered(query) /\ found = Shown(Cut(query, s))
          /\ IF query.kind = "page" THEN rows' = found /\ pc' = "liked" /\ UNCHANGED shown
             ELSE /\ shown' = shown \o [i \in DOMAIN found |-> Flagged(found[i], FALSE)]
                  /\ pc' = "answered" /\ rows' = found
    BY Zenon DEF SelectPage
<1>2. /\ pc = "select" /\ query.kind \in {"page", "search"}
      /\ UNCHANGED <<catalogue, query, page, history>>
    BY DEF SelectPage
<1>3. PICK L : L = Limit(query)
    OBVIOUS
<1>4. /\ L \in Nat \ {0} /\ Len(shown) = page * L /\ page \in Nat /\ page \in 0 .. MaxServers
      /\ MaxServers \in Nat
    BY <1>0, <1>2, <1>3, ListingAssumption DEF PagingOK, TypeOK
<1>5. s \in Seq(Listed) /\ Len(s) <= MaxServers /\ Len(s) \in Nat
    BY <1>1, OrderedFits
<1>6. /\ Cut(query, s) \in Seq(Listed) /\ Len(Cut(query, s)) <= L
      /\ Len(Cut(query, s)) = L => (page + 1) * L <= Len(s)
    BY <1>3, <1>4, <1>5, CutIsPage
<1>7. /\ found \in Seq(Found) /\ Len(found) <= L
      /\ Len(found) = L => (page + 1) * L <= Len(s)
    BY <1>1, <1>6, ShownFound
<1>8. page * L + Len(found) = (page + 1) * L => page < MaxServers
    <2> SUFFICES ASSUME page * L + Len(found) = (page + 1) * L PROVE page < MaxServers
        OBVIOUS
    <2>1. (page + 1) * L = page * L + L /\ page * L \in Nat /\ Len(found) \in Nat
        BY <1>4, <1>7
    <2>2. Len(found) = L
        BY <1>4, <2>1
    <2> QED
        BY <1>4, <1>5, <1>7, <2>2, PageBelow
<1>9. /\ server' = server /\ voted' = voted /\ query' = query /\ page' = page
      /\ UNCHANGED <<steady, ever, moved, own>>
    BY <1>2 DEF catalogue, history
<1>10. /\ TypeOK' /\ VotesKnown' /\ QuestionOK' /\ query' \in Query /\ moved' <= changes'
    <2>1. pc' \in {"select", "liked", "answered", "dial", "done"}
        BY <1>1
    <2> QED
        BY <1>2, <1>4, <1>9, <2>1, StepOfRequest
<1>11. shown \in Seq(Seen)
    BY <1>0, <1>2 DEF StageOK
<1>12. StatusesFollow' /\ LikedWasVoted'
    BY <1>0, <1>1, <1>2, <1>9 DEF StatusesFollow, LikedWasVoted
<1>13. CASE query.kind = "page"
    <2>1. rows' = found /\ pc' = "liked" /\ shown' = shown
        BY <1>1, <1>13
    <2>2. StageOK'
        BY <1>7, <1>9, <1>10, <1>11, <1>13, <2>1 DEF StageOK
    <2>3. PagingOK'
        BY <1>3, <1>4, <1>8, <1>9, <1>13, <2>1 DEF PagingOK, Full
    <2> QED
        BY <1>10, <1>12, <2>2, <2>3 DEF ListingInv
<1>14. CASE query.kind = "search"
    <2> DEFINE more == [i \in DOMAIN found |-> Flagged(found[i], FALSE)]
    <2>1. rows' = found /\ pc' = "answered" /\ shown' = shown \o more
        BY <1>1, <1>14
    <2>2. more \in Seq(Seen) /\ Len(more) = Len(found)
        <3>1. \A r \in Found : Flagged(r, FALSE) \in Seen
            BY FlaggedSeen
        <3>2. DOMAIN found = 1 .. Len(found) /\ Len(found) \in Nat
            BY <1>7
        <3>3. \A i \in 1 .. Len(found) : found[i] \in Found
            BY <1>7
        <3>4. PICK flagged : \A r \in Found : flagged[r] = Flagged(r, FALSE)
            <4>1. \A r \in Found : [x \in Found |-> Flagged(x, FALSE)][r] = Flagged(r, FALSE)
                BY Zenon
            <4> QED
                BY <4>1, Zenon
        <3>5. \A i \in 1 .. Len(found) : Flagged(found[i], FALSE) = flagged[found[i]]
            BY <3>3, <3>4, Zenon
        <3>6. more = [i \in 1 .. Len(found) |-> flagged[found[i]]]
            BY <3>2, <3>5, Zenon
        <3>7. \A i \in 1 .. Len(found) : flagged[found[i]] \in Seen
            BY <3>1, <3>3, <3>4, Zenon
        <3> HIDE DEF more
        <3> QED
            BY <3>2, <3>6, <3>7
    <2> HIDE DEF more
    <2>3. shown' \in Seq(Seen) /\ Len(shown') = page * L + Len(found)
        <3>1. shown' \in Seq(Seen) /\ Len(shown') = Len(shown) + Len(more)
            BY <1>11, <2>1, <2>2, ConcatProperties
        <3> QED
            BY <1>4, <2>2, <3>1
    <2>4. StageOK'
        BY <1>9, <1>10, <1>14, <2>1, <2>3 DEF StageOK
    <2>5. PagingOK'
        BY <1>3, <1>4, <1>8, <1>9, <1>14, <2>1, <2>3 DEF PagingOK, Full
    <2> QED
        BY <1>10, <1>12, <2>4, <2>5 DEF ListingInv
<1> QED
    BY <1>2, <1>13, <1>14

LEMMA SelectOneKeeps ==
    ASSUME ListingInv, SelectOne
    PROVE  ListingInv'
<1>0. /\ TypeOK /\ StageOK /\ PagingOK /\ LikedWasVoted /\ StatusesFollow
    BY Parts
<1>1. PICK t : t = GetServerByNameID(query.id) /\ rows' = Shown(t)
    BY Zenon DEF SelectOne
<1>2. /\ pc = "select" /\ query.kind = "one" /\ pc' = "liked"
      /\ UNCHANGED <<catalogue, query, page, shown, history>>
    BY DEF SelectOne
<1>3. t \in Seq(Listed)
    BY <1>1 DEF GetServerByNameID
<1>4. rows' \in Seq(Found)
    BY <1>1, <1>3, ShownFound
<1>5. /\ voted' = voted /\ UNCHANGED <<steady, ever, moved, own>>
    BY <1>2 DEF catalogue, history
<1>6. /\ TypeOK' /\ VotesKnown' /\ QuestionOK' /\ query' \in Query /\ moved' <= changes'
    <2>1. page' \in 0 .. MaxServers
        BY <1>0, <1>2 DEF TypeOK
    <2> QED
        BY <1>2, <1>5, <2>1, StepOfRequest
<1>7. StageOK'
    BY <1>0, <1>2, <1>4, <1>6 DEF StageOK
<1>8. PagingOK' /\ StatusesFollow' /\ LikedWasVoted'
    BY <1>0, <1>2, <1>5 DEF PagingOK, StatusesFollow, LikedWasVoted
<1> QED
    BY <1>6, <1>7, <1>8 DEF ListingInv

\* The look-up of a like moves the first row that was read behind those shown.
LEMMA RowMoves ==
    ASSUME ListingInv, GetUserLike
    PROVE  \E row, flag, seen :
              /\ flag \in BOOLEAN /\ (flag => row.id \in voted)
              /\ rows' \in Seq(Found) /\ Len(rows') = Len(rows) - 1 /\ row \in Found /\ row = rows[1]
              /\ \A i \in 1 .. Len(rows') : rows'[i] = rows[i + 1]
              /\ Len(rows) \in Nat \ {0}
              /\ seen \in Seen /\ seen.id = row.id /\ seen.liked = flag /\ seen.likes = row.likes
              /\ shown' \in Seq(Seen) /\ Len(shown') = Len(shown) + 1 /\ Len(shown) \in Nat
              /\ \A i \in 1 .. Len(shown) : shown'[i] = shown[i]
              /\ shown'[Len(shown) + 1] = seen
<1>0. /\ TypeOK /\ StageOK /\ PagingOK /\ LikedWasVoted /\ StatusesFollow
    BY Parts
<1>1. /\ pc = "liked" /\ rows # <<>> /\ rows' = Tail(rows)
      /\ UNCHANGED <<catalogue, pc, query, page, history>>
    BY DEF GetUserLike
<1>2. PICK row, flag :
          /\ row = Head(rows) /\ flag \in BOOLEAN /\ shown' = Append(shown, Flagged(row, flag))
          /\ flag => row.id \in voted
    <2>0. PICK row : row = Head(rows)
        OBVIOUS
    <2>1. CASE Liked(Head(rows).id \in voted)
        <3>0. shown' = Append(shown, Flagged(row, row.id \in voted))
            BY <2>0, <2>1, Zenon DEF Liked
        <3>1. CASE row.id \in voted
            <4>1. shown' = Append(shown, Flagged(row, TRUE))
                BY <3>0, <3>1, Zenon
            <4> QED
                BY <2>0, <3>1, <4>1, Zenon
        <3>2. CASE row.id \notin voted
            <4>1. shown' = Append(shown, Flagged(row, FALSE))
                <5>1. (row.id \in voted) = FALSE
                    BY <3>2
                <5> QED
                    BY <3>0, <5>1, Zenon
            <4> QED
                BY <2>0, <4>1, Zenon
        <3> QED
            BY <3>1, <3>2, Zenon
    <2>2. CASE Liked(FALSE)
        <3>1. shown' = Append(shown, Flagged(row, FALSE))
            BY <2>0, <2>2, Zenon DEF Liked
        <3> QED
            BY <2>0, <3>1, Zenon
    <2> QED
        BY <2>1, <2>2, Zenon DEF GetUserLike
<1>3. /\ voted' = voted /\ UNCHANGED <<steady, ever, moved, own>>
    BY <1>1 DEF catalogue, history
<1>4. query.kind \in {"page", "one"} /\ rows \in Seq(Found) /\ shown \in Seq(Seen)
    BY <1>0, <1>1 DEF StageOK
<1>5. PICK seen : seen = Flagged(row, flag)
    OBVIOUS
<1>6. /\ rows' \in Seq(Found) /\ Len(rows') = Len(rows) - 1 /\ row \in Found /\ row = rows[1]
      /\ \A i \in 1 .. Len(rows') : rows'[i] = rows[i + 1]
      /\ Len(rows) \in Nat \ {0}
    BY <1>1, <1>2, <1>4, HeadTailProperties
<1>7. seen \in Seen /\ seen.id = row.id /\ seen.liked = flag /\ seen.likes = row.likes
    BY <1>2, <1>5, <1>6, FlaggedSeen, Zenon
<1>8. /\ shown' \in Seq(Seen) /\ Len(shown') = Len(shown) + 1 /\ Len(shown) \in Nat
      /\ \A i \in 1 .. Len(shown) : shown'[i] = shown[i]
      /\ shown'[Len(shown) + 1] = seen
    BY <1>2, <1>4, <1>5, <1>7, AppendProperties
<1> QED
    BY <1>2, <1>6, <1>7, <1>8

LEMMA GetUserLikeKeeps ==
    ASSUME ListingInv, GetUserLike
    PROVE  ListingInv'
<1>0. /\ TypeOK /\ StageOK /\ PagingOK /\ LikedWasVoted /\ StatusesFollow
    BY Parts
<1>1. /\ pc = "liked" /\ rows # <<>> /\ rows' = Tail(rows)
      /\ UNCHANGED <<catalogue, pc, query, page, history>>
    BY DEF GetUserLike
<1>2. PICK row, flag, seen :
          /\ flag \in BOOLEAN /\ (flag => row.id \in voted)
          /\ rows' \in Seq(Found) /\ Len(rows') = Len(rows) - 1 /\ row \in Found /\ row = rows[1]
          /\ \A i \in 1 .. Len(rows') : rows'[i] = rows[i + 1]
          /\ Len(rows) \in Nat \ {0}
          /\ seen \in Seen /\ seen.id = row.id /\ seen.liked = flag /\ seen.likes = row.likes
          /\ shown' \in Seq(Seen) /\ Len(shown') = Len(shown) + 1 /\ Len(shown) \in Nat
          /\ \A i \in 1 .. Len(shown) : shown'[i] = shown[i]
          /\ shown'[Len(shown) + 1] = seen
    BY RowMoves
<1>3. /\ voted' = voted /\ UNCHANGED <<steady, ever, moved, own>>
    BY <1>1 DEF catalogue, history
<1>4. query.kind \in {"page", "one"} /\ rows \in Seq(Found) /\ shown \in Seq(Seen)
    BY <1>0, <1>1 DEF StageOK
<1>6. /\ rows' \in Seq(Found) /\ Len(rows') = Len(rows) - 1 /\ row \in Found /\ row = rows[1]
      /\ \A i \in 1 .. Len(rows') : rows'[i] = rows[i + 1]
      /\ Len(rows) \in Nat \ {0}
    BY <1>2
<1>7. seen \in Seen /\ seen.id = row.id /\ seen.liked = flag /\ seen.likes = row.likes
    BY <1>2
<1>8. /\ shown' \in Seq(Seen) /\ Len(shown') = Len(shown) + 1 /\ Len(shown) \in Nat
      /\ \A i \in 1 .. Len(shown) : shown'[i] = shown[i]
      /\ shown'[Len(shown) + 1] = seen
    BY <1>2
<1>9. /\ TypeOK' /\ VotesKnown' /\ QuestionOK' /\ query' \in Query /\ moved' <= changes'
    <2>1. page' \in 0 .. MaxServers
        BY <1>0, <1>1 DEF TypeOK
    <2> QED
        BY <1>1, <1>3, <2>1, StepOfRequest
<1>10. StageOK'
    BY <1>1, <1>4, <1>6, <1>8, <1>9 DEF StageOK
<1>11. voted \subseteq own
    BY <1>1, Parts DEF VotesKnown
<1>13. LikedWasVoted'
    <2> SUFFICES ASSUME NEW i \in 1 .. Len(shown')
                 PROVE  shown'[i].liked => shown'[i].id \in own
        BY <1>3, <1>8 DEF LikedWasVoted
    <2>1. CASE i \in 1 .. Len(shown)
        BY <1>0, <1>4, <1>8, <2>1 DEF LikedWasVoted
    <2>2. CASE i = Len(shown) + 1
        <3>1. shown'[i] = seen
            BY <1>8, <2>2
        <3>2. flag => row.id \in own
            BY <1>2, <1>11
        <3>3. seen.liked => seen.id \in own
            BY <1>7, <3>2, Zenon
        <3> QED
            BY <3>1, <3>3
    <2> QED
        BY <1>8, <2>1, <2>2
<1>14. StatusesFollow'
    BY <1>1, <1>4 DEF StatusesFollow
<1>15. PagingOK'
    <2>1. Len(shown') + Len(rows') = Len(shown) + Len(rows)
        BY <1>6, <1>8
    <2> QED
        BY <1>0, <1>1, <2>1 DEF PagingOK, Full
<1> QED
    BY <1>9, <1>10, <1>13, <1>14, <1>15 DEF ListingInv

LEMMA AnswerKeeps ==
    ASSUME ListingInv, Answer
    PROVE  ListingInv'
<1>0. /\ TypeOK /\ StageOK /\ PagingOK /\ LikedWasVoted /\ StatusesFollow
    BY Parts
<1>1. /\ (pc = "liked" /\ rows = <<>>) \/ pc = "answered"
      /\ rows' = <<>> /\ UNCHANGED <<catalogue, query, shown, history>>
      /\ IF query.kind \in {"page", "search"} /\ Full(Len(shown))
         THEN pc' = "select" /\ page' = page + 1
         ELSE pc' = "done" /\ UNCHANGED page
    BY Zenon DEF Answer, Full
<1>2. /\ voted' = voted /\ UNCHANGED <<steady, ever, moved, own>>
    BY <1>1 DEF catalogue, history
<1>3. page \in Nat /\ page <= MaxServers /\ MaxServers \in Nat
    BY <1>0, ListingAssumption DEF TypeOK
<1>4. query.kind \in {"page", "one", "search"} /\ shown \in Seq(Seen) /\ Len(shown) \in Nat
    BY <1>0, <1>1 DEF StageOK
<1>5. pc' = "select" => page < MaxServers
    <2> SUFFICES ASSUME query.kind \in {"page", "search"}, Full(Len(shown))
                 PROVE  page < MaxServers
        BY <1>1
    <2>1. CASE pc = "liked"
        <3>1. Len(shown) + Len(rows) = Len(shown)
            BY <1>1, <1>4, <2>1
        <3> QED
            BY <1>0, <2>1, <3>1 DEF PagingOK
    <2>2. CASE pc = "answered"
        BY <1>0, <2>2 DEF PagingOK
    <2> QED
        BY <1>1, <2>1, <2>2
<1>6. /\ TypeOK' /\ VotesKnown' /\ QuestionOK' /\ query' \in Query /\ moved' <= changes'
    <2>1. page' \in 0 .. MaxServers
        BY <1>1, <1>3, <1>5
    <2>2. pc # "idle" /\ pc' \in {"select", "liked", "answered", "dial", "done"}
        BY <1>1
    <2> QED
        BY <1>1, <1>2, <2>1, <2>2, StepOfRequest
<1>7. StageOK'
    BY <1>1, <1>4, <1>6 DEF StageOK
<1>8. StatusesFollow' /\ LikedWasVoted'
    <2>1. StatusesFollow'
        BY <1>1, <1>4 DEF StatusesFollow
    <2>2. LikedWasVoted'
        BY <1>0, <1>1, <1>2 DEF LikedWasVoted
    <2> QED
        BY <2>1, <2>2
<1>9. PagingOK'
    <2>1. CASE query.kind = "one"
        BY <1>0, <1>1, <2>1 DEF PagingOK
    <2>2. CASE query.kind \in {"page", "search"}
        <3>1. pc' = "select" => Len(shown') = page' * Limit(query)
            BY <1>1, <2>2 DEF Full
        <3> QED
            BY <1>0, <1>1, <2>2, <3>1 DEF PagingOK
    <2> QED
        BY <1>4, <2>1, <2>2
<1> QED
    BY <1>6, <1>7, <1>8, <1>9 DEF ListingInv

LEMMA StatusKind ==
    ASSUME NEW row
    PROVE  Status(row) \subseteq BOOLEAN \cup {Null}
BY Zenon DEF Status, CheckPort

LEMMA GetOnlineStatusKeeps ==
    ASSUME ListingInv, GetOnlineStatus
    PROVE  ListingInv'
<1>0. /\ TypeOK /\ StageOK /\ QuestionOK /\ StatusesFollow /\ PagingOK
    BY Parts
<1>1. PICK id : id = Head(rows)
    OBVIOUS
<1>2. /\ pc = "dial" /\ rows # <<>> /\ rows' = Tail(rows)
      /\ UNCHANGED <<catalogue, pc, query, page, ever, moved, own>>
    BY DEF GetOnlineStatus
<1>3. \/ /\ id \in Listed /\ UNCHANGED steady
         /\ \E on \in Status(server[id]) : shown' = Append(shown, [id |-> id, online |-> on])
      \/ steady' = steady \ {id} /\ UNCHANGED shown
    BY <1>1, Zenon DEF GetOnlineStatus
<1>4. /\ query.kind = "statuses" /\ query \in Query /\ rows \in Seq(Nat)
      /\ shown \in Seq(Online) /\ steady \subseteq ShownIds \cup ToSet(rows)
      /\ ShownIds \subseteq ever /\ ToSet(rows) \subseteq ToSet(query.ids)
    BY <1>0, <1>2 DEF StageOK, StatusesFollow
<1>5. /\ rows' \in Seq(Nat) /\ id \in Nat /\ ToSet(rows) = {id} \cup ToSet(rows')
    <2>1. /\ rows' \in Seq(Nat) /\ Len(rows') = Len(rows) - 1 /\ id \in Nat /\ id = rows[1]
          /\ \A i \in 1 .. Len(rows') : rows'[i] = rows[i + 1]
          /\ Len(rows) \in Nat \ {0}
        BY <1>1, <1>2, <1>4, HeadTailProperties
    <2>2. ASSUME NEW i \in 1 .. Len(rows') PROVE rows'[i] \in ToSet(rows)
        <3>1. i + 1 \in DOMAIN rows /\ rows'[i] = rows[i + 1]
            BY <1>4, <2>1
        <3> QED
            BY <3>1, Zenon DEF ToSet
    <2>3. ASSUME NEW i \in 1 .. Len(rows), i # 1 PROVE rows[i] \in ToSet(rows')
        <3>1. i - 1 \in 1 .. Len(rows') /\ (i - 1) + 1 = i
            BY <2>1, <2>3
        <3>2. rows'[i - 1] = rows[i] /\ i - 1 \in DOMAIN rows'
            BY <2>1, <3>1
        <3> QED
            BY <3>2, Zenon DEF ToSet
    <2>4. id \in ToSet(rows)
        <3>1. 1 \in DOMAIN rows /\ id = rows[1]
            BY <1>4, <2>1
        <3> QED
            BY <3>1, Zenon DEF ToSet
    <2>5. /\ DOMAIN rows = 1 .. Len(rows) /\ DOMAIN rows' = 1 .. Len(rows')
        BY <2>1, <1>4
    <2>6. ToSet(rows') \subseteq ToSet(rows)
        BY <2>2, <2>5, Zenon DEF ToSet
    <2>7. ToSet(rows) \subseteq {id} \cup ToSet(rows')
        <3> SUFFICES ASSUME NEW i \in 1 .. Len(rows) PROVE rows[i] \in {id} \cup ToSet(rows')
            BY <2>5, Zenon DEF ToSet
        <3>1. CASE i = 1
            BY <2>1, <3>1
        <3>2. CASE i # 1
            BY <2>3, <3>2
        <3> QED
            BY <3>1, <3>2
    <2> QED
        BY <2>1, <2>4, <2>6, <2>7
<1>6. /\ TypeOK' /\ VotesKnown' /\ QuestionOK' /\ query' \in Query /\ moved' <= changes'
    <2>1. page' \in 0 .. MaxServers
        BY <1>0, <1>2 DEF TypeOK
    <2>2. steady' \subseteq steady
        BY <1>3
    <2> QED
        BY <1>2, <2>1, <2>2, StepOfRequest
<1>7. ASSUME steady' = steady \ {id}, UNCHANGED shown
      PROVE  StageOK' /\ StatusesFollow'
    <2>1. StageOK'
        BY <1>2, <1>4, <1>5, <1>6, <1>7 DEF StageOK
    <2>2. ShownIds' = ShownIds
        BY <1>7 DEF ShownIds
    <2>3. StatusesFollow'
        BY <1>2, <1>4, <1>5, <1>7, <2>2 DEF StatusesFollow
    <2> QED
        BY <2>1, <2>3
<1>8. ASSUME id \in Listed, UNCHANGED steady,
             \E on \in Status(server[id]) : shown' = Append(shown, [id |-> id, online |-> on])
      PROVE  StageOK' /\ StatusesFollow'
    <2>1. PICK on, seen :
              /\ on \in Status(server[id]) /\ seen = [id |-> id, online |-> on]
              /\ shown' = Append(shown, seen)
        BY <1>8, Zenon
    <2>2. on \in BOOLEAN \cup {Null}
        BY <2>1, StatusKind
    <2>3. seen \in Online /\ seen.id = id
        <3> DEFINE Answers == BOOLEAN \cup {Null}
        <3>1. on \in Answers
            BY <2>2
        <3> HIDE DEF Answers
        <3>2. [id |-> id, online |-> on] \in [id : Nat, online : Answers]
            BY <1>5, <3>1
        <3>3. seen \in [id : Nat, online : Answers] /\ seen.id = id
            BY <2>1, <3>2
        <3> QED
            BY <3>3, Zenon DEF Online, Answers
    <2>4. /\ shown' \in Seq(Online) /\ Len(shown') = Len(shown) + 1 /\ Len(shown) \in Nat
          /\ \A i \in 1 .. Len(shown) : shown'[i] = shown[i]
          /\ shown'[Len(shown) + 1] = seen
        BY <1>4, <2>1, <2>3, AppendProperties
    <2>5. ShownIds' = ShownIds \cup {id}
        <3>1. DOMAIN shown = 1 .. Len(shown) /\ DOMAIN shown' = 1 .. Len(shown) + 1
            BY <1>4, <2>4
        <3>2. ASSUME NEW i \in DOMAIN shown' PROVE shown'[i].id \in ShownIds \cup {id}
            <4>1. CASE i = Len(shown) + 1
                BY <2>3, <2>4, <4>1
            <4>2. CASE i \in 1 .. Len(shown)
                BY <2>4, <3>1, <4>2 DEF ShownIds
            <4> QED
                BY <2>4, <3>1, <4>1, <4>2
        <3>3. ASSUME NEW i \in DOMAIN shown PROVE shown[i].id \in ShownIds'
            <4>1. i \in DOMAIN shown' /\ shown'[i] = shown[i]
                BY <2>4, <3>1
            <4> QED
                BY <4>1, Zenon DEF ShownIds
        <3>4. id \in ShownIds'
            <4>1. Len(shown) + 1 \in DOMAIN shown' /\ shown'[Len(shown) + 1].id = id
                BY <2>3, <2>4, <3>1
            <4> QED
                BY <4>1, Zenon DEF ShownIds
        <3>5. ShownIds' \subseteq ShownIds \cup {id}
            BY <3>2, Zenon DEF ShownIds
        <3>6. ShownIds \subseteq ShownIds'
            BY <3>3, Zenon DEF ShownIds
        <3> QED
            BY <3>4, <3>5, <3>6
    <2>6. id \in ever
        <3>1. id \in ToSet(query.ids) /\ id \in DOMAIN server
            BY <1>4, <1>5, <1>8 DEF Listed
        <3>2. id \in Selected(query, server)
            BY <1>4, <3>1 DEF Selected
        <3> QED
            BY <1>0, <1>2, <3>2 DEF QuestionOK
    <2>7. StageOK'
        BY <1>2, <1>4, <1>5, <1>6, <2>4 DEF StageOK
    <2>8. StatusesFollow'
        BY <1>2, <1>4, <1>5, <1>8, <2>5, <2>6 DEF StatusesFollow
    <2> QED
        BY <2>7, <2>8
<1>9. LikedWasVoted'
    BY <1>2, <1>4 DEF LikedWasVoted
<1>10. PagingOK'
    BY <1>0, <1>2, <1>4 DEF PagingOK
<1> QED
    BY <1>3, <1>6, <1>7, <1>8, <1>9, <1>10 DEF ListingInv

LEMMA AnswerStatusesKeeps ==
    ASSUME ListingInv, AnswerStatuses
    PROVE  ListingInv'
<1>0. /\ TypeOK /\ StageOK /\ StatusesFollow /\ PagingOK /\ LikedWasVoted
    BY Parts
<1>1. /\ pc = "dial" /\ rows = <<>> /\ pc' = "done"
      /\ UNCHANGED <<catalogue, query, page, rows, shown, history>>
    BY DEF AnswerStatuses
<1>2. UNCHANGED <<steady, ever, moved, own>>
    BY <1>1 DEF history
<1>3. query.kind = "statuses" /\ shown \in Seq(Online)
    BY <1>0, <1>1 DEF StageOK
<1>4. /\ TypeOK' /\ VotesKnown' /\ QuestionOK' /\ query' \in Query /\ moved' <= changes'
    <2>1. page' \in 0 .. MaxServers
        BY <1>0, <1>1 DEF TypeOK
    <2> QED
        BY <1>1, <1>2, <2>1, StepOfRequest
<1>5. StageOK'
    BY <1>1, <1>3, <1>4 DEF StageOK
<1>6. StatusesFollow'
    BY <1>0, <1>1, <1>2 DEF StatusesFollow, ShownIds
<1>7. LikedWasVoted' /\ PagingOK'
    BY <1>0, <1>1, <1>2, <1>3 DEF LikedWasVoted, PagingOK
<1> QED
    BY <1>4, <1>5, <1>6, <1>7 DEF ListingInv

-----------------------------------------------------------------------------
LEMMA ListingInit == Init => ListingInv
<1> SUFFICES ASSUME Init PROVE ListingInv
    OBVIOUS
<1>1. /\ server = [id \in DOMAIN Start |-> Start[id]] /\ ids = Len(Start)
      /\ voted = {} /\ changes = 0
      /\ pc = "idle" /\ query = NoQuery /\ page = 0 /\ rows = <<>> /\ shown = <<>>
      /\ steady = {} /\ ever = {} /\ moved = 0 /\ own = {}
    BY DEF Init
<1>2. NoQuery.kind = "none"
    BY DEF NoQuery
<1>3. /\ Start \in Seq(Row) /\ Len(Start) <= MaxServers
      /\ MaxServers \in Nat /\ MaxChanges \in Nat
    BY ListingAssumption
<1>4. TypeOK
    <2>1. /\ DOMAIN server = 1 .. ids /\ ids \in 0 .. MaxServers
          /\ server \in [DOMAIN server -> Row]
        BY <1>1, <1>3
    <2>2. changes \in 0 .. MaxChanges /\ moved \in 0 .. MaxChanges /\ page \in 0 .. MaxServers
        BY <1>1, <1>3
    <2> QED
        BY <1>1, <2>1, <2>2 DEF TypeOK, Listed
<1>5. StageOK
    BY <1>1 DEF StageOK
<1>6. QuestionOK /\ VotesKnown /\ StatusesFollow /\ PagingOK /\ LikedWasVoted
    BY <1>1, <1>2 DEF QuestionOK, VotesKnown, StatusesFollow, PagingOK, LikedWasVoted
<1> QED
    BY <1>4, <1>5, <1>6 DEF ListingInv

LEMMA ListingStep == ListingInv /\ [Next]_vars => ListingInv'
<1> SUFFICES ASSUME ListingInv, [Next]_vars PROVE ListingInv'
    OBVIOUS
<1>1. CASE Visit
    BY <1>1, AskKeeps, SelectPageKeeps, SelectOneKeeps, GetUserLikeKeeps, AnswerKeeps,
       GetOnlineStatusKeeps, AnswerStatusesKeeps, LeaveKeeps DEF Visit
<1>2. CASE Others
    BY <1>2, OthersKeep
<1>3. CASE UNCHANGED vars
    BY <1>3 DEF vars, ListingInv, TypeOK, Listed, StageOK, QuestionOK, VotesKnown,
       StatusesFollow, ShownIds, PagingOK, Full, LikedWasVoted
<1>4. CASE \E id \in 1 .. ids : ToggleGuestKey(id)
    BY <1>4, ToggleGuestKeyKeeps
<1> QED
    BY <1>1, <1>2, <1>3, <1>4 DEF Next

\* Whatever a visitor asks and others do meanwhile, the request is where its
\* data say: what was read, what is shown and what is still to come fit.
THEOREM ListingInvariant == Spec => []ListingInv
BY ListingInit, ListingStep, PTL DEF Spec

\* The state has its types: what passed the checks of a body is a row, and
\* a visitor who turns pages never gets beyond as many pages as there are
\* servers.
THEOREM TypeCorrect == Spec => []TypeOK
<1>1. ListingInv => TypeOK
    BY DEF ListingInv
<1> QED
    BY <1>1, ListingInvariant, PTL

\* FindPage and FindOne show a server as liked only if the visitor's like of
\* it stood at some time since the question.
THEOREM LikesWereVotes == Spec => []LikedWasVoted
<1>1. ListingInv => LikedWasVoted
    BY DEF ListingInv
<1> QED
    BY <1>1, ListingInvariant, PTL

\* The list of statuses has every server that was asked for, listed all
\* along and readable, and none that was not listed.
THEOREM AllStatusesAnswered == Spec => []StatusesComplete
<1>1. ListingInv => StatusesComplete
    <2> SUFFICES ASSUME ListingInv, pc = "done", query.kind = "statuses"
                 PROVE  steady \subseteq ShownIds /\ ShownIds \subseteq ever
        BY DEF StatusesComplete, ShownIds
    <2>1. rows = <<>>
        BY DEF ListingInv, StageOK
    <2>2. ToSet(rows) = {}
        BY <2>1 DEF ToSet
    <2> QED
        BY <2>2 DEF ListingInv, StatusesFollow
<1> QED
    BY <1>1, ListingInvariant, PTL

-----------------------------------------------------------------------------
(* One change and an order.                                                *)

\* A set grows by one element at most if all that is new to it is the same.
LEMMA GrowsByOne ==
    ASSUME NEW S, IsFiniteSet(S), NEW T, \A y, z \in T \ S : y = z
    PROVE  /\ IsFiniteSet(T) /\ Cardinality(T) \in Nat /\ Cardinality(S) \in Nat
           /\ Cardinality(T) <= Cardinality(S) + 1
<1>1. PICK x : T \subseteq S \cup {x}
    <2>1. CASE T \ S = {}
        BY <2>1
    <2>2. CASE T \ S # {}
        <3>1. PICK x : x \in T \ S
            BY <2>2
        <3>2. T \subseteq S \cup {x}
            BY <3>1
        <3> QED
            BY <3>2
    <2> QED
        BY <2>1, <2>2
<1>2. IsFiniteSet(S \cup {x}) /\ Cardinality(S \cup {x}) <= Cardinality(S) + 1
    BY FS_AddElement, FS_CardinalityType
<1> QED
    BY <1>1, <1>2, FS_Subset, FS_CardinalityType

\* Two orders, T with A before and U with B after one element x was moved,
\* put in or taken out; A[id] and B[id] are what comes before id.  Only one
\* element can have got k or more before it.
LEMMA OneCrosses ==
    ASSUME NEW T, NEW U, IsFiniteSet(T), IsFiniteSet(U),
           NEW x, T \ {x} = U \ {x},
           NEW A \in [T -> SUBSET T], NEW B \in [U -> SUBSET U],
           \A b \in U : b \notin B[b],
           \A a, b \in U : a \in B[b] => B[a] \subseteq B[b],
           \A a, b \in U : a = b \/ a \in B[b] \/ b \in B[a],
           \A id \in T \ {x} : A[id] \ {x} = B[id] \ {x},
           NEW k \in Nat,
           NEW y \in U, Cardinality(B[y]) >= k, ~(y \in T /\ Cardinality(A[y]) >= k),
           NEW z \in U, Cardinality(B[z]) >= k, ~(z \in T /\ Cardinality(A[z]) >= k)
    PROVE  y = z
<1>1. \A id \in T : A[id] \subseteq T /\ IsFiniteSet(A[id]) /\ Cardinality(A[id]) \in Nat
    BY FS_Subset, FS_CardinalityType
<1>2. \A id \in U : B[id] \subseteq U /\ IsFiniteSet(B[id]) /\ Cardinality(B[id]) \in Nat
    BY FS_Subset, FS_CardinalityType
<1>3. ASSUME NEW a \in U, NEW b \in U, a \in B[b]
      PROVE  Cardinality(B[a]) < Cardinality(B[b])
    <2>1. B[a] \subseteq B[b] /\ B[a] # B[b]
        BY <1>3
    <2>2. /\ Cardinality(B[a]) <= Cardinality(B[b])
          /\ Cardinality(B[b]) = Cardinality(B[a]) => B[b] = B[a]
        BY <1>2, <2>1, FS_Subset
    <2> QED
        BY <1>2, <2>1, <2>2
<1>4. ASSUME NEW id \in U, id # x, Cardinality(B[id]) >= k,
             ~(id \in T /\ Cardinality(A[id]) >= k)
      PROVE  x \in B[id] /\ Cardinality(B[id]) = k
    <2>1. id \in T \ {x} /\ Cardinality(A[id]) < k
        BY <1>1, <1>4
    <2>2. x \in B[id]
        <3> SUFFICES ASSUME x \notin B[id] PROVE FALSE
            OBVIOUS
        <3>1. B[id] \subseteq A[id]
            BY <2>1
        <3>2. Cardinality(B[id]) <= Cardinality(A[id])
            BY <1>1, <2>1, <3>1, FS_Subset
        <3> QED
            BY <1>1, <1>2, <1>4, <2>1, <3>2
    <2>3. B[id] \subseteq A[id] \cup {x}
        BY <2>1
    <2>4. IsFiniteSet(A[id]) /\ \A v, w \in B[id] \ A[id] : v = w
        BY <1>1, <2>1, <2>3
    <2>5. Cardinality(B[id]) <= Cardinality(A[id]) + 1
        BY <2>4, GrowsByOne
    <2> QED
        BY <1>1, <1>2, <1>4, <2>1, <2>2, <2>5
<1>5. ASSUME NEW id \in U, id # x, Cardinality(B[id]) >= k,
             ~(id \in T /\ Cardinality(A[id]) >= k), x \in U
      PROVE  Cardinality(B[x]) < k
    <2>1. x \in B[id] /\ Cardinality(B[id]) = k
        BY <1>4, <1>5
    <2> QED
        BY <1>3, <1>5, <2>1
<1>6. CASE y # x /\ z # x
    <2>1. Cardinality(B[y]) = k /\ Cardinality(B[z]) = k
        BY <1>4, <1>6
    <2>2. y \notin B[z] /\ z \notin B[y]
        BY <1>3, <2>1
    <2> QED
        BY <2>2
<1>7. CASE y = x /\ z # x
    BY <1>2, <1>5, <1>7
<1>8. CASE z = x /\ y # x
    BY <1>2, <1>5, <1>8
<1> QED
    BY <1>6, <1>7, <1>8

\* What comes before a server in an answer, and the servers from a place on.
Above(q, table) == [id \in Selected(q, table) |->
                       {x \in Selected(q, table) : Comes(q, table, x, id)}]
Ahead(q, table, k) == {id \in Selected(q, table) : Cardinality(Above(q, table)[id]) >= k}

TableOK(table) ==
    /\ IsFiniteSet(DOMAIN table) /\ DOMAIN table \subseteq Nat
    /\ \A id \in DOMAIN table : table[id].likes \in Nat

\* Ids are numbers, and so are likes: before a step and after it.
LEMMA ListedTable == ASSUME ListingInv PROVE TableOK(server)
<1>1. Listed \subseteq 1 .. ids /\ ids \in Nat /\ \A id \in Listed : server[id].likes \in Nat
    BY ListedFacts
<1>2. IsFiniteSet(1 .. ids)
    BY <1>1, FS_Interval
<1>3. IsFiniteSet(Listed)
    BY <1>1, <1>2, FS_Subset
<1> QED
    BY <1>1, <1>3 DEF TableOK, Listed

LEMMA TableAfter == ASSUME ListingInv' PROVE TableOK(server')
<1>1. /\ server' \in [DOMAIN server' -> Row] /\ DOMAIN server' \subseteq 1 .. ids' /\ ids' \in Nat
    BY ListingAssumption DEF ListingInv, TypeOK, Listed
<1>2. \A id \in DOMAIN server' : server'[id].likes \in Nat
    <2>1. ASSUME NEW r \in Row PROVE r.likes \in Nat
        BY <2>1, RowFields, ListingAssumption DEF IsRow
    <2> QED
        BY <1>1, <2>1
<1>3. IsFiniteSet(1 .. ids')
    BY <1>1, FS_Interval
<1>4. IsFiniteSet(DOMAIN server')
    BY <1>1, <1>3, FS_Subset
<1> QED
    BY <1>1, <1>2, <1>4 DEF TableOK

\* ORDER BY is an order of rows, and with created_at in it one of servers.
LEMMA OrderFacts ==
    ASSUME NEW q, NEW table, TableOK(table)
    PROVE  /\ \A a \in DOMAIN table : ~Comes(q, table, a, a)
           /\ \A a, b, c \in DOMAIN table :
                 Comes(q, table, a, b) /\ Comes(q, table, b, c) => Comes(q, table, a, c)
           /\ SortsFully(q) =>
                 \A a, b \in DOMAIN table :
                     a = b \/ Comes(q, table, a, b) \/ Comes(q, table, b, a)
<1>1. \A a \in DOMAIN table : a \in Nat /\ table[a].likes \in Nat
    BY DEF TableOK
<1>2. PICK o : o = Order(q)
    OBVIOUS
<1>3. \A a, b : Comes(q, table, a, b) <=>
        \/ o.likes # Null /\ (IF o.likes = "asc" THEN table[a].likes < table[b].likes
                              ELSE table[a].likes > table[b].likes)
        \/ /\ o.likes = Null \/ table[a].likes = table[b].likes
           /\ o.createdAt # Null /\ (IF o.createdAt = "asc" THEN a < b ELSE a > b)
    BY <1>2, Zenon DEF Comes, Before
<1>4. SortsFully(q) <=> o.createdAt # Null
    BY <1>2 DEF SortsFully
<1> QED
    BY <1>1, <1>3, <1>4

\* The servers before a server, in an answer to a question.
LEMMA AboveFacts ==
    ASSUME NEW q, NEW table, TableOK(table), NEW T, T = Selected(q, table),
           NEW A, A = Above(q, table)
    PROVE  /\ IsFiniteSet(T) /\ T \subseteq DOMAIN table /\ A \in [T -> SUBSET T]
           /\ \A b \in T : b \notin A[b]
           /\ \A a, b \in T : a \in A[b] => A[a] \subseteq A[b]
           /\ SortsFully(q) => \A a, b \in T : a = b \/ a \in A[b] \/ b \in A[a]
           /\ \A id \in T : Cardinality(A[id]) \in Nat
           /\ \A id \in T : \A x : x \in A[id] <=> x \in T /\ Comes(q, table, x, id)
           /\ \A k, id : id \in Ahead(q, table, k) <=> id \in T /\ Cardinality(A[id]) >= k
<1>1. T \subseteq DOMAIN table
    BY SelectedListed
<1>2. IsFiniteSet(T)
    BY <1>1, FS_Subset DEF TableOK
<1>3. \A id \in T : A[id] = {x \in T : Comes(q, table, x, id)}
    BY Zenon DEF Above
<1>4. A \in [T -> SUBSET T]
    BY <1>3 DEF Above
<1>5. \A id \in T : \A x : x \in A[id] <=> x \in T /\ Comes(q, table, x, id)
    BY <1>3
<1>6. ASSUME NEW id \in T PROVE Cardinality(A[id]) \in Nat
    BY <1>2, <1>4, FS_Subset, FS_CardinalityType
<1>7. \A k, id : id \in Ahead(q, table, k) <=> id \in T /\ Cardinality(A[id]) >= k
    BY DEF Ahead
<1>8. \A a, b, c \in T : Comes(q, table, a, b) /\ Comes(q, table, b, c) => Comes(q, table, a, c)
    BY <1>1, OrderFacts
<1>9. \A b \in T : b \notin A[b]
    BY <1>1, <1>5, OrderFacts
<1>10. \A a, b \in T : a \in A[b] => A[a] \subseteq A[b]
    BY <1>5, <1>8
<1>11. SortsFully(q) => \A a, b \in T : a = b \/ a \in A[b] \/ b \in A[a]
    BY <1>1, <1>5, OrderFacts
<1> QED
    BY <1>1, <1>2, <1>4, <1>5, <1>6, <1>7, <1>9, <1>10, <1>11

\* A change to the table is one to a single row.
LEMMA OneRowChanges ==
    ASSUME ListingInv, Others
    PROVE  /\ \E x : /\ Listed \ {x} = Listed' \ {x}
                     /\ \A id \in Listed \ {x} : server'[id] = server[id]
           /\ Change(server')
<1>1. ASSUME NEW dto \in Draft, CreateServer(dto)
      PROVE  /\ \E x : /\ Listed \ {x} = Listed' \ {x}
                       /\ \A id \in Listed \ {x} : server'[id] = server[id]
             /\ Change(server')
    <2>1. PICK row : Change([i \in Listed \cup {ids + 1} |-> IF i = ids + 1 THEN row ELSE server[i]])
        BY <1>1, Zenon DEF CreateServer
    <2>2. server' = [i \in Listed \cup {ids + 1} |-> IF i = ids + 1 THEN row ELSE server[i]]
        BY <2>1, Zenon DEF Change
    <2>3. Change(server')
        BY <2>1, <2>2, Zenon
    <2>4. /\ Listed' = Listed \cup {ids + 1}
          /\ \A id \in Listed \ {ids + 1} : server'[id] = server[id]
        BY <2>2 DEF Listed
    <2> QED
        BY <2>3, <2>4
<1>2. ASSUME NEW id, NEW row, id \in Listed, Change([server EXCEPT ![id] = row])
      PROVE  /\ \E x : /\ Listed \ {x} = Listed' \ {x}
                       /\ \A i \in Listed \ {x} : server'[i] = server[i]
             /\ Change(server')
    <2>1. server' = [server EXCEPT ![id] = row]
        BY <1>2, Zenon DEF Change
    <2>2. Change(server')
        BY <1>2, <2>1, Zenon
    <2>3. Listed' = Listed /\ \A i \in Listed \ {id} : server'[i] = server[i]
        BY <2>1, ListedFacts DEF Listed
    <2> QED
        BY <2>2, <2>3
<1>3. ASSUME NEW id, NEW dto \in Patch, UpdateServer(id, dto)
      PROVE  id \in Listed /\ \E row : Change([server EXCEPT ![id] = row])
    BY <1>3, Zenon DEF UpdateServer
<1>4. ASSUME NEW id, DeleteServer(id)
      PROVE  /\ \E x : /\ Listed \ {x} = Listed' \ {x}
                       /\ \A i \in Listed \ {x} : server'[i] = server[i]
             /\ Change(server')
    <2>1. Change([i \in Listed \ {id} |-> server[i]])
        BY <1>4, Zenon DEF DeleteServer
    <2>2. server' = [i \in Listed \ {id} |-> server[i]]
        BY <2>1, Zenon DEF Change
    <2>3. Change(server')
        BY <2>1, <2>2, Zenon
    <2>4. Listed' = Listed \ {id} /\ \A i \in Listed \ {id} : server'[i] = server[i]
        BY <2>2 DEF Listed
    <2> QED
        BY <2>3, <2>4
<1>5. ASSUME NEW id, Vote(id) \/ ToggleUserLike(id)
      PROVE  id \in Listed /\ \E row : Change([server EXCEPT ![id] = row])
    <2>1. id \in Listed /\ \E n : Change([server EXCEPT ![id].likes = n])
        BY <1>5, Zenon DEF Vote, ToggleUserLike, Likes
    <2> QED
        BY <2>1, Zenon
<1>6. PICK id : \/ \E dto \in Draft : CreateServer(dto)
                \/ \E dto \in Patch : UpdateServer(id, dto)
                \/ DeleteServer(id) \/ Vote(id) \/ ToggleUserLike(id)
    BY Zenon DEF Others
<1>7. CASE \E dto \in Draft : CreateServer(dto)
    BY <1>1, <1>7, Zenon
<1>8. CASE \E dto \in Patch : UpdateServer(id, dto)
    BY <1>2, <1>3, <1>8, Zenon
<1>9. CASE DeleteServer(id)
    BY <1>4, <1>9, Zenon
<1>10. CASE Vote(id) \/ ToggleUserLike(id)
    BY <1>2, <1>5, <1>10, Zenon
<1> QED
    BY <1>6, <1>7, <1>8, <1>9, <1>10, Zenon

\* The order of two rows is a matter of these two.
LEMMA ComesSame ==
    ASSUME NEW q, NEW a, NEW b, server'[a] = server[a], server'[b] = server[b]
    PROVE  Comes(q, server', a, b) <=> Comes(q, server, a, b)
BY DEF Comes, Before

\* A question goes through the rows one by one.
LEMMA SelectedSame ==
    ASSUME NEW q, q.kind \in {"page", "search"},
           NEW x, Listed \ {x} = Listed' \ {x},
           \A id \in Listed \ {x} : server'[id] = server[id]
    PROVE  Selected(q, server) \ {x} = Selected(q, server') \ {x}
<1>1. DOMAIN server \ {x} = DOMAIN server' \ {x}
    BY DEF Listed
<1>2. ASSUME NEW t
      PROVE  Selected(q, t) = {id \in DOMAIN t : IF q.kind = "page" THEN InFilters(q, t[id])
                                                 ELSE HasWords(q, t[id])}
    <2>1. CASE q.kind = "page"
        BY <2>1 DEF Selected
    <2>2. CASE q.kind = "search"
        BY <2>2 DEF Selected
    <2> QED
        BY <2>1, <2>2
<1>3. \A t, id : id \in Selected(q, t) <=>
           id \in DOMAIN t /\ IF q.kind = "page" THEN InFilters(q, t[id])
                              ELSE HasWords(q, t[id])
    BY <1>2
<1>4. \A id : id \in DOMAIN server \ {x} => server'[id] = server[id]
    BY DEF Listed
<1>5. \A id : id # x => (id \in Selected(q, server) <=> id \in Selected(q, server'))
    BY <1>1, <1>3, <1>4
<1> QED
    BY <1>5

\* After one change to the table at most one server has slipped behind any
\* place in the order, and at most one before it.
LEMMA Crossings ==
    ASSUME TableOK(server), TableOK(server'), NEW q, q.kind \in {"page", "search"},
           SortsFully(q), NEW x, Listed \ {x} = Listed' \ {x},
           \A id \in Listed \ {x} : server'[id] = server[id],
           NEW k \in Nat
    PROVE  /\ \A y, z \in Ahead(q, server', k) \ Ahead(q, server, k) : y = z
           /\ \A y, z \in Ahead(q, server, k) \ Ahead(q, server', k) : y = z
<1>0. PICK T, U, A, B : /\ T = Selected(q, server) /\ U = Selected(q, server')
                        /\ A = Above(q, server) /\ B = Above(q, server')
    BY Zenon
<1>1. T \ {x} = U \ {x}
    BY <1>0, SelectedSame
<1>2. /\ IsFiniteSet(T) /\ A \in [T -> SUBSET T]
      /\ \A b \in T : b \notin A[b]
      /\ \A a, b \in T : a \in A[b] => A[a] \subseteq A[b]
      /\ \A a, b \in T : a = b \/ a \in A[b] \/ b \in A[a]
    BY <1>0, AboveFacts
<1>3. /\ IsFiniteSet(U) /\ B \in [U -> SUBSET U]
      /\ \A b \in U : b \notin B[b]
      /\ \A a, b \in U : a \in B[b] => B[a] \subseteq B[b]
      /\ \A a, b \in U : a = b \/ a \in B[b] \/ b \in B[a]
    BY <1>0, AboveFacts
<1>4. /\ T \subseteq Listed
      /\ \A id \in T : \A y : y \in A[id] <=> y \in T /\ Comes(q, server, y, id)
      /\ \A id \in U : \A y : y \in B[id] <=> y \in U /\ Comes(q, server', y, id)
      /\ \A id : id \in Ahead(q, server, k) <=> id \in T /\ Cardinality(A[id]) >= k
      /\ \A id : id \in Ahead(q, server', k) <=> id \in U /\ Cardinality(B[id]) >= k
    BY <1>0, AboveFacts DEF Listed
<1>5. \A id \in T \ {x} : A[id] \ {x} = B[id] \ {x}
    <2>1. \A a, b \in T \ {x} : Comes(q, server', a, b) <=> Comes(q, server, a, b)
        BY <1>4, ComesSame
    <2> QED
        BY <1>1, <1>4, <2>1
<1>6. \A id \in U \ {x} : B[id] \ {x} = A[id] \ {x}
    BY <1>1, <1>5
<1>7. ASSUME NEW y \in Ahead(q, server', k) \ Ahead(q, server, k),
             NEW z \in Ahead(q, server', k) \ Ahead(q, server, k)
      PROVE  y = z
    <2>1. /\ y \in U /\ Cardinality(B[y]) >= k /\ ~(y \in T /\ Cardinality(A[y]) >= k)
          /\ z \in U /\ Cardinality(B[z]) >= k /\ ~(z \in T /\ Cardinality(A[z]) >= k)
        BY <1>4
    <2> QED
        BY <1>1, <1>2, <1>3, <1>5, <2>1, OneCrosses
<1>8. ASSUME NEW y \in Ahead(q, server, k) \ Ahead(q, server', k),
             NEW z \in Ahead(q, server, k) \ Ahead(q, server', k)
      PROVE  y = z
    <2>1. /\ y \in T /\ Cardinality(A[y]) >= k /\ ~(y \in U /\ Cardinality(B[y]) >= k)
          /\ z \in T /\ Cardinality(A[z]) >= k /\ ~(z \in U /\ Cardinality(B[z]) >= k)
        BY <1>4
    <2>2. U \ {x} = T \ {x}
        BY <1>1
    <2> QED
        BY <1>2, <1>3, <1>6, <2>1, <2>2, OneCrosses
<1> QED
    BY <1>7, <1>8

-----------------------------------------------------------------------------
(* What a SELECT with ORDER BY returns.                                    *)

\* An interval has as many elements as a set it numbers.
LEMMA Counts ==
    ASSUME NEW a \in Int, NEW b \in Int, a <= b + 1, NEW S, NEW s \in [a .. b -> S],
           \A i, j \in a .. b : s[i] = s[j] => i = j,
           \A x \in S : \E i \in a .. b : s[i] = x
    PROVE  IsFiniteSet(S) /\ Cardinality(S) = b - a + 1
<1>1. s \in Bijection(a .. b, S)
    BY DEF Bijection, Injection, Surjection, IsInjective
<1>2. ExistsBijection(a .. b, S)
    BY <1>1 DEF ExistsBijection
<1>3. IsFiniteSet(a .. b) /\ Cardinality(a .. b) = b - a + 1
    BY FS_Interval
<1> QED
    BY <1>2, <1>3, FS_Bijection

\* A SELECT with ORDER BY reads each server it selects once, in order.
LEMMA OrderedAll ==
    ASSUME ListingInv, NEW q, NEW s \in Ordered(q), NEW T, T = Selected(q, server)
    PROVE  /\ IsFiniteSet(T) /\ T \subseteq Listed
           /\ Len(s) \in Nat /\ Len(s) = Cardinality(T) /\ s \in Seq(Listed)
           /\ s \in [1 .. Len(s) -> T]
           /\ \A i, j \in 1 .. Len(s) : s[i] = s[j] => i = j
           /\ \A x \in T : \E i \in 1 .. Len(s) : s[i] = x
           /\ \A i, j \in 1 .. Len(s) : i < j => ~Comes(q, server, s[j], s[i])
<1>1. IsFiniteSet(T) /\ T \subseteq Listed
    BY ListedTable, SelectedListed, FS_Subset DEF TableOK, Listed
<1>2. PICK n : n = Cardinality(T) /\ n \in Nat
    BY <1>1, FS_CardinalityType
<1>3. /\ s \in SetToSeqs(T)
      /\ \A i, j \in DOMAIN s : i < j => ~Comes(q, server, s[j], s[i])
    BY Zenon DEF Ordered
<1>4. s \in [1 .. n -> T] /\ \A i, j \in 1 .. n : i # j => s[i] # s[j]
    BY <1>2, <1>3 DEF SetToSeqs
<1>5. s \in Seq(Listed) /\ Len(s) = n
    <2>1. s = [i \in 1 .. n |-> s[i]] /\ \A i \in 1 .. n : s[i] \in Listed
        BY <1>1, <1>4
    <2> QED
        BY <1>2, <2>1
<1>6. s \in Injection(1 .. n, T)
    BY <1>4 DEF Injection, IsInjective
<1>7. Cardinality(1 .. n) = n
    BY <1>2, FS_Interval
<1>8. s \in Surjection(1 .. n, T)
    BY <1>1, <1>2, <1>6, <1>7, FS_Injection
<1>9. \A x \in T : \E i \in 1 .. n : s[i] = x
    BY <1>8 DEF Surjection
<1> QED
    BY <1>1, <1>2, <1>3, <1>4, <1>5, <1>9

\* If the order is one of servers, each stands after as many as come before.
LEMMA PlaceIsRank ==
    ASSUME ListingInv, NEW q, SortsFully(q), NEW s \in Ordered(q), NEW j \in 1 .. Len(s)
    PROVE  Cardinality(Above(q, server)[s[j]]) = j - 1
<1>0. PICK T, A : T = Selected(q, server) /\ A = Above(q, server)
    OBVIOUS
<1>1. /\ Len(s) \in Nat /\ s \in [1 .. Len(s) -> T] /\ T \subseteq Listed
      /\ \A i, k \in 1 .. Len(s) : s[i] = s[k] => i = k
      /\ \A x \in T : \E i \in 1 .. Len(s) : s[i] = x
      /\ \A i, k \in 1 .. Len(s) : i < k => ~Comes(q, server, s[k], s[i])
    BY <1>0, OrderedAll
<1>2. /\ A \in [T -> SUBSET T]
      /\ \A b \in T : b \notin A[b]
      /\ \A a, b \in T : a = b \/ a \in A[b] \/ b \in A[a]
      /\ \A id \in T : \A x : x \in A[id] <=> x \in T /\ Comes(q, server, x, id)
    BY <1>0, ListedTable, AboveFacts
<1>3. \A i \in 1 .. Len(s) : s[i] \in A[s[j]] <=> i < j
    BY <1>1, <1>2
<1>4. PICK S : S = A[s[j]] /\ S \subseteq T
    BY <1>1, <1>2
<1> DEFINE f == [i \in 1 .. j - 1 |-> s[i]]
<1>5. /\ f \in [1 .. j - 1 -> S]
      /\ \A i, k \in 1 .. j - 1 : f[i] = f[k] => i = k
      /\ \A x \in S : \E i \in 1 .. j - 1 : f[i] = x
    BY <1>1, <1>3, <1>4
<1> HIDE DEF f
<1>6. Cardinality(S) = (j - 1) - 1 + 1
    <2>1. 1 \in Int /\ j - 1 \in Int /\ 1 <= (j - 1) + 1
        BY <1>1
    <2> QED
        BY <1>5, <2>1, Counts
<1> QED
    BY <1>0, <1>1, <1>4, <1>6

-----------------------------------------------------------------------------
(* What was read, and what is still to come.                               *)

\* The servers read so far, shown or with their likes still to be looked up;
\* how many rows that was; how many it will be when the page is full.
ReadIds == ShownIds \cup {rows[i].id : i \in DOMAIN rows}
Count == Len(shown) + (IF pc = "liked" THEN Len(rows) ELSE 0)
Horizon == IF pc = "select" THEN page * Limit(query) ELSE (page + 1) * Limit(query)

\* The servers that are on a page after those read, if there is one.
Late == IF Count = Horizon THEN Ahead(query, server, Horizon) ELSE {}

\* The places that servers with n likes take in an order by likes alone.
Better(q, table, n) ==
    {id \in Selected(q, table) : Before(Order(q).likes, table[id].likes, n)}
Equal(q, table, n) == {id \in Selected(q, table) : table[id].likes = n}
Slots(n) ==
    LET first == Cardinality(Better(query, server, n)) + 1
    IN  first .. first + Cardinality(Equal(query, server, n)) - 1

InPlace(row, i) == \A n \in 0 .. MaxLikes : row.likes = n <=> i \in Slots(n)

\* Each change made one server at most slip to a page that was read, and one
\* at most to a page still to come.
SlipsCounted ==
    /\ Count - Cardinality(ReadIds) + Cardinality(ReadIds \cap Late) <= moved
    /\ Cardinality(steady \ (ReadIds \cup Late)) <= moved

\* While nothing changes every row stands where its likes put it.
LikesInPlace ==
    /\ steady = Selected(query, server)
    /\ \A i \in DOMAIN shown : InPlace(shown[i], i)
    /\ pc = "liked" => \A i \in DOMAIN rows : InPlace(rows[i], Len(shown) + i)
    /\ IF Count = Horizon THEN Count <= Cardinality(steady) ELSE Count = Cardinality(steady)

PagesInv ==
    query.kind \in {"page", "search"} =>
        /\ ReadIds \subseteq ever
        /\ pc = "done" => Count # Horizon
        /\ SortsFully(query) => SlipsCounted
        /\ ~SortsFully(query) /\ moved = 0 => LikesInPlace

\* What the invariant says of a visitor who turns pages.
LEMMA PagesFacts ==
    ASSUME ListingInv, query.kind \in {"page", "search"}
    PROVE  /\ pc \in {"select", "liked", "answered", "done"} /\ query \in Query
           /\ Limit(query) \in Nat \ {0} /\ page \in Nat
           /\ moved \in Nat /\ Len(shown) \in Nat /\ shown \in Seq(Seen)
           /\ pc = "liked" => rows \in Seq(Found)
           /\ Count \in Nat /\ Horizon \in Nat
           /\ ever \subseteq 1 .. ids /\ steady \subseteq ever /\ steady \subseteq Selected(query, server)
           /\ IsFiniteSet(ever)
           /\ pc = "select" => rows = <<>> /\ Count = Horizon /\ Len(shown) = page * Limit(query)
<1>1. TypeOK /\ StageOK /\ QuestionOK /\ PagingOK
    BY Parts
<1>2. pc # "idle"
    BY <1>1 DEF StageOK, NoQuery
<1>3. pc \in {"select", "liked", "answered", "done"} /\ query \in Query
    BY <1>1, <1>2 DEF TypeOK, StageOK
<1>4. Limit(query) \in Nat \ {0} /\ page \in Nat /\ moved \in Nat
    BY <1>1, ListingAssumption DEF PagingOK, TypeOK
<1>5. shown \in Seq(Seen) /\ Len(shown) \in Nat
    BY <1>1 DEF StageOK
<1>6. pc = "liked" => rows \in Seq(Found)
    BY <1>1 DEF StageOK
<1>7. Count \in Nat
    BY <1>5, <1>6 DEF Count
<1>8. Horizon \in Nat
    BY <1>4 DEF Horizon
<1>9. ever \subseteq 1 .. ids /\ steady \subseteq ever /\ steady \subseteq Selected(query, server)
    BY <1>1, <1>2 DEF TypeOK, QuestionOK
<1>10. IsFiniteSet(ever)
    <2>1. IsFiniteSet(1 .. ids)
        BY ListedFacts, FS_Interval
    <2> QED
        BY <1>9, <2>1, FS_Subset
<1>11. pc = "select" => rows = <<>> /\ Count = Horizon /\ Len(shown) = page * Limit(query)
    BY <1>1, <1>5 DEF StageOK, PagingOK, Count, Horizon
<1> QED
    BY <1>3, <1>4, <1>5, <1>6, <1>7, <1>8, <1>9, <1>10, <1>11

\* A change by others makes one server at most slip over the horizon, and
\* ends what was known of a catalogue without changes.
LEMMA ChangePages ==
    ASSUME ListingInv, ListingInv', PagesInv, Others, query.kind \in {"page", "search"}
    PROVE  PagesInv'
<1>1. PICK x : /\ Listed \ {x} = Listed' \ {x}
               /\ \A id \in Listed \ {x} : server'[id] = server[id]
    BY OneRowChanges
<1>2. pc # "idle"
    BY PagesFacts
<1>3. /\ UNCHANGED <<pc, query, page, rows, shown>>
      /\ steady' = steady \cap Selected(query, server')
      /\ ever' = ever \cup Selected(query, server')
      /\ moved' = moved + 1
    BY <1>2, OneRowChanges, Zenon DEF Change
<1>4. PICK q, k, R : q = query /\ k = Horizon /\ R = ReadIds
    OBVIOUS
<1>5. R \subseteq ever /\ (pc = "done" => Count # Horizon)
    BY <1>4 DEF PagesInv
<1>6. ReadIds' = R /\ Count' = Count /\ Horizon' = k
    BY <1>3, <1>4 DEF ReadIds, ShownIds, Count, Horizon
<1>7. moved \in Nat /\ k \in Nat /\ Count \in Nat /\ IsFiniteSet(ever) /\ steady \subseteq ever
      /\ steady \subseteq Selected(q, server)
    BY <1>4, PagesFacts
<1>8. SortsFully(query') <=> SortsFully(q)
    BY <1>3, <1>4
<1>9. ASSUME SortsFully(q) PROVE SlipsCounted'
    <2>1. PICK N, N2 : N = Late /\ N2 = Late'
        OBVIOUS
    <2>2. (\A y, z \in N2 \ N : y = z) /\ (\A y, z \in N \ N2 : y = z)
        <3>1. CASE Count = k
            <4>1. N = Ahead(q, server, k) /\ N2 = Ahead(q, server', k)
                BY <1>3, <1>4, <1>6, <2>1, <3>1 DEF Late
            <4>2. TableOK(server) /\ TableOK(server')
                BY ListedTable, TableAfter
            <4>3. q.kind \in {"page", "search"}
                BY <1>4
            <4> QED
                BY <1>1, <1>7, <1>9, <4>1, <4>2, <4>3, Crossings
        <3>2. CASE Count # k
            BY <1>4, <1>6, <2>1, <3>2 DEF Late
        <3> QED
            BY <3>1, <3>2
    <2>3. Count - Cardinality(R) + Cardinality(R \cap N) <= moved
        BY <1>4, <1>9, <2>1 DEF PagesInv, SlipsCounted
    <2>4. Cardinality(steady \ (R \cup N)) <= moved
        BY <1>4, <1>9, <2>1 DEF PagesInv, SlipsCounted
    <2>5. /\ IsFiniteSet(R) /\ IsFiniteSet(R \cap N) /\ IsFiniteSet(steady \ (R \cup N))
        BY <1>5, <1>7, FS_Subset
    <2>6. /\ Cardinality(R) \in Nat
          /\ Cardinality(R \cap N2) <= Cardinality(R \cap N) + 1
          /\ Cardinality(R \cap N2) \in Nat /\ Cardinality(R \cap N) \in Nat
        <3>1. \A y, z \in (R \cap N2) \ (R \cap N) : y = z
            BY <2>2
        <3> QED
            BY <2>5, <3>1, GrowsByOne, FS_CardinalityType
    <2>7. /\ Cardinality(steady' \ (R \cup N2)) <= Cardinality(steady \ (R \cup N)) + 1
          /\ Cardinality(steady' \ (R \cup N2)) \in Nat
          /\ Cardinality(steady \ (R \cup N)) \in Nat
        <3>1. PICK S, S2 : S = steady \ (R \cup N) /\ S2 = steady' \ (R \cup N2)
            OBVIOUS
        <3>2. \A y, z \in S2 \ S : y = z
            BY <1>3, <2>2, <3>1
        <3> QED
            BY <2>5, <3>1, <3>2, GrowsByOne
    <2>8. Count' - Cardinality(R) + Cardinality(R \cap N2) <= moved'
        BY <1>3, <1>6, <1>7, <2>3, <2>6
    <2>9. Cardinality(steady' \ (R \cup N2)) <= moved'
        BY <1>3, <1>7, <2>4, <2>7
    <2> QED
        BY <1>6, <2>1, <2>8, <2>9 DEF SlipsCounted
<1>10. ReadIds' \subseteq ever' /\ (pc' = "done" => Count' # Horizon')
    BY <1>3, <1>4, <1>5, <1>6
<1>11. moved' # 0
    BY <1>3, <1>7
<1> QED
    BY <1>3, <1>8, <1>9, <1>10, <1>11, <1>4 DEF PagesInv

\* A set of places that has all places before each of its own is the first
\* so many.
LEMMA FirstPlaces ==
    ASSUME NEW n \in Nat, NEW D, D \subseteq 1 .. n,
           \A i \in D, j \in 1 .. n : j < i => j \in D
    PROVE  /\ IsFiniteSet(D) /\ Cardinality(D) \in Nat
           /\ \A i \in 1 .. n : i \in D <=> i <= Cardinality(D)
<1>1. IsFiniteSet(D) /\ Cardinality(D) \in Nat
    <2>1. IsFiniteSet(1 .. n)
        BY FS_Interval
    <2> QED
        BY <2>1, FS_Subset, FS_CardinalityType
<1>2. ASSUME NEW i \in D PROVE i <= Cardinality(D)
    <2>1. i \in 1 .. n /\ 1 .. i \subseteq D
        OBVIOUS
    <2>2. Cardinality(1 .. i) = i
        BY <2>1, FS_Interval
    <2>3. Cardinality(1 .. i) <= Cardinality(D)
        BY <1>1, <2>1, FS_Subset
    <2> QED
        BY <2>2, <2>3
<1>3. ASSUME NEW i \in 1 .. n, i \notin D PROVE Cardinality(D) < i
    <2>1. D \subseteq 1 .. i - 1
        BY <1>3
    <2>2. IsFiniteSet(1 .. i - 1) /\ Cardinality(1 .. i - 1) = i - 1
        <3>1. 1 \in Int /\ i - 1 \in Int
            OBVIOUS
        <3> QED
            BY <3>1, FS_Interval
    <2>3. Cardinality(D) <= Cardinality(1 .. i - 1)
        BY <2>1, <2>2, FS_Subset
    <2> QED
        BY <1>1, <2>2, <2>3
<1> QED
    BY <1>1, <1>2, <1>3

\* As many places as servers that stand there.
LEMMA PlacesOf ==
    ASSUME NEW D, IsFiniteSet(D), NEW S, NEW s,
           \A i \in D : s[i] \in S,
           \A i, j \in D : s[i] = s[j] => i = j,
           \A x \in S : \E i \in D : s[i] = x
    PROVE  IsFiniteSet(S) /\ Cardinality(S) = Cardinality(D)
<1> DEFINE f == [i \in D |-> s[i]]
<1>1. f \in Bijection(D, S)
    BY DEF Bijection, Injection, Surjection, IsInjective
<1>2. ExistsBijection(D, S)
    BY <1>1 DEF ExistsBijection
<1> QED
    BY <1>2, FS_Bijection

\* Servers with more likes and with as many, in an order by likes.
LEMMA SlotsFacts ==
    ASSUME TableOK(server), NEW q, NEW n
    PROVE  /\ Better(q, server, n) \subseteq Selected(q, server)
           /\ Equal(q, server, n) \subseteq Selected(q, server)
           /\ IsFiniteSet(Better(q, server, n)) /\ IsFiniteSet(Equal(q, server, n))
           /\ Cardinality(Better(q, server, n)) \in Nat /\ Cardinality(Equal(q, server, n)) \in Nat
           /\ n \in Nat =>
                 Cardinality(Better(q, server, n) \cup Equal(q, server, n)) =
                 Cardinality(Better(q, server, n)) + Cardinality(Equal(q, server, n))
<1>1. PICK T, B, E : /\ T = Selected(q, server) /\ B = Better(q, server, n)
                     /\ E = Equal(q, server, n)
    OBVIOUS
<1>2. B \subseteq T /\ E \subseteq T
    BY <1>1 DEF Better, Equal
<1>3. IsFiniteSet(T)
    BY <1>1, AboveFacts
<1>4. IsFiniteSet(B) /\ IsFiniteSet(E) /\ Cardinality(B) \in Nat /\ Cardinality(E) \in Nat
    BY <1>2, <1>3, FS_Subset, FS_CardinalityType
<1>5. n \in Nat => B \cap E = {}
    BY <1>1 DEF Better, Equal, Before
<1>6. n \in Nat => Cardinality(B \cup E) = Cardinality(B) + Cardinality(E)
    BY <1>4, <1>5, FS_Union, FS_EmptySet
<1> QED
    BY <1>1, <1>2, <1>4, <1>6

\* In an order by likes alone a place is for servers with so many likes.
LEMMA SlotIsLikes ==
    ASSUME ListingInv, query.kind \in {"page", "search"}, ~SortsFully(query),
           NEW s \in Ordered(query), NEW j \in 1 .. Len(s), NEW n \in 0 .. MaxLikes
    PROVE  server[s[j]].likes = n <=> j \in Slots(n)
<1>1. PICK q, T, N, B, E :
          /\ q = query /\ T = Selected(q, server) /\ N = Len(s)
          /\ B = Better(q, server, n) /\ E = Equal(q, server, n)
    OBVIOUS
<1>2. /\ T \subseteq Listed /\ N \in Nat /\ s \in [1 .. N -> T]
      /\ \A i, k \in 1 .. N : s[i] = s[k] => i = k
      /\ \A x \in T : \E i \in 1 .. N : s[i] = x
      /\ \A i, k \in 1 .. N : i < k => ~Comes(q, server, s[k], s[i])
    BY <1>1, OrderedAll
<1>3. TableOK(server)
    BY ListedTable
<1>4. n \in Nat /\ \A x \in T : server[x].likes \in Nat
    BY <1>2, ListedFacts, ListingAssumption
<1>5. PICK d : d = Order(q).likes /\ d # Null
    BY <1>1, ListingAssumption DEF SortsFully, Order
<1>6. \A a, b \in T : Before(d, server[a].likes, server[b].likes) => Comes(q, server, a, b)
    BY <1>5 DEF Comes
<1>7. \A i, k \in 1 .. N : i < k => ~Before(d, server[s[k]].likes, server[s[i]].likes)
    BY <1>2, <1>6
<1>8. \A m, l \in Nat : Before(d, m, l) <=> (IF d = "asc" THEN m < l ELSE m > l)
    BY <1>5 DEF Before
<1>9. /\ \A x : x \in B <=> x \in T /\ Before(d, server[x].likes, n)
      /\ \A x : x \in E <=> x \in T /\ server[x].likes = n
    BY <1>1, <1>5 DEF Better, Equal
<1> DEFINE D == {i \in 1 .. N : s[i] \in B}
           F == {i \in 1 .. N : s[i] \in B \cup E}
<1>10. \A i \in D, k \in 1 .. N : k < i => k \in D
    BY <1>2, <1>4, <1>7, <1>8, <1>9
<1>11. \A i \in F, k \in 1 .. N : k < i => k \in F
    BY <1>2, <1>4, <1>7, <1>8, <1>9
<1>12. /\ IsFiniteSet(D) /\ Cardinality(D) \in Nat
       /\ \A i \in 1 .. N : i \in D <=> i <= Cardinality(D)
    <2>1. D \subseteq 1 .. N
        OBVIOUS
    <2> HIDE DEF D
    <2> QED
        BY <1>2, <1>10, <2>1, FirstPlaces
<1>13. /\ IsFiniteSet(F) /\ Cardinality(F) \in Nat
       /\ \A i \in 1 .. N : i \in F <=> i <= Cardinality(F)
    <2>1. F \subseteq 1 .. N
        OBVIOUS
    <2> HIDE DEF F
    <2> QED
        BY <1>2, <1>11, <2>1, FirstPlaces
<1>14. Cardinality(B) = Cardinality(D)
    <2>1. /\ \A i \in D : s[i] \in B
          /\ \A i, k \in D : s[i] = s[k] => i = k
          /\ \A x \in B : \E i \in D : s[i] = x
        BY <1>2, <1>9
    <2> HIDE DEF D
    <2> QED
        BY <1>12, <2>1, PlacesOf
<1>15. Cardinality(B \cup E) = Cardinality(F)
    <2>1. /\ \A i \in F : s[i] \in B \cup E
          /\ \A i, k \in F : s[i] = s[k] => i = k
          /\ \A x \in B \cup E : \E i \in F : s[i] = x
        BY <1>2, <1>9
    <2>2. PICK U : U = B \cup E
        OBVIOUS
    <2> HIDE DEF F
    <2>3. Cardinality(U) = Cardinality(F)
        BY <1>13, <2>1, <2>2, PlacesOf
    <2> QED
        BY <2>2, <2>3
<1>16. /\ Cardinality(B) \in Nat /\ Cardinality(E) \in Nat
       /\ Cardinality(B \cup E) = Cardinality(B) + Cardinality(E)
    BY <1>1, <1>3, <1>4, SlotsFacts
<1>17. j \in Slots(n) <=> Cardinality(B) < j /\ j <= Cardinality(B) + Cardinality(E)
    <2>1. Slots(n) = Cardinality(B) + 1 .. Cardinality(B) + 1 + Cardinality(E) - 1
        BY <1>1 DEF Slots
    <2> QED
        BY <1>1, <1>2, <1>16, <2>1
<1>18. j \in Slots(n) <=> j \notin D /\ j \in F
    <2> HIDE DEF D, F
    <2> QED
        BY <1>1, <1>12, <1>13, <1>14, <1>15, <1>16, <1>17
<1>19. server[s[j]].likes = n <=> j \notin D /\ j \in F
    BY <1>1, <1>2, <1>4, <1>8, <1>9
<1> QED
    BY <1>18, <1>19

-----------------------------------------------------------------------------
(* The SELECT of a page.                                                   *)

\* What a SELECT of a page does: it reads m rows from place o on, and all
\* there are if they do not fill the page.
Reads(o, m, s, found) ==
    /\ o = page * Limit(query) /\ o \in Nat /\ m \in 0 .. Limit(query)
    /\ s \in Ordered(query)
    /\ m < Limit(query) => Len(s) <= o + m
    /\ DOMAIN found = 1 .. m
    /\ \A i \in 1 .. m :
          /\ o + i \in 1 .. Len(s)
          /\ found[i].id = s[o + i] /\ found[i].likes = server[s[o + i]].likes
    /\ rows' = found
    /\ IF query.kind = "page" THEN pc' = "liked" /\ UNCHANGED shown /\ Len(found) = m
       ELSE /\ pc' = "answered" /\ Len(shown') = o + m /\ DOMAIN shown' = 1 .. o + m
            /\ \A i \in 1 .. o : shown'[i] = shown[i]
            /\ \A i \in 1 .. m : /\ shown'[o + i].id = found[i].id
                                 /\ shown'[o + i].likes = found[i].likes

Taken(o, m, s) == {s[o + i] : i \in 1 .. m}

\* A SELECT reads rows of one order, whose likes are then looked up or, in a
\* search, which are the answer.
LEMMA SelectPageReads ==
    ASSUME ListingInv, SelectPage
    PROVE  \E o, m, s, found : Reads(o, m, s, found)
<1>1. PICK s, c, found :
          /\ s \in Ordered(query) /\ c = Cut(query, s) /\ found = Shown(c)
          /\ IF query.kind = "page" THEN rows' = found /\ pc' = "liked" /\ UNCHANGED shown
             ELSE /\ shown' = shown \o [i \in DOMAIN found |-> Flagged(found[i], FALSE)]
                  /\ pc' = "answered" /\ rows' = found
    BY Zenon DEF SelectPage
<1>2. query.kind \in {"page", "search"} /\ pc = "select"
    BY DEF SelectPage
<1>3. PICK L, o : L = Limit(query) /\ o = page * L /\ o \in Nat /\ L \in Nat \ {0}
    BY <1>2, PagesFacts
<1>4. s \in Seq(Listed) /\ Len(s) \in Nat
    BY <1>1, OrderedAll
<1>5. PICK m : /\ m = Len(c) /\ m \in 0 .. L /\ c \in Seq(Listed)
               /\ m < L => Len(s) <= o + m
               /\ \A i \in 1 .. m : o + i \in 1 .. Len(s) /\ c[i] = s[o + i]
    <2>1. /\ c \in Seq(Listed) /\ Len(c) <= L
          /\ Len(c) < L => Len(s) <= o + Len(c)
          /\ \A i \in 1 .. Len(c) : o + i \in 1 .. Len(s) /\ c[i] = s[o + i]
        <3>1. page \in Nat /\ Limit(query) \in Nat \ {0}
            BY <1>2, PagesFacts
        <3> QED
            BY <1>1, <1>3, <1>4, <3>1, CutIsPage
    <2> QED
        BY <1>3, <2>1
<1>6. /\ found \in Seq(Found) /\ Len(found) = m /\ DOMAIN found = 1 .. m
      /\ \A i \in 1 .. m : found[i].id = c[i] /\ found[i].likes = server[c[i]].likes
    <2>1. found \in Seq(Found) /\ Len(found) = m
        BY <1>1, <1>5, ShownFound
    <2>2. DOMAIN c = 1 .. m
        BY <1>5
    <2> QED
        BY <1>1, <2>1, <2>2 DEF Shown
<1>7. \A i \in 1 .. m :
          /\ o + i \in 1 .. Len(s)
          /\ found[i].id = s[o + i] /\ found[i].likes = server[s[o + i]].likes
    BY <1>5, <1>6
<1>8. CASE query.kind = "page"
    <2>1. rows' = found /\ pc' = "liked" /\ UNCHANGED shown
        BY <1>1, <1>8
    <2> QED
        BY <1>1, <1>3, <1>5, <1>6, <1>7, <1>8, <2>1 DEF Reads
<1>9. CASE query.kind = "search"
    <2> DEFINE more == [i \in DOMAIN found |-> Flagged(found[i], FALSE)]
    <2>1. rows' = found /\ pc' = "answered" /\ shown' = shown \o more
        BY <1>1, <1>9
    <2>2. /\ DOMAIN more = 1 .. m
          /\ \A i \in 1 .. m : more[i].id = found[i].id /\ more[i].likes = found[i].likes
        BY <1>6, Zenon DEF Flagged
    <2>3. more = [i \in 1 .. m |-> more[i]]
        BY <2>2
    <2>4. shown \in Seq(Seen) /\ Len(shown) = o
        BY <1>2, <1>3, PagesFacts
    <2> HIDE DEF more
    <2>5. PICK V : more \in Seq(V) /\ shown \in Seq(V) /\ Len(more) = m
        <3>1. PICK V : V = Seen \cup {more[i] : i \in 1 .. m}
            OBVIOUS
        <3>2. more \in Seq(V) /\ Len(more) = m
            <4>1. m \in Nat /\ \A i \in 1 .. m : more[i] \in V
                BY <1>3, <1>5, <3>1
            <4> QED
                BY <2>3, <4>1
        <3>3. shown \in Seq(V)
            <4>1. /\ Len(shown) \in Nat /\ \A i \in 1 .. Len(shown) : shown[i] \in V
                  /\ shown = [i \in 1 .. Len(shown) |-> shown[i]]
                BY <2>4, <3>1
            <4> QED
                BY <4>1
        <3> QED
            BY <3>2, <3>3
    <2>6. /\ Len(shown') = o + m /\ DOMAIN shown' = 1 .. o + m
          /\ \A i \in 1 .. o : shown'[i] = shown[i]
          /\ \A i \in 1 .. m : shown'[o + i] = more[i]
        <3>1. /\ shown' \in Seq(V) /\ Len(shown') = o + m
              /\ \A i \in 1 .. o + m : shown'[i] = IF i <= o THEN shown[i] ELSE more[i - o]
            BY <2>1, <2>4, <2>5, ConcatProperties
        <3> QED
            BY <1>3, <1>5, <3>1
    <2>7. \A i \in 1 .. m : /\ shown'[o + i].id = found[i].id
                            /\ shown'[o + i].likes = found[i].likes
        BY <2>2, <2>6
    <2>8. Len(shown') = o + m /\ DOMAIN shown' = 1 .. o + m /\ \A i \in 1 .. o : shown'[i] = shown[i]
        BY <2>6
    <2>9. query.kind # "page"
        BY <1>9
    <2>10. /\ o = page * Limit(query) /\ m \in 0 .. Limit(query)
           /\ m < Limit(query) => Len(s) <= o + m
        BY <1>3, <1>5
    <2>11. Reads(o, m, s, found)
        BY <1>1, <1>3, <1>5, <1>6, <1>7, <2>1, <2>7, <2>8, <2>9, <2>10 DEF Reads
    <2> QED
        BY <2>11
<1> QED
    BY <1>2, <1>8, <1>9

\* The servers of the page, and what stands where afterwards.
LEMMA SelectedIds ==
    ASSUME ListingInv, SelectPage, NEW o, NEW m, NEW s, NEW found, Reads(o, m, s, found)
    PROVE  /\ ReadIds' = ReadIds \cup Taken(o, m, s) /\ Count = o /\ Count' = o + m
           /\ Horizon = o /\ Horizon' = o + Limit(query)
           /\ Taken(o, m, s) \subseteq Selected(query, server)
           /\ UNCHANGED <<server, query, steady, ever, moved>>
<1>0. /\ o = page * Limit(query) /\ o \in Nat /\ m \in 0 .. Limit(query) /\ s \in Ordered(query)
      /\ \A i \in 1 .. m : o + i \in 1 .. Len(s) /\ found[i].id = s[o + i]
      /\ DOMAIN found = 1 .. m /\ rows' = found
    BY Zenon DEF Reads
<1>1. query.kind \in {"page", "search"} /\ pc = "select"
    BY DEF SelectPage
<1>2. PICK P : P = Taken(o, m, s) /\ P = {s[o + i] : i \in 1 .. m}
    BY DEF Taken
<1>3. PICK L : L = Limit(query) /\ L \in Nat \ {0}
    BY <1>1, PagesFacts
<1>4. /\ o \in Nat /\ m \in 0 .. L /\ page \in Nat /\ rows = <<>> /\ Len(shown) = o
      /\ Count = o /\ Horizon = o /\ shown \in Seq(Seen)
    BY <1>0, <1>1, <1>3, PagesFacts DEF Count
<1>5. UNCHANGED <<server, query, page, steady, ever, moved>>
    BY DEF SelectPage, catalogue, history
<1>6. Horizon' = o + L
    <2>1. Limit(query') = L /\ page' = page /\ pc' # "select"
        BY <1>3, <1>5 DEF Reads
    <2>2. Horizon' = (page + 1) * L
        BY <2>1 DEF Horizon
    <2>3. o = page * L
        BY <1>0, <1>3
    <2> QED
        BY <1>3, <1>4, <2>2, <2>3
<1>7. P \subseteq Selected(query, server)
    <2>1. s \in [1 .. Len(s) -> Selected(query, server)]
        BY <1>0, OrderedAll
    <2> QED
        BY <1>0, <1>2, <2>1
<1>8. {rows'[i].id : i \in DOMAIN rows'} = P
    <2>1. DOMAIN rows' = 1 .. m /\ \A i \in 1 .. m : rows'[i].id = s[o + i]
        BY <1>0
    <2>2. {rows'[i].id : i \in 1 .. m} = {s[o + i] : i \in 1 .. m}
        BY <2>1, Zenon
    <2> QED
        BY <1>2, <2>1, <2>2
<1>9. ReadIds = {shown[i].id : i \in 1 .. o}
    BY <1>4 DEF ReadIds, ShownIds
<1>10. CASE query.kind = "page"
    <2>1. UNCHANGED shown /\ pc' = "liked" /\ Len(rows') = m
        BY <1>0, <1>10, Zenon DEF Reads
    <2>2. ReadIds' = ReadIds \cup P
        <3>1. ShownIds' = {shown[i].id : i \in 1 .. o}
            BY <1>4, <2>1 DEF ShownIds
        <3> QED
            BY <1>8, <1>9, <3>1 DEF ReadIds
    <2>3. Count' = o + m
        BY <1>4, <2>1 DEF Count
    <2> QED
        BY <1>3, <1>4, <1>5, <1>6, <1>7, <1>2, <2>2, <2>3
<1>11. CASE query.kind = "search"
    <2>1. /\ pc' = "answered" /\ Len(shown') = o + m /\ DOMAIN shown' = 1 .. o + m
          /\ \A i \in 1 .. o : shown'[i] = shown[i]
          /\ \A i \in 1 .. m : shown'[o + i].id = s[o + i]
        BY <1>11 DEF Reads
    <2>2. ShownIds' = ReadIds \cup P
        <3>1. ShownIds' = {shown'[i].id : i \in 1 .. o + m}
            BY <2>1 DEF ShownIds
        <3>2. \A i \in 1 .. o + m : i \in 1 .. o \/ (i - o \in 1 .. m /\ o + (i - o) = i)
            BY <1>3, <1>4
        <3>3. 1 .. o \subseteq 1 .. o + m /\ \A i \in 1 .. m : o + i \in 1 .. o + m
            BY <1>3, <1>4
        <3> QED
            BY <1>9, <1>2, <2>1, <3>1, <3>2, <3>3
    <2>3. ReadIds' = ReadIds \cup P
        BY <1>8, <2>2 DEF ReadIds
    <2>4. Count' = o + m
        BY <1>3, <1>4, <2>1 DEF Count
    <2> QED
        BY <1>3, <1>4, <1>5, <1>6, <1>7, <1>2, <2>3, <2>4
<1> QED
    BY <1>1, <1>10, <1>11, <1>2

\* Slots and places are those of the catalogue and the question.
LEMMA SameSlots ==
    ASSUME UNCHANGED <<server, query>>
    PROVE  /\ \A r, i : InPlace(r, i)' <=> InPlace(r, i)
           /\ SortsFully(query)' <=> SortsFully(query)
BY DEF InPlace, Slots, Better, Equal, SortsFully

\* A page in an order of servers takes those with as many before them as
\* were read, and the next ones.
LEMMA PageTakes ==
    ASSUME ListingInv, SelectPage, SortsFully(query),
           NEW o, NEW m, NEW s, NEW found, Reads(o, m, s, found),
           NEW P, P = Taken(o, m, s)
    PROVE  /\ IsFiniteSet(P) /\ Cardinality(P) = m
           /\ Late = P \cup Late' /\ P \cap Late' = {}
<1>0. /\ o = page * Limit(query) /\ o \in Nat /\ m \in 0 .. Limit(query) /\ s \in Ordered(query)
      /\ m < Limit(query) => Len(s) <= o + m
      /\ \A i \in 1 .. m : o + i \in 1 .. Len(s)
    BY Zenon DEF Reads
<1>1. PICK q, T, A, L, N : /\ q = query /\ T = Selected(q, server) /\ A = Above(q, server)
                           /\ L = Limit(query) /\ N = Len(s)
    OBVIOUS
<1>2. /\ N \in Nat /\ s \in [1 .. N -> T]
      /\ \A i, k \in 1 .. N : s[i] = s[k] => i = k
      /\ \A x \in T : \E i \in 1 .. N : s[i] = x
    <2>1. s \in Ordered(q) /\ T = Selected(q, server)
        BY <1>0, <1>1
    <2>2. /\ Len(s) \in Nat /\ s \in [1 .. Len(s) -> T]
          /\ \A i, k \in 1 .. Len(s) : s[i] = s[k] => i = k
          /\ \A x \in T : \E i \in 1 .. Len(s) : s[i] = x
        BY <2>1, OrderedAll
    <2> QED
        BY <1>1, <2>2
<1>3. \A j \in 1 .. N : Cardinality(A[s[j]]) = j - 1
    BY <1>0, <1>1, PlaceIsRank
<1>4. /\ Count = o /\ Horizon = o /\ Count' = o + m /\ Horizon' = o + L
      /\ server' = server /\ query' = query
    <2>1. /\ Count = o /\ Horizon = o /\ Count' = o + m /\ Horizon' = o + Limit(query)
          /\ UNCHANGED <<server, query, steady, ever, moved>>
        BY SelectedIds, Zenon
    <2> QED
        BY <1>1, <2>1
<1>5. /\ \A i \in 1 .. m : s[o + i] \in P
      /\ \A x \in P : \E i \in 1 .. m : x = s[o + i]
    BY DEF Taken
<1>6. L \in Nat \ {0}
    BY <1>1, PagesFacts DEF SelectPage
<1>7. \A k, id : id \in Ahead(q, server, k) <=> id \in T /\ Cardinality(A[id]) >= k
    BY <1>1, ListedTable, AboveFacts
<1>8. Late = Ahead(q, server, o) /\ Late' = IF m = L THEN Ahead(q, server, o + L) ELSE {}
    <2>1. Late = Ahead(q, server, o)
        BY <1>1, <1>4 DEF Late
    <2>2. Late' = IF o + m = o + L THEN Ahead(q, server, o + L) ELSE {}
        BY <1>1, <1>4 DEF Late
    <2>3. o + m = o + L <=> m = L
        BY <1>0, <1>1, <1>6
    <2> QED
        BY <2>1, <2>2, <2>3
<1>9. IsFiniteSet(P) /\ Cardinality(P) = m
    <2> DEFINE f == [i \in 1 .. m |-> s[o + i]]
    <2>1. /\ f \in [1 .. m -> P]
          /\ \A i, k \in 1 .. m : f[i] = f[k] => i = k
          /\ \A x \in P : \E i \in 1 .. m : f[i] = x
        <3>1. \A i \in 1 .. m : f[i] = s[o + i] /\ s[o + i] \in P
            BY <1>5, Zenon
        <3>2. \A i, k \in 1 .. m : s[o + i] = s[o + k] => i = k
            <4> SUFFICES ASSUME NEW i \in 1 .. m, NEW k \in 1 .. m, s[o + i] = s[o + k]
                         PROVE  i = k
                OBVIOUS
            <4>1. o + i \in 1 .. N /\ o + k \in 1 .. N
                BY <1>0, <1>1
            <4>2. o + i = o + k
                BY <1>2, <4>1
            <4> QED
                BY <1>0, <4>2
        <3>3. \A i, k \in 1 .. m : f[i] = f[k] => i = k
            BY <3>1, <3>2, Zenon
        <3>4. \A x \in P : \E i \in 1 .. m : f[i] = x
            BY <1>5, <3>1, Zenon
        <3>5. f \in [1 .. m -> P]
            BY <3>1, Zenon
        <3> QED
            BY <3>3, <3>4, <3>5
    <2>2. 1 \in Int /\ m \in Int /\ 1 <= m + 1 /\ m - 1 + 1 = m
        BY <1>0, <1>1, <1>6
    <2> HIDE DEF f
    <2>3. IsFiniteSet(P) /\ Cardinality(P) = m - 1 + 1
        BY <2>1, <2>2, Counts
    <2> QED
        BY <2>2, <2>3
<1>10. \A j \in 1 .. N : s[j] \in P <=> j > o /\ j <= o + m
    <2>1. \A j \in 1 .. N : s[j] \in P => \E i \in 1 .. m : j = o + i
        <3> SUFFICES ASSUME NEW j \in 1 .. N, s[j] \in P PROVE \E i \in 1 .. m : j = o + i
            OBVIOUS
        <3>1. PICK i \in 1 .. m : s[j] = s[o + i]
            BY <1>5
        <3>2. o + i \in 1 .. N
            BY <1>0, <1>1
        <3> QED
            BY <1>2, <3>1, <3>2
    <2>2. \A j \in 1 .. N : j > o /\ j <= o + m => j - o \in 1 .. m /\ o + (j - o) = j
        BY <1>0, <1>1, <1>2, <1>6
    <2>3. \A j \in 1 .. N : j - o \in 1 .. m /\ o + (j - o) = j => s[j] \in P
        BY <1>5, Zenon
    <2>4. \A i \in 1 .. m : o + i > o /\ o + i <= o + m
        BY <1>0, <1>1, <1>6
    <2> QED
        BY <2>1, <2>2, <2>3, <2>4
<1>11. P \subseteq T
    BY <1>0, <1>1, <1>2, <1>5
<1>12. ASSUME NEW j \in 1 .. N
       PROVE  /\ s[j] \in Late <=> s[j] \in P \/ s[j] \in Late'
              /\ ~(s[j] \in P /\ s[j] \in Late')
    <2>1. s[j] \in T /\ Cardinality(A[s[j]]) = j - 1
        BY <1>2, <1>3
    <2>2. s[j] \in Late <=> j > o
        <3>1. s[j] \in Late <=> Cardinality(A[s[j]]) >= o
            BY <1>7, <1>8, <2>1
        <3> QED
            BY <1>0, <1>2, <2>1, <3>1
    <2>3. s[j] \in Late' <=> m = L /\ j > o + L
        <3>1. s[j] \in Late' <=> m = L /\ Cardinality(A[s[j]]) >= o + L
            BY <1>7, <1>8, <2>1
        <3> QED
            BY <1>0, <1>2, <1>6, <2>1, <3>1
    <2>4. m < L => j <= o + m
        BY <1>0, <1>1, <1>2, <1>6
    <2>5. m = L => (j > o + L <=> ~(j <= o + m))
        BY <1>0, <1>2, <1>6
    <2>6. m # L => m < L
        BY <1>0, <1>1, <1>6
    <2>7. j > o + L => j > o
        BY <1>0, <1>2, <1>6
    <2>8. s[j] \in P <=> j > o /\ j <= o + m
        BY <1>10
    <2> QED
        BY <2>2, <2>3, <2>4, <2>5, <2>6, <2>7, <2>8
<1>13. Late \subseteq T /\ Late' \subseteq T
    BY <1>7, <1>8
<1> QED
    BY <1>2, <1>9, <1>11, <1>12, <1>13

\* A full page moves the horizon on by as many rows as it takes from what was
\* to come; a page that is not full took all that was.
LEMMA SelectPageSlips ==
    ASSUME ListingInv, SelectPage, PagesInv, SortsFully(query)
    PROVE  SlipsCounted'
<1>1. PICK o, m, s, found : Reads(o, m, s, found)
    BY SelectPageReads
<1>2. PICK P : P = Taken(o, m, s)
    OBVIOUS
<1>3. PICK R, N, N2 : R = ReadIds /\ N = Late /\ N2 = Late'
    OBVIOUS
<1>4. query.kind \in {"page", "search"}
    BY DEF SelectPage
<1>5. ReadIds' = R \cup P /\ Count = o /\ Count' = o + m /\ UNCHANGED <<steady, moved>>
    BY <1>1, <1>2, <1>3, SelectedIds
<1>6. /\ IsFiniteSet(P) /\ Cardinality(P) = m /\ N = P \cup N2 /\ P \cap N2 = {}
    BY <1>1, <1>2, <1>3, PageTakes
<1>7. /\ R \subseteq ever /\ o - Cardinality(R) + Cardinality(R \cap N) <= moved
      /\ Cardinality(steady \ (R \cup N)) <= moved
    BY <1>3, <1>4, <1>5 DEF PagesInv, SlipsCounted
<1>8. o \in Nat /\ moved \in Nat /\ IsFiniteSet(ever)
    BY <1>4, <1>5, PagesFacts
<1>9. IsFiniteSet(R) /\ Cardinality(R) \in Nat /\ m \in Nat
    BY <1>6, <1>7, <1>8, FS_Subset, FS_CardinalityType
<1>10. Cardinality(R \cup P) = Cardinality(R) + m - Cardinality(R \cap P)
    BY <1>6, <1>9, FS_Union
<1>11. Cardinality(R \cap N) = Cardinality(R \cap P) + Cardinality(R \cap N2)
    <2>1. PICK X, Y : X = R \cap P /\ Y = R \cap N2
        OBVIOUS
    <2>2. IsFiniteSet(X) /\ IsFiniteSet(Y)
        BY <1>9, <2>1, FS_Subset
    <2>3. R \cap N = X \cup Y /\ X \cap Y = {}
        BY <1>6, <2>1
    <2>4. Cardinality(X \cup Y) = Cardinality(X) + Cardinality(Y) - Cardinality(X \cap Y)
        BY <2>2, FS_Union
    <2>5. /\ Cardinality(R \cap N) = Cardinality(X \cup Y)
          /\ Cardinality(R \cap P) = Cardinality(X) /\ Cardinality(R \cap N2) = Cardinality(Y)
        BY <2>1, <2>3, Zenon
    <2>6. Cardinality(X \cap Y) = 0
        BY <2>3, FS_EmptySet
    <2>7. Cardinality(X) \in Nat /\ Cardinality(Y) \in Nat
        BY <2>2, FS_CardinalityType
    <2> QED
        BY <2>4, <2>5, <2>6, <2>7
<1>12. /\ Cardinality(R \cap P) \in Nat /\ Cardinality(R \cap N2) \in Nat
       /\ (R \cup P) \cap N2 = R \cap N2
    <2>1. PICK X, Y : X = R \cap P /\ Y = R \cap N2
        OBVIOUS
    <2>2. IsFiniteSet(X) /\ IsFiniteSet(Y)
        BY <1>9, <2>1, FS_Subset
    <2>3. Cardinality(X) \in Nat /\ Cardinality(Y) \in Nat
        BY <2>2, FS_CardinalityType
    <2> QED
        BY <1>6, <2>1, <2>3
<1>13. Count' - Cardinality(ReadIds') + Cardinality(ReadIds' \cap N2) <= moved'
    <2>1. /\ Cardinality(ReadIds') = Cardinality(R \cup P)
          /\ Cardinality(ReadIds' \cap N2) = Cardinality(R \cap N2)
        BY <1>5, <1>12, Zenon
    <2> QED
        BY <1>5, <1>7, <1>8, <1>9, <1>10, <1>11, <1>12, <2>1
<1>14. steady' \ (ReadIds' \cup N2) = steady \ (R \cup N)
    BY <1>5, <1>6
<1> QED
    BY <1>3, <1>5, <1>7, <1>13, <1>14 DEF SlipsCounted

\* Without a change each page continues the order of the page before.
LEMMA SelectPagePlaces ==
    ASSUME ListingInv, SelectPage, PagesInv, ~SortsFully(query), moved = 0
    PROVE  LikesInPlace'
<1>1. PICK o, m, s, found : Reads(o, m, s, found)
    BY SelectPageReads
<1>2. PICK P : P = Taken(o, m, s)
    OBVIOUS
<1>3. query.kind \in {"page", "search"}
    BY DEF SelectPage
<1>4. /\ Count = o /\ Count' = o + m /\ Horizon = o /\ Horizon' = o + Limit(query)
      /\ UNCHANGED <<server, query, steady, moved>>
    BY <1>1, <1>2, SelectedIds
<1>5. LikesInPlace
    BY <1>3 DEF PagesInv
<1>6. steady' = Selected(query', server')
    BY <1>4, <1>5 DEF LikesInPlace
<1>7. /\ o \in Nat /\ m \in 0 .. Limit(query) /\ s \in Ordered(query)
      /\ m < Limit(query) => Len(s) <= o + m
      /\ DOMAIN found = 1 .. m /\ rows' = found
      /\ \A i \in 1 .. m : o + i \in 1 .. Len(s) /\ found[i].likes = server[s[o + i]].likes
    BY <1>1, Zenon DEF Reads
<1>8. Limit(query) \in Nat \ {0} /\ Len(shown) = o /\ shown \in Seq(Seen)
    BY <1>3, <1>4, <1>7, PagesFacts DEF SelectPage, Count
<1>9. \A i \in 1 .. m : InPlace(found[i], o + i)
    <2> SUFFICES ASSUME NEW i \in 1 .. m, NEW n \in 0 .. MaxLikes
                 PROVE  found[i].likes = n <=> o + i \in Slots(n)
        BY DEF InPlace
    <2>1. server[s[o + i]].likes = n <=> o + i \in Slots(n)
        BY <1>3, <1>7, SlotIsLikes
    <2> QED
        BY <1>7, <2>1
<1>10. \A i \in 1 .. o : InPlace(shown[i], i)
    BY <1>5, <1>8 DEF LikesInPlace
<1>11. \A r, i : InPlace(r, i)' <=> InPlace(r, i)
    BY <1>4, SameSlots
<1>12. Len(s) = Cardinality(steady)
    <2>1. Len(s) = Cardinality(Selected(query, server))
        BY <1>7, OrderedAll
    <2> QED
        BY <1>5, <2>1 DEF LikesInPlace
<1>13. IF Count' = Horizon' THEN Count' <= Cardinality(steady') ELSE Count' = Cardinality(steady')
    <2>1. Len(s) \in Nat /\ o <= Len(s)
        BY <1>4, <1>5, <1>7, <1>12, OrderedAll DEF LikesInPlace
    <2>2. o + m <= Len(s)
        <3>1. CASE m = 0
            BY <1>7, <2>1, <3>1
        <3>2. CASE m \in 1 .. m
            BY <1>7, <3>2
        <3> QED
            BY <1>7, <1>8, <3>1, <3>2
    <2> QED
        BY <1>4, <1>7, <1>8, <1>12, <2>1, <2>2
<1>14. CASE query.kind = "page"
    <2>1. UNCHANGED shown /\ pc' = "liked"
        BY <1>1, <1>14, Zenon DEF Reads
    <2>2. \A i \in DOMAIN shown' : InPlace(shown[i], i)
        BY <1>8, <1>10, <2>1
    <2>3. \A i \in DOMAIN rows' : InPlace(rows'[i], Len(shown') + i)
        BY <1>7, <1>8, <1>9, <2>1
    <2> QED
        BY <1>6, <1>11, <1>13, <2>1, <2>2, <2>3 DEF LikesInPlace
<1>15. CASE query.kind = "search"
    <2>1. /\ pc' = "answered" /\ DOMAIN shown' = 1 .. o + m
          /\ \A i \in 1 .. o : shown'[i] = shown[i]
          /\ \A i \in 1 .. m : shown'[o + i].likes = found[i].likes
        BY <1>1, <1>15 DEF Reads
    <2>2. \A i \in 1 .. m : InPlace(shown'[o + i], o + i)
        BY <1>9, <2>1 DEF InPlace
    <2>3. \A i \in 1 .. o : InPlace(shown'[i], i)
        BY <1>10, <2>1
    <2>4. \A i \in 1 .. o + m : i \in 1 .. o \/ (i - o \in 1 .. m /\ o + (i - o) = i)
        BY <1>7, <1>8
    <2>5. \A i \in DOMAIN shown' : InPlace(shown'[i], i)
        BY <2>1, <2>2, <2>3, <2>4
    <2> QED
        BY <1>6, <1>11, <1>13, <2>1, <2>5 DEF LikesInPlace
<1> QED
    BY <1>3, <1>14, <1>15

-----------------------------------------------------------------------------
(* The other steps of the visitor.                                         *)

\* Nothing of the question or the catalogue changed, and no row was read.
LEMMA SlipsSame ==
    ASSUME SlipsCounted, UNCHANGED <<server, query, steady, moved>>,
           ReadIds' = ReadIds, Count' = Count, Horizon' = Horizon
    PROVE  SlipsCounted'
<1>1. Late' = Late
    BY DEF Late
<1> QED
    BY <1>1 DEF SlipsCounted

\* A row that is looked up stays read, and moves to the same place of the
\* answer.
LEMMA GetUserLikePages ==
    ASSUME ListingInv, PagesInv, GetUserLike, query.kind \in {"page", "search"}
    PROVE  PagesInv'
<1>1. pc = "liked" /\ UNCHANGED <<server, pc, query, page, steady, ever, moved>>
    BY DEF GetUserLike, catalogue, history
<1>2. PICK row, seen :
          /\ rows' \in Seq(Found) /\ Len(rows') = Len(rows) - 1 /\ row = rows[1]
          /\ \A i \in 1 .. Len(rows') : rows'[i] = rows[i + 1]
          /\ Len(rows) \in Nat \ {0}
          /\ seen.id = row.id /\ seen.likes = row.likes
          /\ shown' \in Seq(Seen) /\ Len(shown') = Len(shown) + 1 /\ Len(shown) \in Nat
          /\ \A i \in 1 .. Len(shown) : shown'[i] = shown[i]
          /\ shown'[Len(shown) + 1] = seen
    BY RowMoves, Zenon
<1>3. rows \in Seq(Found) /\ shown \in Seq(Seen) /\ Limit(query) \in Nat \ {0} /\ page \in Nat
    BY <1>1, PagesFacts
<1>4. PICK a, b : /\ a = Len(shown) /\ a \in Nat /\ b = Len(rows') /\ b \in Nat
                  /\ DOMAIN shown = 1 .. a /\ DOMAIN shown' = 1 .. a + 1
                  /\ DOMAIN rows' = 1 .. b /\ DOMAIN rows = 1 .. b + 1
    <2>1. /\ DOMAIN shown = 1 .. Len(shown) /\ DOMAIN shown' = 1 .. Len(shown')
          /\ DOMAIN rows' = 1 .. Len(rows') /\ DOMAIN rows = 1 .. Len(rows)
        BY <1>2, <1>3
    <2> QED
        BY <1>2, <2>1
<1>5. /\ \A i \in 1 .. a : shown'[i] = shown[i]
      /\ \A i \in 1 .. b : rows'[i] = rows[i + 1]
      /\ shown'[a + 1].id = rows[1].id /\ shown'[a + 1].likes = rows[1].likes
    BY <1>2, <1>4
<1>6. /\ \A i \in 1 .. a + 1 : i = a + 1 \/ i \in 1 .. a
      /\ \A i \in 1 .. b + 1 : i = 1 \/ (i - 1 \in 1 .. b /\ (i - 1) + 1 = i)
      /\ a + 1 \in 1 .. a + 1 /\ 1 \in 1 .. b + 1
      /\ \A i \in 1 .. a : i \in 1 .. a + 1
      /\ \A i \in 1 .. b : i + 1 \in 1 .. b + 1
    BY <1>4
<1>7. ReadIds' = ReadIds
    <2>1. ASSUME NEW x
          PROVE  x \in ReadIds <=> \/ \E i \in 1 .. a : x = shown[i].id
                                   \/ \E i \in 1 .. b + 1 : x = rows[i].id
        BY <1>4 DEF ReadIds, ShownIds
    <2>2. ASSUME NEW x
          PROVE  x \in ReadIds' <=> \/ \E i \in 1 .. a + 1 : x = shown'[i].id
                                    \/ \E i \in 1 .. b : x = rows'[i].id
        BY <1>4 DEF ReadIds, ShownIds
    <2>3. ASSUME NEW x
          PROVE  /\ (\E i \in 1 .. a + 1 : x = shown'[i].id) <=>
                       x = rows[1].id \/ \E i \in 1 .. a : x = shown[i].id
                 /\ (\E i \in 1 .. b + 1 : x = rows[i].id) <=>
                       x = rows[1].id \/ \E i \in 1 .. b : x = rows'[i].id
        BY <1>5, <1>6
    <2> QED
        BY <2>1, <2>2, <2>3
<1>8. Count' = Count /\ Horizon' = Horizon
    BY <1>1, <1>2, <1>4 DEF Count, Horizon
<1>9. ASSUME LikesInPlace PROVE LikesInPlace'
    <2>1. \A r, i : InPlace(r, i)' <=> InPlace(r, i)
        BY <1>1, SameSlots
    <2>2. \A i \in 1 .. a : InPlace(shown[i], i)
        BY <1>4, <1>9 DEF LikesInPlace
    <2>3. \A i \in 1 .. b + 1 : InPlace(rows[i], a + i)
        BY <1>1, <1>4, <1>9 DEF LikesInPlace
    <2>4. InPlace(shown'[a + 1], a + 1)
        BY <1>5, <1>6, <2>3 DEF InPlace
    <2>5. \A i \in DOMAIN shown' : InPlace(shown'[i], i)
        BY <1>4, <1>5, <1>6, <2>2, <2>4
    <2>6. \A i \in DOMAIN rows' : InPlace(rows'[i], Len(shown') + i)
        <3> SUFFICES ASSUME NEW i \in 1 .. b PROVE InPlace(rows'[i], (a + 1) + i)
            BY <1>2, <1>4
        <3>1. InPlace(rows[i + 1], a + (i + 1))
            BY <1>6, <2>3
        <3>2. a + (i + 1) = (a + 1) + i
            BY <1>4
        <3> QED
            BY <1>5, <3>1, <3>2
    <2>7. /\ steady' = Selected(query', server')
          /\ IF Count' = Horizon' THEN Count' <= Cardinality(steady')
             ELSE Count' = Cardinality(steady')
        BY <1>1, <1>8, <1>9 DEF LikesInPlace
    <2> QED
        BY <2>1, <2>5, <2>6, <2>7 DEF LikesInPlace
<1>10. SlipsCounted => SlipsCounted'
    BY <1>1, <1>7, <1>8, SlipsSame
<1>11. SortsFully(query)' <=> SortsFully(query)
    BY <1>1, SameSlots
<1> QED
    BY <1>1, <1>7, <1>9, <1>10, <1>11 DEF PagesInv

\* The SELECT of a page reads servers that answer the question.
LEMMA SelectPagePages ==
    ASSUME ListingInv, PagesInv, SelectPage
    PROVE  PagesInv'
<1>1. query.kind \in {"page", "search"} /\ pc = "select"
    BY DEF SelectPage
<1>2. PICK o, m, s, found : Reads(o, m, s, found)
    BY SelectPageReads
<1>3. PICK P : P = Taken(o, m, s)
    OBVIOUS
<1>4. /\ ReadIds' = ReadIds \cup P /\ P \subseteq Selected(query, server)
      /\ UNCHANGED <<server, query, steady, ever, moved>>
    <2>1. ReadIds' = ReadIds \cup P
        BY <1>2, <1>3, SelectedIds
    <2>2. P \subseteq Selected(query, server)
        BY <1>2, <1>3, SelectedIds
    <2>3. UNCHANGED <<server, query, steady, ever, moved>>
        BY DEF SelectPage, catalogue, history
    <2> QED
        BY <2>1, <2>2, <2>3
<1>5. Selected(query, server) \subseteq ever
    BY <1>1, Parts DEF QuestionOK
<1>6. ReadIds' \subseteq ever'
    BY <1>1, <1>4, <1>5 DEF PagesInv
<1>7. pc' # "done"
    BY <1>2 DEF Reads
<1>8. SortsFully(query)' <=> SortsFully(query)
    BY <1>4, SameSlots
<1> QED
    BY <1>4, <1>6, <1>7, <1>8, SelectPageSlips, SelectPagePlaces DEF PagesInv

\* The page is answered: the next one begins where this one ended.
LEMMA AnswerPages ==
    ASSUME ListingInv, PagesInv, Answer, query.kind \in {"page", "search"}
    PROVE  PagesInv'
<1>1. /\ (pc = "liked" /\ rows = <<>>) \/ pc = "answered"
      /\ rows' = <<>> /\ UNCHANGED <<server, query, shown, steady, ever, moved>>
      /\ IF Len(shown) = (page + 1) * Limit(query)
         THEN pc' = "select" /\ page' = page + 1
         ELSE pc' = "done" /\ UNCHANGED page
    BY DEF Answer, catalogue, history
<1>2. Limit(query) \in Nat \ {0} /\ page \in Nat /\ Len(shown) \in Nat
    BY PagesFacts
<1>3. Count = Len(shown) /\ Count' = Len(shown)
    BY <1>1, <1>2 DEF Count
<1>4. Horizon = (page + 1) * Limit(query) /\ Horizon' = (page + 1) * Limit(query)
    BY <1>1 DEF Horizon
<1>5. ShownIds' = ShownIds
    BY <1>1 DEF ShownIds
<1>6. ReadIds' = ShownIds
    <2>1. {rows'[i].id : i \in DOMAIN rows'} = {}
        BY <1>1
    <2> QED
        BY <1>5, <2>1 DEF ReadIds
<1>7. ReadIds' \subseteq ever'
    BY <1>1, <1>6 DEF PagesInv, ReadIds
<1>8. pc' = "done" => Count' # Horizon'
    BY <1>1, <1>3, <1>4
<1>9. ASSUME SortsFully(query) PROVE SlipsCounted'
    <2>1. query.kind # "search"
        BY <1>9 DEF SortsFully, Order
    <2>2. rows = <<>>
        BY <1>1, <2>1, Parts DEF StageOK
    <2>3. {rows[i].id : i \in DOMAIN rows} = {}
        BY <2>2
    <2>4. ReadIds' = ReadIds
        BY <1>6, <2>3 DEF ReadIds
    <2> QED
        BY <1>1, <1>3, <1>4, <1>9, <2>4, SlipsSame DEF PagesInv
<1>10. ASSUME LikesInPlace PROVE LikesInPlace'
    <2>1. \A r, i : InPlace(r, i)' <=> InPlace(r, i)
        BY <1>1, SameSlots
    <2>2. pc' # "liked" /\ Count' = Count /\ Horizon' = Horizon
        BY <1>1, <1>3, <1>4
    <2> QED
        BY <1>1, <1>10, <2>1, <2>2 DEF LikesInPlace
<1>11. SortsFully(query)' <=> SortsFully(query)
    BY <1>1, SameSlots
<1> QED
    BY <1>1, <1>7, <1>8, <1>9, <1>10, <1>11 DEF PagesInv

\* Before the first page nothing is read and all is to come.
LEMMA AskPages ==
    ASSUME ListingInv, ListingInv', NEW q \in Query, Ask(q)
    PROVE  PagesInv'
<1>1. /\ pc = "idle" /\ pc' = "select" /\ query' = q
      /\ steady' = Selected(q, server) /\ ever' = Selected(q, server)
      /\ UNCHANGED <<server, page, rows, shown, moved>>
    BY DEF Ask, Asks, catalogue
<1>2. rows = <<>> /\ shown = <<>> /\ page = 0 /\ moved = 0
    BY <1>1, Parts DEF StageOK
<1> SUFFICES ASSUME q.kind \in {"page", "search"} PROVE PagesInv'
    BY <1>1 DEF PagesInv
<1>3. Limit(query') \in Nat \ {0}
    BY <1>1 DEF ListingInv, PagingOK
<1>4. ReadIds' = {} /\ Count' = 0 /\ Horizon' = 0
    <2>1. ShownIds' = {} /\ {rows'[i].id : i \in DOMAIN rows'} = {}
        BY <1>1, <1>2 DEF ShownIds
    <2>2. Count' = 0
        BY <1>1, <1>2 DEF Count
    <2>3. Horizon' = 0
        BY <1>1, <1>2, <1>3 DEF Horizon
    <2> QED
        BY <2>1, <2>2, <2>3 DEF ReadIds
<1>5. PICK T, A : T = Selected(q, server) /\ A = Above(q, server)
    OBVIOUS
<1>6. /\ IsFiniteSet(T) /\ \A id \in T : Cardinality(A[id]) \in Nat
      /\ \A k, id : id \in Ahead(q, server, k) <=> id \in T /\ Cardinality(A[id]) >= k
    BY <1>5, ListedTable, AboveFacts
<1>7. Late' = T
    <2>1. Late' = Ahead(q, server, 0)
        BY <1>1, <1>4 DEF Late
    <2>2. \A id : id \in Ahead(q, server, 0) <=> id \in T
        BY <1>6
    <2> QED
        BY <2>1, <2>2
<1>8. SlipsCounted'
    <2>1. ReadIds' \cap Late' = {} /\ steady' \ (ReadIds' \cup Late') = {}
        BY <1>1, <1>4, <1>5, <1>7
    <2>2. Cardinality({}) = 0
        BY FS_EmptySet
    <2>3. /\ Cardinality(ReadIds') = 0 /\ Cardinality(ReadIds' \cap Late') = 0
          /\ Cardinality(steady' \ (ReadIds' \cup Late')) = 0
        BY <1>4, <2>1, <2>2, Zenon
    <2> QED
        BY <1>1, <1>2, <1>4, <2>3 DEF SlipsCounted
<1>9. LikesInPlace'
    <2>1. Cardinality(steady') \in Nat
        BY <1>1, <1>5, <1>6, FS_CardinalityType
    <2> QED
        BY <1>1, <1>2, <1>4, <2>1 DEF LikesInPlace
<1> QED
    BY <1>1, <1>4, <1>8, <1>9 DEF PagesInv

\* Nothing has been asked for yet.
LEMMA PagesInit == Init => PagesInv
BY DEF Init, NoQuery, PagesInv

\* Every step of the visitor and of others keeps what was read in order.
LEMMA PagesStep == ListingInv /\ ListingInv' /\ PagesInv /\ [Next]_vars => PagesInv'
<1> SUFFICES ASSUME ListingInv, ListingInv', PagesInv, [Next]_vars PROVE PagesInv'
    OBVIOUS
<1>1. CASE \E q \in Query : Ask(q) \/ AskStatuses(q)
    <2>1. PICK q \in Query : Ask(q) \/ AskStatuses(q)
        BY <1>1
    <2>2. AskStatuses(q) => query'.kind = "statuses"
        BY DEF AskStatuses, Asks
    <2> QED
        BY <2>1, <2>2, AskPages DEF PagesInv
<1>2. CASE SelectPage
    BY <1>2, SelectPagePages
<1>3. CASE SelectOne
    BY <1>3 DEF SelectOne, PagesInv
<1>4. CASE GetUserLike
    <2>1. query' = query
        BY <1>4 DEF GetUserLike
    <2> QED
        BY <1>4, <2>1, GetUserLikePages DEF PagesInv
<1>5. CASE Answer
    <2>1. query' = query
        BY <1>5 DEF Answer
    <2> QED
        BY <1>5, <2>1, AnswerPages DEF PagesInv
<1>6. CASE GetOnlineStatus \/ AnswerStatuses
    <2>1. pc = "dial" /\ query' = query
        BY <1>6 DEF GetOnlineStatus, AnswerStatuses
    <2>2. query.kind = "statuses"
        BY <2>1, Parts DEF StageOK
    <2> QED
        BY <2>1, <2>2 DEF PagesInv
<1>7. CASE Leave
    BY <1>7 DEF Leave, Reset, NoQuery, PagesInv
<1>8. CASE Others
    <2>1. query' = query
        BY <1>8, OneRowChanges, Zenon DEF Change
    <2> QED
        BY <1>8, <2>1, ChangePages DEF PagesInv
<1>9. CASE UNCHANGED vars
    BY <1>9 DEF vars, PagesInv, SlipsCounted, LikesInPlace, ReadIds, ShownIds, Count, Horizon,
                Late, InPlace, Slots, Better, Equal, SortsFully
<1>10. CASE \E id \in 1 .. ids : ToggleGuestKey(id)
    <2>1. UNCHANGED <<server, ids, pc, query, page, rows, shown, steady, ever, moved>>
        BY <1>10 DEF ToggleGuestKey
    <2>2. UNCHANGED <<ReadIds, Count, Horizon>>
        BY <2>1 DEF ReadIds, ShownIds, Count, Horizon
    <2>3. UNCHANGED SlipsCounted
        BY <2>1, <2>2 DEF SlipsCounted, Late
    <2>4. \A row, i : InPlace(row, i)' <=> InPlace(row, i)
        BY <2>1 DEF InPlace, Slots, Better, Equal
    <2>5. LikesInPlace => LikesInPlace'
        BY <2>1, <2>2, <2>4 DEF LikesInPlace
    <2> QED
        BY <2>1, <2>2, <2>3, <2>5 DEF PagesInv, SortsFully
<1> QED
    BY <1>1, <1>2, <1>3, <1>4, <1>5, <1>6, <1>7, <1>8, <1>9, <1>10 DEF Next, Visit

\* What is missing, and what was shown again, after the last page.  By then
\* nothing is still to come, and the places of each number of likes are all
\* taken.
LEMMA FewMissed ==
    ASSUME ListingInv, PagesInv
    PROVE  PagesMissFew
<1> SUFFICES ASSUME pc = "done", query.kind \in {"page", "search"}
             PROVE  /\ ShownIds \subseteq ever
                    /\ SortsFully(query) => Cardinality(Missed) <= moved /\ Repeats <= moved
                    /\ ~SortsFully(query) /\ moved = 0 =>
                          \A n \in 0 .. MaxLikes :
                              Cardinality({i \in DOMAIN shown : shown[i].likes = n}) =
                              Cardinality({id \in steady : server[id].likes = n})
    BY DEF PagesMissFew, ShownIds
<1>1. /\ Len(shown) \in Nat /\ shown \in Seq(Seen) /\ IsFiniteSet(ever)
      /\ steady \subseteq ever /\ moved \in Nat
    BY PagesFacts
<1>2. rows = <<>>
    BY Parts DEF StageOK
<1>3. ReadIds = ShownIds
    <2>1. {rows[i].id : i \in DOMAIN rows} = {}
        BY <1>2
    <2> QED
        BY <2>1 DEF ReadIds
<1>4. Count = Len(shown) /\ Count # Horizon
    BY <1>1 DEF Count, PagesInv
<1>5. Late = {}
    BY <1>4 DEF Late
<1>6. ShownIds \subseteq ever
    BY <1>3 DEF PagesInv
<1>7. ASSUME SortsFully(query) PROVE Cardinality(Missed) <= moved /\ Repeats <= moved
    <2>1. SlipsCounted
        BY <1>7 DEF PagesInv
    <2>2. PICK S, D : S = ShownIds /\ D = DOMAIN shown /\ IsFiniteSet(D)
        <3>1. DOMAIN shown = 1 .. Len(shown)
            BY <1>1
        <3>2. IsFiniteSet(1 .. Len(shown))
            BY <1>1, FS_Interval
        <3> QED
            BY <3>1, <3>2
    <2>3. \A id : Times(id) = 0 <=> id \notin S
        <3> SUFFICES ASSUME NEW id PROVE Times(id) = 0 <=> id \notin S
            OBVIOUS
        <3>1. PICK I : I = {i \in D : shown[i].id = id} /\ IsFiniteSet(I)
            <4>1. {i \in D : shown[i].id = id} \subseteq D
                OBVIOUS
            <4> QED
                BY <2>2, <4>1, FS_Subset
        <3>2. Times(id) = Cardinality(I)
            BY <2>2, <3>1 DEF Times
        <3>3. I = {} <=> id \notin S
            BY <2>2, <3>1 DEF ShownIds
        <3> QED
            BY <3>1, <3>2, <3>3, FS_EmptySet
    <2>4. Missed = steady \ S
        BY <2>3 DEF Missed
    <2>5. Cardinality(steady \ S) <= moved
        <3>1. ReadIds \cup Late = S
            BY <1>3, <1>5, <2>2
        <3>2. Cardinality(steady \ (ReadIds \cup Late)) <= moved
            BY <2>1 DEF SlipsCounted
        <3> QED
            BY <3>1, <3>2, Zenon
    <2>6. Repeats = Len(shown) - Cardinality(S)
        BY <2>2 DEF Repeats, ShownIds
    <2>7. Len(shown) - Cardinality(S) <= moved
        <3>1. ReadIds \cap Late = {} /\ ReadIds = S
            BY <1>3, <1>5, <2>2
        <3>2. Count - Cardinality(S) + Cardinality({}) <= moved
            BY <2>1, <3>1 DEF SlipsCounted
        <3>3. IsFiniteSet(S) /\ Cardinality(S) \in Nat /\ Cardinality({}) = 0
            BY <1>1, <1>6, <2>2, FS_Subset, FS_CardinalityType, FS_EmptySet
        <3> QED
            BY <1>1, <1>4, <3>2, <3>3
    <2> QED
        BY <2>4, <2>5, <2>6, <2>7
<1>8. ASSUME ~SortsFully(query), moved = 0, NEW n \in 0 .. MaxLikes
      PROVE  Cardinality({i \in DOMAIN shown : shown[i].likes = n}) =
             Cardinality({id \in steady : server[id].likes = n})
    <2>1. LikesInPlace
        BY <1>8 DEF PagesInv
    <2>2. PICK N, B, E : /\ N = Len(shown) /\ B = Better(query, server, n)
                         /\ E = Equal(query, server, n)
        OBVIOUS
    <2>3. /\ N \in Nat /\ DOMAIN shown = 1 .. N /\ n \in Nat
          /\ \A i \in 1 .. N : shown[i].likes = n <=> i \in Slots(n)
        <3>1. N \in Nat /\ DOMAIN shown = 1 .. N /\ n \in Nat
            BY <1>1, <2>2, ListingAssumption
        <3> QED
            BY <2>1, <3>1 DEF LikesInPlace, InPlace
    <2>4. /\ B \subseteq steady /\ E \subseteq steady /\ Cardinality(steady) = N
          /\ Cardinality(B) \in Nat /\ Cardinality(E) \in Nat
          /\ Cardinality(B \cup E) = Cardinality(B) + Cardinality(E)
        <3>1. steady = Selected(query, server) /\ Count = Cardinality(steady)
            BY <1>4, <2>1 DEF LikesInPlace
        <3> QED
            BY <1>4, <2>2, <2>3, <3>1, ListedTable, SlotsFacts
    <2>5. Cardinality(B) + Cardinality(E) <= N
        <3>1. IsFiniteSet(steady) /\ B \cup E \subseteq steady
            BY <1>1, <2>4, FS_Subset
        <3>2. Cardinality(B \cup E) <= Cardinality(steady)
            BY <3>1, FS_Subset
        <3> QED
            BY <2>4, <3>2
    <2>6. PICK b, e : b = Cardinality(B) /\ e = Cardinality(E) /\ b \in Nat /\ e \in Nat
        BY <2>4
    <2>7. Slots(n) = b + 1 .. b + 1 + e - 1
        BY <2>2, <2>6 DEF Slots
    <2>8. {i \in DOMAIN shown : shown[i].likes = n} = b + 1 .. b + e
        BY <2>3, <2>5, <2>6, <2>7
    <2>9. Cardinality(b + 1 .. b + e) = e
        <3>1. b + 1 \in Int /\ b + e \in Int /\ (b + e) - (b + 1) + 1 = e
            BY <2>6
        <3>2. Cardinality(b + 1 .. b + e) = IF b + 1 > b + e THEN 0 ELSE (b + e) - (b + 1) + 1
            BY <3>1, FS_Interval
        <3> QED
            BY <2>6, <3>1, <3>2
    <2>10. {id \in steady : server[id].likes = n} = E
        BY <2>1, <2>2 DEF LikesInPlace, Equal
    <2> QED
        BY <2>6, <2>8, <2>9, <2>10, Zenon
<1> QED
    BY <1>6, <1>7, <1>8

\* However the catalogue changes between two pages, what was read, what is
\* still to come and the changes so far fit: in an order that ends in
\* created_at each change moves one server at most past the rows read, and in
\* an order by likes alone every row has a place of its number of likes.
THEOREM PagesInvariant == Spec => [](ListingInv /\ PagesInv)
<1>1. Init => ListingInv /\ PagesInv
    BY ListingInit, PagesInit
<1>2. ListingInv /\ PagesInv /\ [Next]_vars => (ListingInv /\ PagesInv)'
    BY ListingStep, PagesStep
<1> QED
    BY <1>1, <1>2, PTL DEF Spec

\* A visitor who has read all pages has missed and seen again no more servers
\* than the catalogue changed meanwhile, if the order ends in created_at; by
\* likes alone, without a change, the numbers of servers are right.
THEOREM PagesAreRead == Spec => []PagesMissFew
<1>1. ListingInv /\ PagesInv => PagesMissFew
    BY FewMissed
<1> QED
    BY <1>1, PagesInvariant, PTL
=============================================================================
