------------------------------- MODULE Listing -------------------------------
(***************************************************************************)
(* The catalogue as a visitor reads it: pages with filters and an order, a *)
(* search, one server by its name, the online status of a list of servers. *)
(* A page is one SELECT; after it the visitor's like of each row is looked *)
(* up by a call of its own; a status is a SELECT and a dial for each id.   *)
(* Meanwhile others create, edit, remove and vote, and so does the visitor *)
(* in another tab; a guest's own vote is two steps, of Redis and of the    *)
(* counter, any other change is one (modules Catalog and Likes have their  *)
(* steps).  The visitor asks for page after page until one is not full.    *)
(*                                                                         *)
(* created_at is the id, name_id is the id too, the words of name and      *)
(* description are a set.  The number of players on a page is left out.    *)
(***************************************************************************)
EXTENDS Validation, Sequences, SequencesExt

CONSTANTS
    Start,       \* the rows at the start, in order of creation
    Draft,       \* bodies sent to create a server
    Patch,       \* bodies sent to edit one
    Query,       \* what the visitor may ask for
    MaxServers,  \* bound: servers ever created
    MaxChanges,  \* bound: changes by others and in the other tab
    MaxLikes     \* bound: likes of a server

Column == {"ip", "domain", "region", "tags", "words"}
Optional == Address \cup {Null}

\* What is stored has passed the checks.
Stored(ip) == Given(ip) => ip.form = "host:port" /\ ip.port \in Port

Row ==
    {row \in [ip : Optional, domain : Optional, region : ValidRegions,
              tags : SUBSET ValidTags, words : SUBSET STRING, likes : 0 .. MaxLikes] :
        Stored(row.ip)}

\* Bodies and parameters are decoded into typed fields, and no body has a
\* field for the counter.
ASSUME ListingAssumption ==
    /\ MaxServers \in Nat /\ MaxChanges \in Nat /\ MaxLikes \in Nat
    /\ Null \notin {"asc", "desc"}
    /\ Start \in Seq(Row) /\ Len(Start) <= MaxServers
    /\ \A dto \in Draft :
          dto.ip \in Optional /\ dto.domain \in Optional /\ dto.words \in SUBSET STRING
    /\ \A dto \in Patch :
          /\ "likes" \notin DOMAIN dto
          /\ \A c \in {"ip", "domain"} \cap DOMAIN dto : dto[c] \in Address
          /\ "words" \in DOMAIN dto => dto.words \in SUBSET STRING
    /\ \A q \in Query :
          /\ q.kind \in {"page", "search", "one", "statuses"}
          /\ q.kind \in {"page", "search"} => q.limit \in Int
          /\ q.kind = "statuses" => q.ids \in Seq(Nat)

VARIABLES
    server,   \* rows of "server" by id
    ids,      \* ids given
    voted,    \* the servers with a row of "like" of the visitor, or a key in
              \* Redis if it is a guest
    changes,  \* history: changes so far
    pc,       \* what the visitor's request does next
    query,    \* what the visitor asked for
    page,     \* the page asked for
    rows,     \* the rows read whose likes are still to be looked up, or the
              \* ids still to be dialled
    shown,    \* what was answered so far, over all pages
    steady,   \* history: servers that were to be shown ever since the question
    ever,     \* history: those that were at some time since
    moved,    \* history: changes since
    own       \* history: servers that had such a row or key at some time since

vars == <<server, ids, voted, changes, pc, query, page, rows, shown,
          steady, ever, moved, own>>
catalogue == <<server, ids, voted, changes>>
history == <<steady, ever, moved, own>>

Listed == DOMAIN server
NoQuery == [kind |-> "none"]

Init ==
    /\ server = [id \in DOMAIN Start |-> Start[id]] /\ ids = Len(Start)
    /\ voted = {} /\ changes = 0
    /\ pc = "idle" /\ query = NoQuery /\ page = 0 /\ rows = <<>> /\ shown = <<>>
    /\ steady = {} /\ ever = {} /\ moved = 0 /\ own = {}

-----------------------------------------------------------------------------
(* What a query selects, and in which order.                               *)

\* FindPage: the region and any of the tags.
InFilters(q, row) ==
    /\ q.region \in {Null, row.region}
    /\ q.tags = {} \/ q.tags \cap row.tags # {}

\* SearchServers: every word, in the texts or as a tag.
HasWords(q, row) ==
    \A w \in q.words : w \in row.words \/ w \in ValidTags \cap row.tags

Selected(q, table) ==
    {id \in DOMAIN table :
        CASE q.kind = "page" -> InFilters(q, table[id])
          [] q.kind = "search" -> HasWords(q, table[id])
          [] q.kind = "one" -> id = q.id
          [] q.kind = "statuses" -> id \in ToSet(q.ids)}

\* ORDER BY: the direction of each column the body names, both descending if
\* it names none.  A search goes by likes alone.
Order(q) ==
    IF q.kind = "search" THEN [likes |-> "desc", createdAt |-> Null]
    ELSE IF q.likes = Null /\ q.createdAt = Null THEN [likes |-> "desc", createdAt |-> "desc"]
    ELSE [likes |-> q.likes, createdAt |-> q.createdAt]

\* Whatever is not "asc" is descending.
Before(direction, x, y) ==
    direction # Null /\ (IF direction = "asc" THEN x < y ELSE x > y)

\* Likes go before created_at, whichever of them the body names first.
Comes(q, table, a, b) ==
    LET x == table[a].likes
        y == table[b].likes
    IN  \/ Before(Order(q).likes, x, y)
        \/ (Order(q).likes = Null \/ x = y) /\ Before(Order(q).createdAt, a, b)

\* Rows that compare equal come in any order, another one each time.
Ordered(q) ==
    {s \in SetToSeqs(Selected(q, server)) :
        \A i, j \in DOMAIN s : i < j => ~Comes(q, server, s[j], s[i])}

\* A search without a limit has one of ten.
Limit(q) == IF q.kind = "search" /\ q.limit <= 0 THEN 10 ELSE q.limit

\* Mutant: pages are counted from one.
OffsetFromOne(q) == (page + 1) * Limit(q)

Offset(q) == page * Limit(q)

Cut(q, s) == [i \in 1 .. Min({Limit(q), Max({0, Len(s) - Offset(q)})}) |-> s[Offset(q) + i]]

-----------------------------------------------------------------------------
(* The visitor.                                                            *)

\* A body or parameters that do not pass are answered at once.
Passes(q) ==
    CASE q.kind = "page" -> PageErrors(page, q.limit) = {}
      [] q.kind = "search" -> q.words # {} /\ Limit(q) <= 50
      [] q.kind = "statuses" -> q.ids # <<>>
      [] OTHER -> TRUE

Asks(q) ==
    /\ pc = "idle" /\ Passes(q)
    /\ query' = q
    /\ steady' = Selected(q, server) /\ ever' = Selected(q, server) /\ own' = voted

Ask(q) ==
    /\ q.kind # "statuses" /\ Asks(q)
    /\ pc' = "select"
    /\ UNCHANGED <<catalogue, page, rows, shown, moved>>

AskStatuses(q) ==
    /\ q.kind = "statuses" /\ Asks(q)
    /\ pc' = "dial" /\ rows' = q.ids
    /\ UNCHANGED <<catalogue, page, shown, moved>>

Flagged(row, flag) == [id |-> row.id, likes |-> row.likes, liked |-> flag]

Shown(ids_) == [i \in DOMAIN ids_ |-> [id |-> ids_[i], likes |-> server[ids_[i]].likes]]

\* FindPage, and SearchServers, whose rows are the answer.
SelectPage ==
    /\ pc = "select" /\ query.kind \in {"page", "search"}
    /\ \E s \in Ordered(query) :
          LET found == Shown(Cut(query, s))
          IN  IF query.kind = "page" THEN rows' = found /\ pc' = "liked" /\ UNCHANGED shown
              ELSE /\ shown' = shown \o [i \in DOMAIN found |-> Flagged(found[i], FALSE)]
                   /\ pc' = "answered" /\ rows' = found
    /\ UNCHANGED <<catalogue, query, page, history>>

GetServerByNameID(name) == IF name \in Listed THEN <<name>> ELSE <<>>

SelectOne ==
    /\ pc = "select" /\ query.kind = "one"
    /\ rows' = Shown(GetServerByNameID(query.id))
    /\ pc' = "liked"
    /\ UNCHANGED <<catalogue, query, page, shown, history>>

Liked(flag) == shown' = Append(shown, Flagged(Head(rows), flag))

\* Mutant: the flag is that of the row before.
LikedRowBefore ==
    /\ pc = "liked" /\ rows # <<>>
    /\ Liked(IF shown = <<>> THEN FALSE ELSE shown[Len(shown)].id \in voted)
    /\ rows' = Tail(rows)
    /\ UNCHANGED <<catalogue, pc, query, page, history>>

\* Of a user, and GetGuestLike of a guest.  An error is dropped: not liked.
GetUserLike ==
    /\ pc = "liked" /\ rows # <<>>
    /\ Liked(Head(rows).id \in voted) \/ Liked(FALSE)
    /\ rows' = Tail(rows)
    /\ UNCHANGED <<catalogue, pc, query, page, history>>

\* The page is answered; while pages are full there is another to ask for.
Answer ==
    /\ \/ pc = "liked" /\ rows = <<>>
       \/ pc = "answered"
    /\ IF query.kind \in {"page", "search"} /\ Len(shown) = (page + 1) * Limit(query)
       THEN pc' = "select" /\ page' = page + 1
       ELSE pc' = "done" /\ UNCHANGED page
    /\ rows' = <<>>
    /\ UNCHANGED <<catalogue, query, shown, history>>

\* CheckPort: the port is 25565 unless the address has one; what cannot be
\* split or resolved is not online.
CheckPort(a) == IF a.form \in {"host", "host:port"} /\ a.space = "none" THEN BOOLEAN ELSE {FALSE}

\* GetOnlineStatus: real_ip goes before domain, and "" counts as absent.
Status(row) ==
    IF row.ip \notin {Null, Empty} THEN CheckPort(row.ip)
    ELSE IF row.domain \notin {Null, Empty} THEN CheckPort(row.domain)
    ELSE {Null}

\* Mutant: an id without a status ends the list.
StatusOrEnd ==
    /\ pc = "dial" /\ rows # <<>>
    /\ IF Head(rows) \in Listed
       THEN /\ \E on \in Status(server[Head(rows)]) :
                  shown' = Append(shown, [id |-> Head(rows), online |-> on])
            /\ rows' = Tail(rows)
       ELSE rows' = <<>> /\ UNCHANGED shown
    /\ UNCHANGED <<catalogue, pc, query, page, history>>

\* An id that is not listed, or whose row cannot be read, is passed over.
GetOnlineStatus ==
    /\ pc = "dial" /\ rows # <<>>
    /\ \/ /\ Head(rows) \in Listed
          /\ \E on \in Status(server[Head(rows)]) :
                shown' = Append(shown, [id |-> Head(rows), online |-> on])
          /\ UNCHANGED steady
       \/ steady' = steady \ {Head(rows)} /\ UNCHANGED shown
    /\ rows' = Tail(rows)
    /\ UNCHANGED <<catalogue, pc, query, page, ever, moved, own>>

AnswerStatuses ==
    /\ pc = "dial" /\ rows = <<>> /\ pc' = "done"
    /\ UNCHANGED <<catalogue, query, page, rows, shown, history>>

Reset ==
    /\ pc' = "idle" /\ query' = NoQuery /\ page' = 0 /\ rows' = <<>> /\ shown' = <<>>
    /\ steady' = {} /\ ever' = {} /\ moved' = 0 /\ own' = {}
    /\ UNCHANGED catalogue

\* The visitor has read it all, or the SELECT failed.
Leave == pc \in {"done", "select"} /\ Reset

-----------------------------------------------------------------------------
(* The others.                                                             *)

\* A change to the table, and what it means for the visitor's question.
Change(new) ==
    /\ changes < MaxChanges /\ changes' = changes + 1
    /\ server' = new
    /\ IF pc = "idle" THEN UNCHANGED <<steady, ever, moved>>
       ELSE /\ steady' = steady \cap Selected(query, new)
            /\ ever' = ever \cup Selected(query, new)
            /\ moved' = moved + 1
    /\ UNCHANGED <<pc, query, page, rows, shown>>

\* UNIQUE (domain) and UNIQUE (real_ip).
Clashes(id, row) ==
    \E i \in Listed \ {id} :
        \/ row.domain # Null /\ row.domain = server[i].domain
        \/ row.ip # Null /\ row.ip = server[i].ip

\* The addresses are stored as they came, spaces and all.
CreateServer(dto) ==
    /\ ids < MaxServers /\ CreateErrors(dto) = {}
    /\ LET row == [c \in Column \cup {"likes"} |-> IF c = "likes" THEN 0 ELSE dto[c]]
       IN  /\ ~Clashes(ids + 1, row)
           /\ Change([i \in Listed \cup {ids + 1} |-> IF i = ids + 1 THEN row ELSE server[i]])
    /\ ids' = ids + 1
    /\ UNCHANGED <<voted, own>>

UpdateServer(id, dto) ==
    /\ id \in Listed /\ UpdateErrors(dto) = {}
    /\ LET row == [c \in DOMAIN server[id] |-> IF c \in DOMAIN dto THEN dto[c] ELSE server[id][c]]
       IN  ~Clashes(id, row) /\ Change([server EXCEPT ![id] = row])
    /\ UNCHANGED <<ids, voted, own>>

\* A user's row goes with the server's, a guest's key stays.
DeleteServer(id) ==
    /\ id \in Listed
    /\ Change([i \in Listed \ {id} |-> server[i]])
    /\ voted' \in {voted, voted \ {id}}
    /\ UNCHANGED <<ids, own>>

Likes(id, n) == n \in 0 .. MaxLikes /\ Change([server EXCEPT ![id].likes = n])

\* GREATEST(likes_quantity - 1, 0)
OneLess(n) == IF n = 0 THEN 0 ELSE n - 1

\* UpdateLikesQuantity, and ToggleUserLike of somebody else: also the second
\* half of a guest's own vote, and a like that two tabs take back.
Vote(id) ==
    /\ id \in Listed
    /\ \E n \in {server[id].likes + 1, OneLess(server[id].likes)} : Likes(id, n)
    /\ UNCHANGED <<ids, voted, own>>

Take(id) == voted' = voted \ {id} /\ UNCHANGED own
Give(id) ==
    /\ voted' = voted \cup {id}
    /\ own' = IF pc = "idle" THEN own ELSE own \cup {id}

\* The visitor's row and the counter change in one transaction.
ToggleUserLike(id) ==
    /\ id \in Listed
    /\ IF id \in voted THEN Likes(id, OneLess(server[id].likes)) /\ Take(id)
       ELSE Likes(id, server[id].likes + 1) /\ Give(id)
    /\ UNCHANGED ids

\* The key of a guest: the server may be gone by then, the UPDATE of its
\* counter follows or fails, and a key is gone after a day by itself.
ToggleGuestKey(id) ==
    /\ changes < MaxChanges /\ changes' = changes + 1
    /\ IF id \in voted THEN Take(id) ELSE Give(id)
    /\ UNCHANGED <<server, ids, pc, query, page, rows, shown, steady, ever, moved>>

-----------------------------------------------------------------------------
Visit ==
    \/ \E q \in Query : Ask(q) \/ AskStatuses(q)
    \/ SelectPage \/ SelectOne \/ GetUserLike \/ Answer
    \/ GetOnlineStatus \/ AnswerStatuses \/ Leave

Others ==
    \/ \E dto \in Draft : CreateServer(dto)
    \/ \E id \in 1 .. ids :
          \/ \E dto \in Patch : UpdateServer(id, dto)
          \/ DeleteServer(id) \/ Vote(id) \/ ToggleUserLike(id)

Next == Visit \/ Others \/ \E id \in 1 .. ids : ToggleGuestKey(id)

Spec == Init /\ [][Next]_vars

-----------------------------------------------------------------------------
TypeOK ==
    /\ server \in [Listed -> Row] /\ Listed \subseteq 1 .. ids /\ ids \in 0 .. MaxServers
    /\ voted \subseteq 1 .. ids /\ changes \in 0 .. MaxChanges
    /\ pc \in {"idle", "select", "liked", "answered", "dial", "done"}
    /\ query \in Query \cup {NoQuery} /\ page \in 0 .. MaxServers
    /\ steady \subseteq ever /\ ever \subseteq 1 .. ids
    /\ moved \in 0 .. MaxChanges /\ own \subseteq 1 .. ids

Times(id) == Cardinality({i \in DOMAIN shown : shown[i].id = id})
Missed == {id \in steady : Times(id) = 0}
Repeats == Len(shown) - Cardinality({shown[i].id : i \in DOMAIN shown})

SortsFully(q) == Order(q).createdAt # Null

\* A visitor who reads all pages of an order that ends in created_at misses
\* and sees again no more servers than the catalogue changed meanwhile.  An
\* order by likes alone is no order of servers: then pages of a catalogue
\* that does not change have the right number of servers with each number
\* of likes, but which ones is left to chance.
PagesMissFew ==
    pc = "done" /\ query.kind \in {"page", "search"} =>
        /\ {shown[i].id : i \in DOMAIN shown} \subseteq ever
        /\ IF SortsFully(query)
           THEN Cardinality(Missed) <= moved /\ Repeats <= moved
           ELSE moved = 0 =>
                  \A n \in 0 .. MaxLikes :
                      Cardinality({i \in DOMAIN shown : shown[i].likes = n}) =
                      Cardinality({id \in steady : server[id].likes = n})

\* A server is shown as liked only if the visitor's like of this very
\* server stood at some time since the question, whatever was taken back in
\* the other tab, removed or moved to another page meanwhile.  The counter
\* beside it says nothing of it: the two are written and read apart.
LikedWasVoted ==
    query.kind \in {"page", "one"} =>
        \A i \in DOMAIN shown : shown[i].liked => shown[i].id \in own

\* The answer has a status for every server that was asked about, listed
\* all along and readable, whatever became of the ids before it in the
\* list, and for none that was not listed.
StatusesComplete ==
    pc = "done" /\ query.kind = "statuses" =>
        /\ steady \subseteq {shown[i].id : i \in DOMAIN shown}
        /\ {shown[i].id : i \in DOMAIN shown} \subseteq ever
=============================================================================
