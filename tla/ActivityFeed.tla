---------------------------- MODULE ActivityFeed ----------------------------
(***************************************************************************)
(* The activity of a wall or a climb (web/src/components/ActivityFeed.tsx  *)
(* and useActivity): a feed that is read page by page, each page from the  *)
(* cursor of the one before (server/internal/route/activity.go), while     *)
(* entries are logged, edited and deleted by everyone.                     *)
(*                                                                         *)
(* A fetch of all reads as many pages as are shown, each from the cursor   *)
(* of the page it has just read; a fetch of more reads one after them.     *)
(* Either cancels the one that is under way.                               *)
(***************************************************************************)
EXTENDS Integers, Sequences, SequencesExt, FiniteSets

CONSTANTS
    Dates,       \* days, as numbers, on which one may have climbed
    Limit,       \* entries of a page
    MaxEntries,  \* bounds the entries; they are numbered as they are logged
    MaxChanges,  \* bounds the changes to them
    MaxFetches,  \* bounds the fetches
    None

VARIABLES
    entries,  \* on the server: records of their id and their day
    changes,  \* how many there have been
    pages,    \* on the page: None, or the pages it shows
    touched,  \* history: entries that changed since the first of these was read
    fetch,    \* under way: None, or a record of its kind, the pages it has, the answer on
              \* its way and the entries that changed since it read the first
    fetches   \* how many there have been

vars == <<entries, changes, pages, touched, fetch, fetches>>

\* climbed_on, logged_at and id, all descending; ids are in the order of logged_at.
Before(x, y) == x.day > y.day \/ (x.day = y.day /\ x.id > y.id)

\* How many of a set are listed before one of them.
Ahead(e, set) == Cardinality({x \in set : Before(x, e)})

ReadPageFromExtra(cursor) ==                                           \* mutant
    LET rest == {e \in entries : cursor = None \/ Before(cursor, e)}
        row(i) == CHOOSE e \in rest : Ahead(e, rest) = i - 1
    IN  IF Cardinality(rest) > Limit
        THEN [items |-> [i \in 1..Limit |-> row(i)], next |-> row(Limit + 1)]
        ELSE [items |-> [i \in 1..Cardinality(rest) |-> row(i)], next |-> None]

\* One row more than the page has tells whether there is another page.
ReadPage(cursor) ==
    LET rest == {e \in entries : cursor = None \/ Before(cursor, e)}
        row(i) == CHOOSE e \in rest : Ahead(e, rest) = i - 1
    IN  IF Cardinality(rest) > Limit
        THEN [items |-> [i \in 1..Limit |-> row(i)], next |-> row(Limit)]
        ELSE [items |-> [i \in 1..Cardinality(rest) |-> row(i)], next |-> None]

Init ==
    /\ \E days \in [1..Limit + 1 -> Dates] : entries = {[id |-> i, day |-> days[i]] : i \in DOMAIN days}
    /\ changes = 0
    /\ pages = None /\ touched = {}
    /\ fetch = None /\ fetches = 0

-----------------------------------------------------------------------------

\* Logged, edited, deleted, or hidden and shown again with its climb.
Change ==
    /\ changes < MaxChanges                                            \* bound
    /\ changes' = changes + 1
    /\ \E id \in 1..MaxEntries :
        LET others == {e \in entries : e.id # id}
        IN  /\ entries' \in {others} \cup {others \cup {[id |-> id, day |-> d]} : d \in Dates}
            /\ entries' # entries
            /\ touched' = touched \cup {id}
            /\ fetch' = IF fetch = None THEN None ELSE [fetch EXCEPT !.touched = @ \cup {id}]
    /\ UNCHANGED <<pages, fetches>>

StartFetch(kind, wanted, first) ==
    /\ fetches < MaxFetches                                            \* bound
    /\ fetches' = fetches + 1
    /\ fetch' = [kind |-> kind, wanted |-> wanted, got |-> <<>>, from |-> first, answer |-> None,
                 touched |-> {}]
    /\ UNCHANGED <<entries, changes, pages, touched>>

\* The page opens, is opened again or focused, or an own write has made the feed stale.
FetchAll == StartFetch("all", IF pages = None THEN 1 ELSE Len(pages), None)

HasNextPage == pages # None /\ Last(pages).next # None
FetchingMore == fetch # None /\ fetch.kind = "more"

LoadMore == HasNextPage /\ ~FetchingMore /\ StartFetch("more", 1, Last(pages).next)

\* The first page of all is read with the changes before it.
ServerReads ==
    /\ fetch # None /\ fetch.answer = None
    /\ fetch' = [fetch EXCEPT !.answer = ReadPage(fetch.from),
                              !.touched = IF fetch.kind = "all" /\ fetch.got = <<>> THEN {} ELSE @]
    /\ UNCHANGED <<entries, changes, pages, touched, fetches>>

\* A page arrives; the next one is asked for, or those that have come are shown.
Arrives ==
    /\ fetch # None /\ fetch.answer # None
    /\ LET got == Append(fetch.got, fetch.answer)
           next == fetch.answer.next
       IN  \/ /\ Len(got) < fetch.wanted /\ next # None
              /\ fetch' = [fetch EXCEPT !.got = got, !.from = next, !.answer = None]
              /\ UNCHANGED <<pages, touched>>
           \/ /\ Len(got) = fetch.wanted \/ next = None
              /\ pages' = IF fetch.kind = "all" THEN got ELSE pages \o got
              /\ touched' = IF fetch.kind = "all" THEN fetch.touched ELSE touched
              /\ fetch' = None
    /\ UNCHANGED <<entries, changes, fetches>>

\* The pages that are shown stay.
Fails ==
    /\ fetch # None
    /\ fetch' = None
    /\ UNCHANGED <<entries, changes, pages, touched, fetches>>

Next == Change \/ FetchAll \/ LoadMore \/ ServerReads \/ Arrives \/ Fails

Spec == Init /\ [][Next]_vars

-----------------------------------------------------------------------------

\* The items that are shown, each by its place: its page, and where it is on that.
Places == UNION {{i} \X DOMAIN pages[i].items : i \in DOMAIN pages}

Item(p) == pages[p[1]].items[p[2]]

Above(p, q) == p[1] < q[1] \/ (p[1] = q[1] /\ p[2] < q[2])

TypeOK ==
    /\ entries \subseteq [id : 1..MaxEntries, day : Dates]
    /\ touched \subseteq 1..MaxEntries
    /\ pages # None => \A i \in 1..Len(pages) : Len(pages[i].items) <= Limit

\* Whatever is logged, edited and deleted between the pages: an entry that has not changed
\* since the first page was read is shown once if it is above the end of what is shown,
\* everything is above it when there is nothing more to load, and the feed goes down all
\* the way, so that a day has one heading.
FeedIsWhole ==
    pages # None =>
        /\ \A e \in entries :
            e.id \notin touched /\ (HasNextPage => ~Before(Last(pages).next, e)) =>
                Cardinality({p \in Places : Item(p) = e}) = 1
        /\ \A p, q \in Places : Above(p, q) => Before(Item(p), Item(q))

=============================================================================
