----------------------------- MODULE PagedFetch -----------------------------
(***************************************************************************)
(* Listings that ThingsBoard returns page by page while they change:       *)
(* fetch_all_pages, and the answers built from one listing or from two,    *)
(* such as the open alarms followed by all alarms. Items are numbered in   *)
(* the order of their creation and listed newest first. An item that is    *)
(* cleared (an alarm) or deleted (a device) leaves the "ACTIVE" listing    *)
(* and stays in the "ANY" listing.                                         *)
(***************************************************************************)
EXTENDS Naturals, FiniteSets, Sequences

CONSTANTS
    MaxItems,  \* bound: items ever created
    PageSize,  \* rows of a page
    MaxPages,  \* the page cap
    Answers,   \* what answers read: listings, one after the other
    MaxOdd     \* bound: answers that are no page

ASSUME PagingAssumption ==
    /\ MaxItems \in Nat /\ MaxOdd \in Nat
    /\ PageSize \in Nat \ {0} /\ MaxPages \in Nat \ {0}
    /\ Answers \subseteq Seq({"ACTIVE", "ANY"}) \ {<<>>}

VARIABLES
    created,  \* the items so far: 1 .. created
    active,   \* those not cleared
    first,    \* how many there were at the first request
    steady,   \* those that have been active ever since
    listings, \* the listings of the answer
    reading,  \* index of the listing being read; past the last one when done
    page,     \* its next page
    rows,     \* the items returned
    cut,      \* the listings that ended at the page cap
    failed,   \* a request raised
    odd       \* answers that were no page

server == <<created, active, first, steady>>
client == <<listings, reading, page, rows, cut, failed, odd>>
vars   == <<server, client>>

Items == 1 .. MaxItems

Init ==
    /\ created \in 0 .. MaxItems
    /\ active \in SUBSET (1 .. created)
    /\ first = created /\ steady = active
    /\ listings \in Answers /\ reading = 1 /\ page = 0
    /\ rows = {}
    /\ cut = {} /\ failed = FALSE /\ odd = 0

Done    == reading > Len(listings)
Reading == ~ Done /\ ~ failed

----------------------------------------------------------------------------
(* ThingsBoard. *)

Create ==
    /\ created < MaxItems /\ Reading
    /\ created' = created + 1
    /\ active' = active \cup {created + 1}
    /\ UNCHANGED <<first, steady, client>>

Clear(i) ==
    /\ i \in active /\ Reading
    /\ active' = active \ {i}
    /\ steady' = steady \ {i}
    /\ UNCHANGED <<created, first, client>>

ListingOfAll == 1 .. created                                      \* mutant
Listing == IF listings[reading] = "ACTIVE" THEN active ELSE 1 .. created

\* Newest first: an item's place is the number of items as new as it.
PlaceOldestFirst(i) == Cardinality({j \in Listing : j <= i})      \* mutant
Place(i) == Cardinality({j \in Listing : j >= i})
Returned  == {i \in Listing : Place(i) > page * PageSize /\ Place(i) <= (page + 1) * PageSize}
HasNext   == Cardinality(Listing) > (page + 1) * PageSize

----------------------------------------------------------------------------
(* fetch_all_pages. *)

NextListing == reading' = reading + 1 /\ page' = 0

Collect == rows' = rows \cup Returned

FetchPage ==
    /\ Reading
    /\ HasNext /\ page + 1 < MaxPages
    /\ Collect
    /\ page' = page + 1
    /\ UNCHANGED <<server, listings, reading, cut, failed, odd>>

FetchLastPage ==
    /\ Reading
    /\ ~ HasNext
    /\ Collect
    /\ NextListing
    /\ UNCHANGED <<server, listings, cut, failed, odd>>

\* Mutant: the cap is reached in silence.
StopAtCap ==
    /\ Reading
    /\ HasNext /\ page + 1 = MaxPages
    /\ Collect
    /\ NextListing
    /\ UNCHANGED <<server, listings, cut, failed, odd>>

\* The cap ends the listing and the body says so.
HitCap ==
    /\ Reading
    /\ HasNext /\ page + 1 = MaxPages
    /\ Collect
    /\ cut' = cut \cup {listings[reading]}
    /\ NextListing
    /\ UNCHANGED <<server, listings, failed, odd>>

\* A bare list for a first body is taken for the rows.
BareList ==
    /\ Reading /\ page = 0
    /\ odd < MaxOdd /\ odd' = odd + 1
    /\ Collect
    /\ NextListing
    /\ UNCHANGED <<server, listings, cut, failed>>

\* Another body that is no page, or a list later, ends the listing with what was collected, uncut.
OddBody ==
    /\ Reading
    /\ odd < MaxOdd /\ odd' = odd + 1
    /\ NextListing
    /\ UNCHANGED <<server, listings, rows, cut, failed>>

\* One failed request fails the whole answer.
Raise ==
    /\ Reading
    /\ failed' = TRUE
    /\ UNCHANGED <<server, listings, reading, page, rows, cut, odd>>

Next ==
    \/ Create
    \/ \E i \in Items : Clear(i)
    \/ FetchPage \/ FetchLastPage \/ HitCap \/ BareList \/ OddBody \/ Raise

Spec == Init /\ [][Next]_vars

----------------------------------------------------------------------------
(* Properties. *)

ReadsAll == \E n \in DOMAIN listings : listings[n] = "ANY"

\* An answer that does not say it is truncated, and that reads a listing which no item
\* leaves, shows every item that was active all the while, whatever was created or
\* cleared between two pages.
NoSilentDrop ==
    Done /\ cut = {} /\ odd = 0 /\ ReadsAll => steady \subseteq rows

\* "Cover only the most recent portion": a history that ends at the cap, or early,
\* has no gap down from the newest item there was at the first request.
NoGap == listings = <<"ANY">> => \A i \in rows : \A k \in i .. first : k \in rows
=============================================================================
