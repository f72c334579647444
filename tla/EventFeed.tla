----------------------------- MODULE EventFeed ------------------------------
(***************************************************************************)
(* A reader of event_stream: GET /events/stream (api/events.py, event_     *)
(* stream) and the browser at its other end.  The server queries the       *)
(* entries above its last_seq and sends them one by one; when the          *)
(* connection breaks the browser connects again and names, in the          *)
(* Last-Event-ID header, the last entry it received.                       *)
(*                                                                         *)
(* Left out: the scope filter (the reader may see every entry), types and  *)
(* payloads, heartbeats.                                                   *)
(***************************************************************************)
EXTENDS Outbox

CONSTANT PageSize   \* page_size of the query

ASSUME EventFeedAssumption == PageSize \in Nat \ {0}

VARIABLES
    cursor,   \* last_seq of the server's generator
    page,     \* items of its last query that are still to be sent
    up,       \* whether the connection carries what is sent
    last,     \* Last-Event-ID of the browser
    got       \* numbers of the entries the browser received

reader == <<cursor, page, up, last, got>>
feedVars == <<vars, reader>>

FeedTypeOK ==
    /\ TypeOK
    /\ cursor \in Nat /\ last \in Nat
    /\ page \subseteq stream
    /\ up \in BOOLEAN
    /\ got \subseteq {x.at : x \in stream}

FeedInit ==
    /\ Init
    /\ cursor = 0 /\ last = 0
    /\ page = {} /\ got = {}
    /\ up = TRUE

\* EventService.query: sequence > last_seq ORDER BY sequence LIMIT page_size.
Query ==
    /\ page = {}
    /\ \E items \in (SUBSET {x \in stream : x.at > cursor}) \ {{}} :
          /\ \A x \in items, y \in stream \ items : y.at > cursor => x.at < y.at
          /\ Cardinality(items) <= PageSize
          /\ items = {x \in stream : x.at > cursor} \/ Cardinality(items) = PageSize
          /\ page' = items
    /\ UNCHANGED <<vars, cursor, up, last, got>>

\* last_seq moves before the entry is sent.
Push ==
    /\ \E x \in page :
          /\ \A y \in page : x.at <= y.at
          /\ cursor' = x.at
          /\ page' = page \ {x}
          /\ last' = IF up THEN x.at ELSE last
          /\ got' = IF up THEN got \cup {x.at} ELSE got
    /\ UNCHANGED <<vars, up>>

Break ==
    /\ up
    /\ up' = FALSE
    /\ UNCHANGED <<vars, cursor, page, last, got>>

ResumeFromCursor ==                                               \* mutant: the header is not read
    /\ ~up
    /\ up' = TRUE
    /\ page' = {}
    /\ UNCHANGED <<vars, cursor, last, got>>

ResumeFromStart ==                                                \* mutant: the header is not sent
    /\ ~up
    /\ up' = TRUE
    /\ cursor' = 0
    /\ page' = {}
    /\ UNCHANGED <<vars, last, got>>

\* A request with Last-Event-ID starts a new generator.
Resume ==
    /\ ~up
    /\ up' = TRUE
    /\ cursor' = last
    /\ page' = {}
    /\ UNCHANGED <<vars, last, got>>

FeedNext ==
    \/ Next /\ UNCHANGED reader
    \/ Query \/ Push \/ Break \/ Resume

FeedSpec == FeedInit /\ [][FeedNext]_feedVars

\* The browser reconnects, and some connection lasts for a query and the entry
\* it finds.
FeedFairness ==
    /\ WF_feedVars(Resume)
    /\ SF_feedVars(Query /\ up)
    /\ SF_feedVars(Push /\ up)

FairFeedSpec == FeedSpec /\ FeedFairness

-----------------------------------------------------------------------------
(* Properties *)

\* The browser has every entry up to the last one it received, however often the
\* connection broke: what was committed meanwhile is replayed.
NothingSkipped == \A x \in stream : x.at <= last => x.at \in got

\* Across reconnections the entries arrive in the order of their numbers and
\* none arrives a second time.
ReceivedInOrder ==
    [][last' # last => /\ \A n \in got : n < last'
                       /\ got' = got \cup {last'}]_feedVars

\* A published event reaches the browser.
EventuallyReceived ==
    \A e \in Events : Published(e) ~> \E x \in stream : x.ev = e /\ x.at \in got
=============================================================================
