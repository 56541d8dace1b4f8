------------------------------- MODULE Scrape -------------------------------
(***************************************************************************)
(* A pod that is scraped while it serves.  The handler of /metrics gathers *)
(* one series after the other, in an order of its own and without a lock   *)
(* against the chain, which goes on counting: what is served is no state   *)
(* the instruments were ever in.  Requests of one HTTP method share the    *)
(* histogram; of the series only those are read here that should add up.   *)
(***************************************************************************)
EXTENDS Invocation

VARIABLES
  unread,  \* the series the scrape under way has yet to read
  scrape,  \* what it has read, the counter summed over its codes
  last,    \* what the scrape before it has served
  before   \* history: what the instruments held when it began

scrapeVars == <<unread, scrape, last, before>>
allVars    == <<vars, scrapeVars>>
-----------------------------------------------------------------------------
Series == Codes \cup {"durations"}

ScrapeInit ==
  /\ Init
  /\ unread = {}
  /\ scrape = [total |-> 0, durations |-> 0]
  /\ last   = [total |-> 0, durations |-> 0]
  /\ before = [total |-> 0, durations |-> 0, inFlight |-> 0]

(* The chain goes on.                                                       *)
Serve(r) == Step(r) /\ UNCHANGED scrapeVars

(* A scrape comes once the one before it has been served.                   *)
BeginScrape ==
  /\ unread = {}
  /\ unread' = Series
  /\ last'   = scrape
  /\ scrape' = [total |-> 0, durations |-> 0]
  /\ before' = [total |-> Total, durations |-> durations, inFlight |-> inFlight]
  /\ UNCHANGED vars

ReadCode(c) ==
  /\ c \in unread
  /\ unread' = unread \ {c}
  /\ scrape' = [scrape EXCEPT !.total = @ + requestsTotal[c]]
  /\ UNCHANGED <<vars, last, before>>

ReadDurations ==
  /\ "durations" \in unread
  /\ unread' = unread \ {"durations"}
  /\ scrape' = [scrape EXCEPT !.durations = durations]
  /\ UNCHANGED <<vars, last, before>>

Gather == BeginScrape \/ (\E c \in Codes : ReadCode(c)) \/ ReadDurations

ScrapeNext == (\E r \in Requests : Serve(r)) \/ Gather

ScrapeSpec == ScrapeInit /\ [][ScrapeNext]_allVars
-----------------------------------------------------------------------------
(* Properties.                                                             *)

(* One scrape need not add up: its counter may be older than its histogram, *)
(* or newer.  From one to the next they do, whatever was counted while they *)
(* were gathered: a latency that one reports is of a request the next has   *)
(* counted, and a request that one has counted is in the next's latencies   *)
(* unless it was still in flight when that began (the counter is innermost, *)
(* the gauge outermost of metrics.middleware).                              *)
ScrapesAddUp ==
  unread = {} => /\ last.durations <= scrape.total
                 /\ last.total <= scrape.durations + before.inFlight
=============================================================================
