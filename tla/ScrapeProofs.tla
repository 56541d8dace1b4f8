---------------------------- MODULE ScrapeProofs ----------------------------
(***************************************************************************)
(* Proofs about Scrape, for every finite set of requests, every limit and  *)
(* both settings of the timeout.                                           *)
(***************************************************************************)
EXTENDS Scrape, InvocationProofs

(* A pod that is scraped is still the chain.                                *)
THEOREM ChainImplemented == ScrapeSpec => Spec
<1>1. ScrapeInit => Init
  BY DEF ScrapeInit
<1>2. [ScrapeNext]_allVars => [Next]_vars
  <2>1. ASSUME NEW r \in Requests, Serve(r)  PROVE Next
    BY <2>1 DEF Serve, Next
  <2>2. ASSUME Gather  PROVE UNCHANGED vars
    <3>1. CASE BeginScrape  BY <3>1 DEF BeginScrape
    <3>2. CASE \E c \in Codes : ReadCode(c)  BY <3>2 DEF ReadCode
    <3>3. CASE ReadDurations  BY <3>3 DEF ReadDurations
    <3>. QED  BY <2>2, <3>1, <3>2, <3>3 DEF Gather
  <2>. QED  BY <2>1, <2>2 DEF ScrapeNext, allVars
<1>. QED  BY <1>1, <1>2, PTL DEF ScrapeSpec, Spec
-----------------------------------------------------------------------------
(* What the series of the counter that are still to be read hold now.       *)
Ahead(c) == IF c \in unread THEN requestsTotal[c] ELSE 0

Rest == Ahead("handler") + Ahead("invalid") + Ahead("500")
        + Ahead("504") + Ahead("413") + Ahead("429")

ScrapeTypeOK ==
  /\ unread \subseteq Series
  /\ scrape \in [total : Nat, durations : Nat]
  /\ last   \in [total : Nat, durations : Nat]
  /\ before \in [total : Nat, durations : Nat, inFlight : Nat]

(* The scrape before it is no newer than the instruments were when this one *)
(* began, which added up.  What it has read, with what the rest holds now,  *)
(* is no older than that, and what it has read is no newer than now.        *)
Bracketed ==
  /\ last.total <= before.total
  /\ last.durations <= before.durations
  /\ before.durations <= before.total
  /\ before.total <= before.durations + before.inFlight
  /\ before.total <= scrape.total + Rest
  /\ scrape.total + Rest <= Total
  /\ before.durations <= durations
  /\ scrape.durations <= durations
  /\ "durations" \notin unread => before.durations <= scrape.durations

ScrapeInv == ScrapeTypeOK /\ Bracketed

(* The instruments never count down.                                        *)
LEMMA CountsUp ==
  ASSUME TypeInt, NEW r \in Requests, Step(r)
  PROVE  /\ \A c \in Codes : requestsTotal[c] <= requestsTotal'[c]
         /\ durations <= durations'
<1>. USE DEF TypeInt
<1>1. CASE Count(r)
  <2>1. answer[r] \in Codes \cup {"none"}
    OBVIOUS
  <2>. QED  BY <1>1, <2>1 DEF Count
<1>2. CASE Observe(r)
  BY <1>2 DEF Observe
<1>3. CASE UNCHANGED <<requestsTotal, durations>>
  BY <1>3
<1>. QED
  BY <1>1, <1>2, <1>3 DEF Step, ServerStep, HandlerStep, Arrive, Acquire, Shed,
     ReadFails, Invoke, HandlerReturns, SendResult, SelectResult, SelectDone, Park,
     Deadline, Disconnect, CloseDone, WriteHeader, WriteBody, Release, Leave, metrics

(* What was counted while a scrape goes on is counted in what is left.      *)
LEMMA Between ==
  ASSUME NEW b \in Nat, NEW s \in Nat, NEW rest \in Nat, NEW rest1 \in Nat,
         NEW total \in Nat, NEW total1 \in Nat,
         b <= s + rest, s + rest <= total,
         rest <= rest1, rest1 + total <= total1 + rest
  PROVE  b <= s + rest1 /\ s + rest1 <= total1
OBVIOUS

(* A step of the chain keeps what was read between the two.                 *)
LEMMA ServeKeeps ==
  ASSUME TypeOK, TypeOK', TypeInt, ScrapeInv, NEW r \in Requests, Serve(r)
  PROVE  ScrapeInv'
<1>1. /\ \A c \in Codes : requestsTotal[c] <= requestsTotal'[c]
      /\ durations <= durations'
  BY CountsUp DEF Serve
<1>2. UNCHANGED <<unread, scrape, last, before>>
  BY DEF Serve, scrapeVars
<1>3. /\ requestsTotal \in [Codes -> Nat] /\ requestsTotal' \in [Codes -> Nat]
      /\ durations \in Nat /\ durations' \in Nat
  BY DEF TypeOK
<1>4. ASSUME NEW c \in Codes
      PROVE  /\ Ahead(c) \in Nat /\ Ahead(c)' \in Nat /\ Ahead(c) <= Ahead(c)'
             /\ Ahead(c)' - Ahead(c) <= requestsTotal'[c] - requestsTotal[c]
             /\ requestsTotal[c] \in Nat /\ requestsTotal'[c] \in Nat
  BY <1>1, <1>2, <1>3 DEF Ahead
<1>5. /\ Rest \in Nat /\ Rest' \in Nat /\ Rest <= Rest'
      /\ Total \in Nat /\ Total' \in Nat /\ Rest' + Total <= Total' + Rest
  BY <1>4 DEF Rest, Total, Codes
<1>. QED
  <2>1. ScrapeTypeOK /\ ScrapeTypeOK' /\ Bracketed
    BY <1>2 DEF ScrapeInv, ScrapeTypeOK
  <2>2. Bracketed'
    <3>1. /\ scrape.total \in Nat /\ scrape.durations \in Nat
          /\ before.total \in Nat /\ before.durations \in Nat
      BY <2>1 DEF ScrapeTypeOK
    <3>a. scrape' = scrape /\ before' = before
      BY <1>2
    <3>b. before.total <= scrape.total + Rest /\ scrape.total + Rest <= Total
      BY <2>1 DEF Bracketed
    <3>c. before.total <= scrape.total + Rest' /\ scrape.total + Rest' <= Total'
      <4>1. PICK b \in Nat, s \in Nat : b = before.total /\ s = scrape.total
        BY <3>1
      <4>2. PICK x \in Nat, y \in Nat, z \in Nat, w \in Nat :
              x = Rest /\ y = Rest' /\ z = Total /\ w = Total'
        BY <1>5
      <4>3. b <= s + x /\ s + x <= z /\ x <= y /\ y + z <= w + x
        BY <1>5, <3>b, <4>1, <4>2
      <4>4. b <= s + y /\ s + y <= w
        BY <4>3, Between
      <4>. QED  BY <4>1, <4>2, <4>4
    <3>2. /\ before'.total <= scrape'.total + Rest'
          /\ scrape'.total + Rest' <= Total'
      BY <3>a, <3>c
    <3>3. /\ before'.durations <= durations'
          /\ scrape'.durations <= durations'
      BY <1>1, <1>2, <1>3, <2>1, <3>1 DEF Bracketed
    <3>. QED  BY <1>2, <2>1, <3>2, <3>3 DEF Bracketed
  <2>. QED  BY <2>1, <2>2 DEF ScrapeInv

(* A scrape that begins finds the one before it complete.                   *)
LEMMA BeginKeeps ==
  ASSUME TypeOK, InstrumentsAddUp, ScrapeInv, BeginScrape
  PROVE  ScrapeInv'
<1>1. /\ unread = {} /\ unread' = Series /\ last' = scrape
      /\ scrape' = [total |-> 0, durations |-> 0]
      /\ before' = [total |-> Total, durations |-> durations, inFlight |-> inFlight]
      /\ UNCHANGED <<requestsTotal, durations, inFlight>>
  BY DEF BeginScrape, vars, metrics
<1>2. requestsTotal \in [Codes -> Nat] /\ durations \in Nat /\ inFlight \in Nat
  BY DEF TypeOK
<1>3. Total \in Nat /\ Total' = Total
  BY <1>1, <1>2 DEF Total, Codes
<1>4. Rest = 0 /\ Rest' = Total
  BY <1>1, <1>2 DEF Rest, Ahead, Total, Series, Codes
<1>5. ScrapeTypeOK'
  BY <1>1, <1>2, <1>3 DEF ScrapeInv, ScrapeTypeOK
<1>6. Bracketed'
  <2>. QED
    BY <1>1, <1>2, <1>3, <1>4 DEF ScrapeInv, ScrapeTypeOK, Bracketed, InstrumentsAddUp,
       Series
<1>. QED  BY <1>5, <1>6 DEF ScrapeInv

(* To read a series moves its value from what is left to what is read.      *)
LEMMA ReadKeeps ==
  ASSUME TypeOK, ScrapeInv, NEW c \in Codes, ReadCode(c)
  PROVE  ScrapeInv'
<1>1. /\ c \in unread /\ unread' = unread \ {c}
      /\ scrape' = [scrape EXCEPT !.total = @ + requestsTotal[c]]
      /\ UNCHANGED <<requestsTotal, durations, last, before>>
  BY DEF ReadCode, vars, metrics
<1>2. requestsTotal \in [Codes -> Nat] /\ durations \in Nat
  BY DEF TypeOK
<1>3. ScrapeTypeOK'
  BY <1>1, <1>2 DEF ScrapeInv, ScrapeTypeOK
<1>4. ASSUME NEW d \in Codes
      PROVE  /\ Ahead(d) \in Nat
             /\ Ahead(d)' = IF d = c THEN Ahead(d) - requestsTotal[c] ELSE Ahead(d)
  BY <1>1, <1>2 DEF Ahead
<1>5. Rest \in Nat /\ Rest' = Rest - requestsTotal[c] /\ requestsTotal[c] \in Nat
  BY <1>2, <1>4 DEF Rest, Codes
<1>6. Total \in Nat /\ Total' = Total
  BY <1>1, <1>2 DEF Total, Codes
<1>7. Bracketed'
  <2>1. /\ scrape'.total = scrape.total + requestsTotal[c]
        /\ scrape'.durations = scrape.durations
        /\ c # "durations"
    BY <1>1 DEF ScrapeInv, ScrapeTypeOK, Codes
  <2>. QED
    BY <1>1, <1>2, <1>5, <1>6, <2>1 DEF ScrapeInv, ScrapeTypeOK, Bracketed
<1>. QED  BY <1>3, <1>7 DEF ScrapeInv

LEMMA ReadDurationsKeeps ==
  ASSUME TypeOK, ScrapeInv, ReadDurations
  PROVE  ScrapeInv'
<1>1. /\ unread' = unread \ {"durations"}
      /\ scrape' = [scrape EXCEPT !.durations = durations]
      /\ UNCHANGED <<requestsTotal, durations, last, before>>
  BY DEF ReadDurations, vars, metrics
<1>2. requestsTotal \in [Codes -> Nat] /\ durations \in Nat
  BY DEF TypeOK
<1>3. Rest' = Rest /\ Rest \in Nat /\ Total' = Total /\ Total \in Nat
  BY <1>1, <1>2 DEF Rest, Ahead, Total, Codes
<1>. QED
  <2>. QED  BY <1>1, <1>2, <1>3 DEF ScrapeInv, ScrapeTypeOK, Bracketed

(* From one scrape to the next the metrics add up.                          *)
THEOREM ScrapesSafe == ScrapeSpec => []ScrapesAddUp
<1>1. ScrapeInit => ScrapeInv
  <2>. SUFFICES ASSUME ScrapeInit  PROVE ScrapeInv
    OBVIOUS
  <2>1. Total = 0 /\ Rest = 0
    BY DEF ScrapeInit, Init, Total, Rest, Ahead, Codes
  <2>. QED
    BY <2>1 DEF ScrapeInit, Init, ScrapeInv, ScrapeTypeOK, Bracketed
<1>2. TypeOK /\ TypeOK' /\ IInv /\ InstrumentsAddUp /\ ScrapeInv /\ [ScrapeNext]_allVars
        => ScrapeInv'
  <2>. SUFFICES ASSUME TypeOK, TypeOK', IInv, InstrumentsAddUp, ScrapeInv,
                       [ScrapeNext]_allVars
                PROVE  ScrapeInv'
    OBVIOUS
  <2>1. CASE UNCHANGED allVars
    BY <2>1 DEF allVars, scrapeVars, vars, metrics, ScrapeInv, ScrapeTypeOK, Bracketed,
       Rest, Ahead, Total
  <2>2. CASE ScrapeNext
    BY <2>2, ServeKeeps, BeginKeeps, ReadKeeps, ReadDurationsKeeps
       DEF ScrapeNext, Gather, IInv
  <2>. QED  BY <2>1, <2>2
<1>3. TypeOK /\ ScrapeInv => ScrapesAddUp
  <2>. SUFFICES ASSUME TypeOK, ScrapeInv, unread = {}
                PROVE  /\ last.durations <= scrape.total
                       /\ last.total <= scrape.durations + before.inFlight
    BY DEF ScrapesAddUp
  <2>1. Rest = 0
    BY DEF Rest, Ahead
  <2>. QED  BY <2>1 DEF ScrapeInv, ScrapeTypeOK, Bracketed
<1>. QED
  BY <1>1, <1>2, <1>3, ChainImplemented, Invariance, TypeCorrect, InstrumentsSafe, PTL
     DEF ScrapeSpec
=============================================================================
