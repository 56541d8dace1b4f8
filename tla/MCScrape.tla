------------------------------ MODULE MCScrape ------------------------------
(***************************************************************************)
(* Small instances of Scrape for TLC.                                      *)
(***************************************************************************)
EXTENDS Scrape, SequencesExt, TLC

Symmetry == Permutations(Requests)

(* Nothing was scraped yet, or nothing that was counted.                    *)
Unscraped ==
  /\ unread = {}
  /\ scrape = last
  /\ before = [total |-> 0, durations |-> 0, inFlight |-> 0]

(* One order of the codes; the histogram is read anywhere among them.       *)
InOrder ==
  unread \cap Codes \in
    {Range(s) : s \in Suffixes(<<"handler", "504", "429", "500", "413", "invalid">>)}

(* A bound: on a pod that nobody scrapes all requests are sent, and all may *)
(* happen to them; on one that is scraped one is not sent, no context ends  *)
(* while its Handler runs, and the codes are read in one order.             *)
Bound ==
  Unscraped \/ /\ \E r \in Requests : pc[r] = "idle"
               /\ \A r \in Requests : ctx[r] \notin {"deadline", "disconnect"}
               /\ InOrder
=============================================================================
