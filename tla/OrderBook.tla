------------------------------- MODULE OrderBook -------------------------------
(***************************************************************************)
(* The price-time order book of the trading game                           *)
(* (packages/local-compute/src/order-book.ts), as operators on a book.     *)
(*                                                                         *)
(* A book has two queues, BUY (the bids) and SELL (the asks), each in the  *)
(* order in which it is served, and the quotes each maker has in it.  The  *)
(* clock and the sequence of ids are one counter.  An id says who made the *)
(* order and for what side, as the prefixes of the code's ids do.  The     *)
(* game trades with market orders, so limit orders are left out, and so    *)
(* are the price of the last trade and the volume traded, which it never   *)
(* reads.                                                                  *)
(***************************************************************************)
EXTENDS Naturals, Sequences, SequencesExt

Sides == {"BUY", "SELL"}

Opposite(side) == IF side = "BUY" THEN "SELL" ELSE "BUY"

EmptyBook(owners) ==
  [queue |-> [side \in Sides |-> <<>>], quotes |-> [o \in owners |-> {}], clock |-> 0]

\* The members of kept, in the order of the sequence.
Add(kept, some, x) == IF x \in kept THEN Append(some, x) ELSE some
Only(seq, kept) == FoldLeft(LAMBDA some, x : Add(kept, some, x), <<>>, seq)

Order(side, owner, n, price, size, time) ==
  [id |-> <<side, owner, n>>, price |-> price, size |-> size, time |-> time]

\* a is served before o.
Ahead(side, a, o) ==
  \/ side = "BUY" /\ a.price > o.price
  \/ side = "SELL" /\ a.price < o.price
  \/ a.price = o.price /\ a.time <= o.time

\* insertBid, insertAsk.
Insert(side, queue, o) ==
  LET behind == SelectInSeq(queue, LAMBDA a : ~Ahead(side, a, o))
  IN InsertAt(queue, IF behind = 0 THEN Len(queue) + 1 ELSE behind, o)

Cancel(b, ids) ==
  [b EXCEPT !.queue = [side \in Sides |-> Only(b.queue[side], {o \in Range(b.queue[side]) : o.id \notin ids})]]

CancelMakerQuotes(b, owner) == [Cancel(b, b.quotes[owner]) EXCEPT !.quotes[owner] = {}]

\* The new pair replaces the owner's, and is not matched.
SetQuotes(b, owner, quote) ==
  LET bid == Order("BUY", owner, b.clock + 1, quote.bidPrice, quote.bidSize, b.clock)
      ask == Order("SELL", owner, b.clock + 1, quote.askPrice, quote.askSize, b.clock)
      cancelled == CancelMakerQuotes(b, owner)
  IN [cancelled EXCEPT
        !.queue = [BUY |-> Insert("BUY", cancelled.queue["BUY"], bid),
                   SELL |-> Insert("SELL", cancelled.queue["SELL"], ask)],
        !.quotes[owner] = {bid.id, ask.id},
        !.clock = @ + 1]

-----------------------------------------------------------------------------
(* Matching.                                                               *)

\* One resting order: it fills what is left, or as much of it as it has.
Take(plan, o) ==
  LET size == IF plan.left < o.size THEN plan.left ELSE o.size
  IN IF plan.left = 0 THEN plan
     ELSE [left |-> plan.left - size, fills |-> Append(plan.fills, [order |-> o.id, price |-> o.price, size |-> size])]

PlanMatch(b, side, size) == FoldLeft(Take, [left |-> size, fills |-> <<>>], b.queue[Opposite(side)])

\* How much of the order a plan fills.
Filled(plan, id) == FoldLeft(LAMBDA sum, fill : IF fill.order = id THEN sum + fill.size ELSE sum, 0, plan.fills)

CommitMatchPlan(b, side, plan) ==
  LET resting == b.queue[Opposite(side)]
      reduced == [i \in DOMAIN resting |-> [resting[i] EXCEPT !.size = @ - Filled(plan, resting[i].id)]]
  IN [b EXCEPT !.queue[Opposite(side)] = Only(reduced, {o \in Range(reduced) : o.size > 0})]
=============================================================================
