----------------------------- MODULE Transport -----------------------------
(***************************************************************************)
(* The transport of one trade, as the routes of transport.controller.ts    *)
(* drive backend/src/transport/services/transport.service.ts: the request  *)
(* that is put out to bid, the bids, the job of the bid that is accepted,  *)
(* and the phase these handlers write.  A handler is cut at every await;   *)
(* acceptBid and the end of confirmDelivery are transactions at read       *)
(* committed, so a row stays locked from its update to the commit.         *)
(***************************************************************************)
EXTENDS Integers, FiniteSets

CONSTANTS Calls,         \* requests that may be in flight at a time
          Transporters, Sellers,
          B,             \* bound: bids that are ever submitted
          None           \* no bid

ASSUME BidAssumption == B \in Nat
ASSUME NoneAssumption == None \notin 1..B

Bids == 1..B
BidStatus == {"none", "PENDING", "ACCEPTED", "REJECTED"}
RequestStatus == {"none", "OPEN", "ASSIGNED", "COMPLETED"}
JobStatus == {"none", "ASSIGNED", "STARTED", "PICKING_UP", "IN_TRANSIT",
              "COMPLETED"}

VARIABLES request,      \* TransportRequest: status, selectedBidId, pickupPoints
          closed,       \* biddingDeadline has passed
          bids,         \* TransportBid: status, transporterId
          jobs,         \* TransportJob of each bid
          phase,        \* of the trade, as far as transport writes it
          calls,        \* requests between two awaits, with what they have read
          confirmed,    \* history: sellers whose pickup somebody confirmed
          calm          \* history: no requests have overlapped, none has died

rows == <<request, bids, jobs, phase>>
vars == <<rows, closed, calls, confirmed, calm>>

Request == [status : RequestStatus, selected : Bids \cup {None},
            points : SUBSET Sellers]
Bid == [status : BidStatus, who : Transporters \cup {None}]
Job == [status : JobStatus, picked : SUBSET Sellers, all : BOOLEAN]
Pc == {"idle", "create", "phase", "bidCheck", "bidCreate", "accept",
       "accepted", "start", "pickup", "deliver"}
Call == [pc : Pc, bid : Bids \cup {None}, who : Transporters \cup {None},
         saw : SUBSET Sellers]

NoBid == [status |-> "none", who |-> None]
NoJob == [status |-> "none", picked |-> {}, all |-> FALSE]
Idle == [pc |-> "idle", bid |-> None, who |-> None, saw |-> {}]
Quiet == \A c \in Calls : calls[c] = Idle

\* A request arrives and runs to its first await.
Begin(c, call) ==
  /\ calls[c] = Idle
  /\ calls' = [calls EXCEPT ![c] = call]
  /\ calm' = (calm /\ Quiet)
  /\ UNCHANGED <<rows, closed, confirmed>>
Goto(c, pc) == calls' = [calls EXCEPT ![c].pc = pc] /\ UNCHANGED calm
End(c) == calls' = [calls EXCEPT ![c] = Idle] /\ UNCHANGED calm

(***************************************************************************)
(* createTransportRequest and autoCreateTransportRequestForTrade.          *)
(***************************************************************************)
\* The pickup points come from the body or from the sellers that accepted.
createTransportRequest(c, points) ==
  Begin(c, [Idle EXCEPT !.pc = "create", !.saw = points])

\* An existing request is returned.
autoCreateTransportRequestForTrade(c, points) ==
  request.status = "none" /\ points # {} /\ createTransportRequest(c, points)

\* tradeOperationId is unique.
Insertable == request.status = "none"

createRow(c) ==
  /\ calls[c].pc = "create"
  /\ \/ /\ Insertable
        /\ request' = [status |-> "OPEN", selected |-> None,
                       points |-> calls[c].saw]
        /\ Goto(c, "phase")
     \/ ~Insertable /\ End(c) /\ UNCHANGED request
  /\ UNCHANGED <<bids, jobs, phase, closed, confirmed>>

phaseWrite(c) ==
  /\ calls[c].pc = "phase"
  /\ phase' = "TRANSPORT_MATCHING"
  /\ End(c)
  /\ UNCHANGED <<request, bids, jobs, closed, confirmed>>

(***************************************************************************)
(* Bids.                                                                   *)
(***************************************************************************)
submitBid(c, who) ==
  /\ request.status = "OPEN" /\ ~closed
  /\ Begin(c, [Idle EXCEPT !.pc = "bidCheck", !.who = who])

Active(who) == \E b \in Bids :
  bids[b].who = who /\ bids[b].status # "none"

bidCheck(c) ==
  /\ calls[c].pc = "bidCheck"
  /\ IF Active(calls[c].who) THEN End(c) ELSE Goto(c, "bidCreate")
  /\ UNCHANGED <<rows, closed, confirmed>>

bidCreate(c) ==
  /\ calls[c].pc = "bidCreate"
  /\ \E b \in Bids :
       /\ bids[b].status = "none"
       /\ \A a \in 1..(b - 1) : bids[a].status # "none"
       /\ bids' = [bids EXCEPT ![b] = [status |-> "PENDING",
                                       who |-> calls[c].who]]
  /\ End(c)
  /\ UNCHANGED <<request, jobs, phase, closed, confirmed>>

Locked(b) == \E c \in Calls : calls[c].pc = "accepted" /\ calls[c].bid = b

\* No test of the status: a bid that was accepted may be rejected.
rejectBid(b) ==
  /\ bids[b].status # "none" /\ ~Locked(b)
  /\ bids' = [bids EXCEPT ![b].status = "REJECTED"]
  /\ calm' = (calm /\ Quiet)
  /\ UNCHANGED <<request, jobs, phase, closed, calls, confirmed>>

(***************************************************************************)
(* acceptBid: one transaction.  Its first update locks the bid; the update *)
(* of the other bids waits for locks of other acceptances, and two that    *)
(* wait for each other are ended by the database (fails).                  *)
(***************************************************************************)
acceptBid(c, b) ==
  /\ bids[b].status = "PENDING"
  /\ Begin(c, [Idle EXCEPT !.pc = "accept", !.bid = b])

acceptOwn(c) ==
  /\ calls[c].pc = "accept" /\ ~Locked(calls[c].bid)
  /\ Goto(c, "accepted")
  /\ UNCHANGED <<rows, closed, confirmed>>

\* Mutant of Assigned: the trade is not told.
AssignedQuietly(b) ==
  /\ request' = [request EXCEPT !.status = "ASSIGNED", !.selected = b]
  /\ jobs' = [jobs EXCEPT ![b] = [NoJob EXCEPT !.status = "ASSIGNED"]]
  /\ UNCHANGED phase

Assigned(b) ==
  /\ request' = [request EXCEPT !.status = "ASSIGNED", !.selected = b]
  /\ jobs' = [jobs EXCEPT ![b] = [NoJob EXCEPT !.status = "ASSIGNED"]]
  /\ phase' = "IN_TRANSIT"

\* Mutant of Decided: the other bids are not rejected.
DecidedOne(b) == [bids EXCEPT ![b].status = "ACCEPTED"]

Decided(b) == [a \in Bids |->
  IF a = b THEN [bids[a] EXCEPT !.status = "ACCEPTED"]
  ELSE IF bids[a].status = "PENDING" THEN [bids[a] EXCEPT !.status = "REJECTED"]
  ELSE bids[a]]

\* Mutant of JobExists: a request may have a job for each bid.
JobExistsForBid(b) == jobs[b].status # "none"
\* transportRequestId of a job is unique.
JobExists(b) == \E a \in Bids : jobs[a].status # "none"

acceptRest(c) ==
  LET b == calls[c].bid
  IN  /\ calls[c].pc = "accepted"
      /\ \A a \in Bids \ {b} : bids[a].status = "PENDING" => ~Locked(a)
      /\ \/ JobExists(b) /\ UNCHANGED rows       \* rolled back
         \/ ~JobExists(b) /\ bids' = Decided(b) /\ Assigned(b)
      /\ End(c)
      /\ UNCHANGED <<closed, confirmed>>

(***************************************************************************)
(* The job.                                                                *)
(***************************************************************************)
startJob(c, b) ==
  /\ jobs[b].status = "ASSIGNED"
  /\ Begin(c, [Idle EXCEPT !.pc = "start", !.bid = b])

started(c) ==
  /\ calls[c].pc = "start"
  /\ jobs' = [jobs EXCEPT ![calls[c].bid].status = "STARTED"]
  /\ End(c)
  /\ UNCHANGED <<request, bids, phase, closed, confirmed>>

\* No test of the status.  The seller named need not be a pickup point.
confirmPickup(c, b, s) ==
  /\ jobs[b].status # "none"
  /\ calls[c] = Idle
  /\ calls' = [calls EXCEPT ![c] = [Idle EXCEPT !.pc = "pickup", !.bid = b,
                                    !.saw = jobs[b].picked \cup {s}]]
  /\ confirmed' = confirmed \cup {s}
  /\ calm' = (calm /\ Quiet)
  /\ UNCHANGED <<rows, closed>>

\* Mutant of PickedUp: one pickup is taken for all.
PickedUpAny(saw) ==
  [status |-> "IN_TRANSIT", picked |-> saw, all |-> TRUE]

PickedUp(saw) ==
  LET all == request.points \subseteq saw
  IN  [status |-> IF all THEN "IN_TRANSIT" ELSE "PICKING_UP",
       picked |-> saw, all |-> all]

pickedUp(c) ==
  /\ calls[c].pc = "pickup"
  /\ jobs' = [jobs EXCEPT ![calls[c].bid] = PickedUp(calls[c].saw)]
  /\ End(c)
  /\ UNCHANGED <<request, bids, phase, closed, confirmed>>

confirmDelivery(c, b) ==
  /\ jobs[b].all
  /\ Begin(c, [Idle EXCEPT !.pc = "deliver", !.bid = b])

\* One transaction.
delivered(c) ==
  /\ calls[c].pc = "deliver"
  /\ jobs' = [jobs EXCEPT ![calls[c].bid].status = "COMPLETED"]
  /\ phase' = "COMPLETED"
  /\ request' = [request EXCEPT !.status = "COMPLETED"]
  /\ End(c)
  /\ UNCHANGED <<bids, closed, confirmed>>

-----------------------------------------------------------------------------
deadline == ~closed /\ closed' = TRUE /\ UNCHANGED <<rows, calls, confirmed, calm>>

\* A query throws, the process restarts, or the database ends a transaction.
fails(c) ==
  /\ calls[c] # Idle
  /\ calls' = [calls EXCEPT ![c] = Idle]
  /\ calm' = FALSE
  /\ UNCHANGED <<rows, closed, confirmed>>

Init ==
  /\ request = [status |-> "none", selected |-> None, points |-> {}]
  /\ closed = FALSE
  /\ bids = [b \in Bids |-> NoBid]
  /\ jobs = [b \in Bids |-> NoJob]
  /\ phase = "INSPECTION_PENDING"
  /\ calls = [c \in Calls |-> Idle]
  /\ confirmed = {} /\ calm = TRUE

Next ==
  \/ \E c \in Calls, points \in SUBSET Sellers :
       \/ createTransportRequest(c, points)
       \/ autoCreateTransportRequestForTrade(c, points)
  \/ \E c \in Calls, who \in Transporters : submitBid(c, who)
  \/ \E c \in Calls, b \in Bids :
       acceptBid(c, b) \/ startJob(c, b) \/ confirmDelivery(c, b)
  \/ \E c \in Calls, b \in Bids, s \in Sellers : confirmPickup(c, b, s)
  \/ \E b \in Bids : rejectBid(b)
  \/ \E c \in Calls :
       \/ createRow(c) \/ phaseWrite(c) \/ bidCheck(c) \/ bidCreate(c)
       \/ acceptOwn(c) \/ acceptRest(c) \/ started(c) \/ pickedUp(c)
       \/ delivered(c) \/ fails(c)
  \/ deadline

Spec == Init /\ [][Next]_vars

(***************************************************************************)
(* Properties.                                                             *)
(***************************************************************************)
\* Every row and every request in flight keeps its type.
TypeOK ==
  /\ request \in Request
  /\ closed \in BOOLEAN
  /\ bids \in [Bids -> Bid]
  /\ jobs \in [Bids -> Job]
  /\ phase \in {"INSPECTION_PENDING", "TRANSPORT_MATCHING", "IN_TRANSIT",
                "COMPLETED"}
  /\ calls \in [Calls -> Call]
  /\ confirmed \subseteq Sellers
  /\ calm \in BOOLEAN

\* However acceptances of one bid or of several overlap, and whichever the
\* database ends: the request names one bid, that bid alone has a job, and no
\* other bid is accepted (acceptBid, transport.service.ts:560).
SelectionAgrees ==
  /\ \A b \in Bids : (jobs[b].status # "none") <=> (request.selected = b)
  /\ (request.selected # None) <=> (request.status \in {"ASSIGNED", "COMPLETED"})
  /\ \A b \in Bids : bids[b].status = "ACCEPTED" => request.selected = b

\* Nothing is delivered before a pickup was confirmed at every pickup point,
\* although overlapping confirmations overwrite each other's lists.
DeliveryNeedsPickups ==
  request.status = "COMPLETED" => request.points \subseteq confirmed

\* However requests overlap and wherever they die: what was delivered stays
\* delivered and is not sent out again by a bid that was answered late.  The one
\* step back is the phase write of the request that opened the bidding, which
\* awaits the row before it and may come after the delivery; then no other can.
DeliveryStands ==
  [][/\ request.status = "COMPLETED" => request'.status = "COMPLETED"
     /\ phase = "COMPLETED" => phase' \in {"COMPLETED", "TRANSPORT_MATCHING"}
     /\ phase \in {"IN_TRANSIT", "COMPLETED"} /\ phase' = "TRANSPORT_MATCHING" =>
          \A c \in Calls : calls'[c].pc # "phase"]_vars

\* As long as requests do not overlap, no bid waits for an answer once the request
\* is assigned (acceptBid rejects the others and submitBid refuses new ones).
NoBidLeftOpen == (calm /\ request.selected # None) =>
  \A b \in Bids : bids[b].status # "PENDING"

\* As long as they do not overlap, the phase of the trade follows its job: in
\* transit once a bid is accepted, completed with the delivery, and no late
\* request or bid takes it back.
PhaseKeepsUp == (calm /\ Quiet /\ request.selected # None) =>
  phase = IF request.status = "COMPLETED" THEN "COMPLETED" ELSE "IN_TRANSIT"
=============================================================================
