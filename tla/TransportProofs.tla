-------------------------- MODULE TransportProofs --------------------------
(***************************************************************************)
(* Proofs about Transport, for any transporters, sellers, bids and number  *)
(* of requests in flight, and about RoutePlanning, the other half of       *)
(* backend/src/transport, in the last part.                                *)
(***************************************************************************)
EXTENDS Transport, RoutePlanning, SequenceTheorems, FiniteSetTheorems, TLAPS

\* What a request in flight has read is still so when it writes: a bid that
\* is, a job that is, sellers that confirmed, a job picked up everywhere.
OnBid == {"accept", "accepted", "start", "pickup", "deliver"}
OnJob == {"start", "pickup", "deliver"}
Informed == \A c \in Calls :
  /\ calls[c].pc \in OnBid => calls[c].bid \in Bids
  /\ calls[c].pc \in OnJob => jobs[calls[c].bid].status # "none"
  /\ calls[c].pc = "pickup" => calls[c].saw \subseteq confirmed
  /\ calls[c].pc = "deliver" => request.points \subseteq confirmed

\* A job lists only pickups that somebody confirmed, and says that it has
\* them all only if it has.
Listed == \A b \in Bids :
  /\ jobs[b].picked \subseteq confirmed
  /\ jobs[b].all => jobs[b].status # "none" /\ request.points \subseteq confirmed

IInv == TypeOK /\ Informed /\ Listed /\ SelectionAgrees /\ DeliveryNeedsPickups

-----------------------------------------------------------------------------
(* What a step does to the requests in flight.                             *)

\* Every request is idle or carries what it may.
Moves(c) == /\ calls' \in [Calls -> Call]
            /\ \A d \in Calls \ {c} : calls'[d] = calls[d]

LEMMA BeginMoves ==
  ASSUME TypeOK, NEW c \in Calls, NEW call \in Call, Begin(c, call)
  PROVE  Moves(c) /\ calls'[c] = call /\ calm' \in BOOLEAN
BY DEF TypeOK, Begin, Moves

LEMMA GotoMoves ==
  ASSUME TypeOK, NEW c \in Calls, NEW pc \in Pc, Goto(c, pc)
  PROVE  /\ Moves(c) /\ calm' \in BOOLEAN
         /\ calls'[c] = [calls[c] EXCEPT !.pc = pc]
<1>1. calls[c] \in Call
  BY DEF TypeOK
<1>2. [calls[c] EXCEPT !.pc = pc] \in Call
  BY <1>1 DEF Call
<1>3. calls' = [calls EXCEPT ![c] = [calls[c] EXCEPT !.pc = pc]]
  BY DEF Goto
<1> QED BY <1>2, <1>3 DEF TypeOK, Moves, Goto

LEMMA IdleIsCall == Idle \in Call
BY DEF Idle, Call, Pc

LEMMA EndMoves ==
  ASSUME TypeOK, NEW c \in Calls, End(c)
  PROVE  Moves(c) /\ calls'[c] = Idle /\ calm' \in BOOLEAN
BY IdleIsCall DEF TypeOK, End, Moves

-----------------------------------------------------------------------------
(* What a step does to the rows.                                           *)

\* A step that leaves the rows alone and sends one request on keeps the
\* invariant if that request knows what it must.
Knows(c) ==
  /\ calls'[c].pc \in OnBid => calls'[c].bid \in Bids
  /\ calls'[c].pc \in OnJob => jobs[calls'[c].bid].status # "none"
  /\ calls'[c].pc = "pickup" => calls'[c].saw \subseteq confirmed'
  /\ calls'[c].pc = "deliver" => request.points \subseteq confirmed

LEMMA RowsAlone ==
  ASSUME IInv, NEW c \in Calls, Moves(c), Knows(c), UNCHANGED <<rows, closed>>,
         confirmed \subseteq confirmed', confirmed' \subseteq Sellers,
         calm' \in BOOLEAN
  PROVE  IInv'
<1>1. TypeOK'
  BY DEF IInv, TypeOK, rows, Moves
<1>2. Informed'
  BY DEF IInv, Informed, rows, Moves, Knows
<1>3. Listed' /\ SelectionAgrees' /\ DeliveryNeedsPickups'
  BY DEF IInv, Listed, SelectionAgrees, DeliveryNeedsPickups, rows
<1> QED BY <1>1, <1>2, <1>3 DEF IInv

\* A step that ends a request and leaves request and confirmations alone.
LEMMA ItsJob ==
  ASSUME IInv, NEW c \in Calls, End(c), NEW b \in Bids, NEW job \in Job,
         jobs[b].status # "none", job.status # "none",
         jobs' = [jobs EXCEPT ![b] = job],
         job.picked \subseteq confirmed, job.all => request.points \subseteq confirmed,
         phase' \in {phase, "COMPLETED"},
         request' = request \/ /\ request' = [request EXCEPT !.status = "COMPLETED"]
                               /\ request.points \subseteq confirmed,
         UNCHANGED <<bids, closed, confirmed>>
  PROVE  IInv'
<1>1. Moves(c) /\ calls'[c] = Idle /\ calm' \in BOOLEAN
  BY EndMoves DEF IInv
<1>2. /\ request' \in Request /\ request'.points = request.points
      /\ request'.selected = request.selected
      /\ request'.status \in {request.status, "COMPLETED"}
  BY DEF IInv, TypeOK, Request, RequestStatus
<1>3. TypeOK'
  BY <1>1, <1>2 DEF IInv, TypeOK, Moves
<1>4. \A a \in Bids : (jobs'[a].status # "none") <=> (jobs[a].status # "none")
  BY DEF IInv, TypeOK
<1>5. Informed'
  BY <1>1, <1>2, <1>4 DEF IInv, Informed, Moves, Idle, OnBid, OnJob
<1>6. Listed'
  BY <1>2, <1>4 DEF IInv, TypeOK, Listed
<1>7. SelectionAgrees'
  <2>1. request.selected = b
    BY DEF IInv, SelectionAgrees
  <2>2. request.selected # None
    BY <2>1, NoneAssumption DEF Bids
  <2>3. request'.status \in {"ASSIGNED", "COMPLETED"}
    BY <1>2, <2>2 DEF IInv, SelectionAgrees
  <2> QED BY <1>2, <1>4, <2>2, <2>3 DEF IInv, SelectionAgrees
<1>8. DeliveryNeedsPickups'
  BY <1>2 DEF IInv, DeliveryNeedsPickups, TypeOK, Request
<1> QED BY <1>3, <1>5, <1>6, <1>7, <1>8 DEF IInv

-----------------------------------------------------------------------------
(* The steps of Next.                                                      *)

\* A request that arrives with nothing of the rows that it could have wrong.
LEMMA Arrives ==
  ASSUME IInv, NEW c \in Calls, NEW call \in Call, Begin(c, call),
         call.pc \in OnBid => call.bid \in Bids,
         call.pc \in OnJob => jobs[call.bid].status # "none",
         call.pc # "pickup",
         call.pc = "deliver" => request.points \subseteq confirmed
  PROVE  IInv'
<1>1. Moves(c) /\ calls'[c] = call /\ calm' \in BOOLEAN
  BY BeginMoves DEF IInv
<1>2. UNCHANGED <<rows, closed, confirmed>>
  BY DEF Begin
<1>3. Knows(c)
  BY <1>1, <1>2 DEF Knows
<1>4. confirmed' \subseteq Sellers
  BY <1>2 DEF IInv, TypeOK
<1> QED BY <1>1, <1>2, <1>3, <1>4, RowsAlone

\* A request that ends without a trace.
LEMMA Ends ==
  ASSUME IInv, NEW c \in Calls, calls' = [calls EXCEPT ![c] = Idle],
         calm' \in BOOLEAN, UNCHANGED <<rows, closed, confirmed>>
  PROVE  IInv'
<1>1. Moves(c) /\ calls'[c] = Idle
  BY IdleIsCall DEF IInv, TypeOK, Moves
<1>2. Knows(c)
  BY <1>1 DEF Knows, Idle, OnBid, OnJob
<1>3. confirmed' \subseteq Sellers
  BY DEF IInv, TypeOK
<1> QED BY <1>1, <1>2, <1>3, RowsAlone

LEMMA CreateStep ==
  ASSUME IInv, NEW c \in Calls, NEW points \in SUBSET Sellers,
         createTransportRequest(c, points)
  PROVE  IInv'
<1>1. [Idle EXCEPT !.pc = "create", !.saw = points] \in Call
  BY DEF Idle, Call, Pc
<1> QED BY <1>1, Arrives DEF createTransportRequest, Idle, OnBid, OnJob

LEMMA CreateRowStep ==
  ASSUME IInv, NEW c \in Calls, createRow(c)
  PROVE  IInv'
<1>1. calls[c] \in Call
  BY DEF IInv, TypeOK
<1>2. CASE ~Insertable
  BY <1>2, Ends DEF createRow, End, rows, IInv, TypeOK
<1>3. CASE Insertable
  <2>1. /\ request' = [status |-> "OPEN", selected |-> None, points |-> calls[c].saw]
        /\ Goto(c, "phase")
        /\ UNCHANGED <<bids, jobs, phase, closed, confirmed>>
    BY <1>3 DEF createRow
  <2>2. /\ Moves(c) /\ calm' \in BOOLEAN
        /\ calls'[c] = [calls[c] EXCEPT !.pc = "phase"]
    BY <2>1, GotoMoves DEF IInv, Pc
  <2>3. calls'[c].pc = "phase"
    BY <1>1, <2>2 DEF Call
  <2>4. request' \in Request
    BY <1>1, <2>1 DEF Request, RequestStatus, Call
  <2>5. TypeOK'
    BY <2>1, <2>2, <2>4 DEF IInv, TypeOK, Moves
  <2>6. \A b \in Bids : jobs[b].status = "none" /\ ~jobs[b].all
    <3>1. request.selected = None
      BY <1>3 DEF Insertable, IInv, SelectionAgrees
    <3> QED BY <3>1, NoneAssumption DEF IInv, SelectionAgrees, Listed, Bids
  <2>7. Informed'
    BY <2>1, <2>2, <2>3, <2>6 DEF IInv, Informed, Moves, OnBid, OnJob
  <2>8. Listed'
    BY <2>1, <2>6 DEF IInv, Listed
  <2>9. SelectionAgrees'
    BY <1>3, <2>1, <2>6, NoneAssumption
      DEF IInv, SelectionAgrees, Insertable, Bids
  <2>10. DeliveryNeedsPickups'
    BY <2>1 DEF DeliveryNeedsPickups
  <2> QED BY <2>5, <2>7, <2>8, <2>9, <2>10 DEF IInv
<1> QED BY <1>2, <1>3

LEMMA PhaseWriteStep ==
  ASSUME IInv, NEW c \in Calls, phaseWrite(c)
  PROVE  IInv'
<1>1. Moves(c) /\ calls'[c] = Idle /\ calm' \in BOOLEAN
  BY EndMoves DEF IInv, phaseWrite
<1>2. TypeOK'
  BY <1>1 DEF IInv, TypeOK, Moves, phaseWrite
<1>3. Informed'
  BY <1>1 DEF IInv, Informed, Moves, phaseWrite, Idle, OnBid, OnJob
<1> QED BY <1>2, <1>3
     DEF IInv, phaseWrite, Listed, SelectionAgrees, DeliveryNeedsPickups

LEMMA SubmitStep ==
  ASSUME IInv, NEW c \in Calls, NEW who \in Transporters, submitBid(c, who)
  PROVE  IInv'
<1>1. [Idle EXCEPT !.pc = "bidCheck", !.who = who] \in Call
  BY DEF Idle, Call, Pc
<1> QED BY <1>1, Arrives DEF submitBid, Idle, OnBid, OnJob

LEMMA BidCheckStep ==
  ASSUME IInv, NEW c \in Calls, bidCheck(c)
  PROVE  IInv'
<1>1. CASE Active(calls[c].who)
  BY <1>1, Ends DEF bidCheck, End, IInv, TypeOK
<1>2. CASE ~Active(calls[c].who)
  <2>1. Goto(c, "bidCreate") /\ UNCHANGED <<rows, closed, confirmed>>
    BY <1>2 DEF bidCheck
  <2>2. /\ Moves(c) /\ calm' \in BOOLEAN
        /\ calls'[c] = [calls[c] EXCEPT !.pc = "bidCreate"]
    BY <2>1, GotoMoves DEF IInv, Pc
  <2>3. Knows(c)
    BY <2>2 DEF IInv, TypeOK, Call, Knows, OnBid, OnJob
  <2>4. confirmed' \subseteq Sellers
    BY <2>1 DEF IInv, TypeOK
  <2> QED BY <2>1, <2>2, <2>3, <2>4, RowsAlone
<1> QED BY <1>1, <1>2

LEMMA BidCreateStep ==
  ASSUME IInv, NEW c \in Calls, bidCreate(c)
  PROVE  IInv'
<1>1. Moves(c) /\ calls'[c] = Idle /\ calm' \in BOOLEAN
  BY EndMoves DEF IInv, bidCreate
<1>2. calls[c].who \in Transporters \cup {None}
  BY DEF IInv, TypeOK, Call
<1>3. PICK b \in Bids :
        bids' = [bids EXCEPT ![b] = [status |-> "PENDING", who |-> calls[c].who]]
  BY DEF bidCreate
<1>4. bids' \in [Bids -> Bid]
  BY <1>2, <1>3 DEF IInv, TypeOK, Bid, BidStatus
<1>5. TypeOK'
  BY <1>1, <1>4 DEF IInv, TypeOK, Moves, bidCreate
<1>6. Informed'
  BY <1>1 DEF IInv, Informed, Moves, bidCreate, Idle, OnBid, OnJob
<1>7. \A a \in Bids : bids'[a].status = "ACCEPTED" => bids[a].status = "ACCEPTED"
  BY <1>3 DEF IInv, TypeOK
<1>8. SelectionAgrees'
  BY <1>7 DEF IInv, SelectionAgrees, bidCreate
<1> QED BY <1>5, <1>6, <1>8 DEF IInv, bidCreate, Listed, DeliveryNeedsPickups

LEMMA RejectStep ==
  ASSUME IInv, NEW b \in Bids, rejectBid(b)
  PROVE  IInv'
<1>1. bids' = [bids EXCEPT ![b] = [bids[b] EXCEPT !.status = "REJECTED"]]
  BY DEF rejectBid
<1>2. [bids[b] EXCEPT !.status = "REJECTED"] \in Bid
  BY DEF IInv, TypeOK, Bid, BidStatus
<1>3. bids' \in [Bids -> Bid]
  BY <1>1, <1>2 DEF IInv, TypeOK
<1>4. TypeOK'
  BY <1>3 DEF IInv, TypeOK, rejectBid
<1>5. \A a \in Bids : bids'[a].status = "ACCEPTED" => bids[a].status = "ACCEPTED"
  BY <1>1 DEF IInv, TypeOK, Bid
<1>6. SelectionAgrees'
  BY <1>5 DEF IInv, SelectionAgrees, rejectBid
<1> QED BY <1>4, <1>6
     DEF IInv, rejectBid, Informed, Listed, DeliveryNeedsPickups

LEMMA AcceptStep ==
  ASSUME IInv, NEW c \in Calls, NEW b \in Bids, acceptBid(c, b)
  PROVE  IInv'
<1>1. [Idle EXCEPT !.pc = "accept", !.bid = b] \in Call
  BY DEF Idle, Call, Pc
<1> QED BY <1>1, Arrives DEF acceptBid, Idle, OnBid, OnJob

LEMMA AcceptOwnStep ==
  ASSUME IInv, NEW c \in Calls, acceptOwn(c)
  PROVE  IInv'
<1>1. Goto(c, "accepted") /\ UNCHANGED <<rows, closed, confirmed>>
  BY DEF acceptOwn
<1>2. /\ Moves(c) /\ calm' \in BOOLEAN
      /\ calls'[c] = [calls[c] EXCEPT !.pc = "accepted"]
  BY <1>1, GotoMoves DEF IInv, Pc
<1>3. calls[c].bid \in Bids
  BY DEF IInv, Informed, OnBid, acceptOwn
<1>4. Knows(c)
  BY <1>2, <1>3 DEF IInv, TypeOK, Call, Knows, OnBid, OnJob
<1>5. confirmed' \subseteq Sellers
  BY <1>1 DEF IInv, TypeOK
<1> QED BY <1>1, <1>2, <1>4, <1>5, RowsAlone

\* The unique column of the job: it is the first of the request.
LEMMA AcceptRestStep ==
  ASSUME IInv, NEW c \in Calls, acceptRest(c)
  PROVE  IInv'
<1> DEFINE b == calls[c].bid
<1>1. b \in Bids
  BY DEF IInv, Informed, OnBid, acceptRest
<1>2. CASE UNCHANGED rows
  BY <1>2, Ends DEF acceptRest, End, IInv, TypeOK
<1>3. CASE ~JobExists(b) /\ bids' = Decided(b) /\ Assigned(b)
  <2>1. Moves(c) /\ calls'[c] = Idle /\ calm' \in BOOLEAN
    BY EndMoves DEF IInv, acceptRest
  <2>2. UNCHANGED <<closed, confirmed>>
    BY DEF acceptRest
  <2>3. \A a \in Bids : jobs[a].status = "none" /\ ~jobs[a].all
    BY <1>3 DEF JobExists, IInv, Listed
  <2>4. request.selected = None
    BY <2>3 DEF IInv, TypeOK, Request, SelectionAgrees
  <2>5. /\ request' \in Request /\ request'.status = "ASSIGNED"
        /\ request'.selected = b /\ request'.points = request.points
    BY <1>1, <1>3 DEF Assigned, IInv, TypeOK, Request, RequestStatus
  <2> DEFINE job == [NoJob EXCEPT !.status = "ASSIGNED"]
  <2>6. job \in Job /\ job.status = "ASSIGNED" /\ job.picked = {} /\ ~job.all
    BY DEF NoJob, Job, JobStatus
  <2>7. jobs' = [jobs EXCEPT ![b] = job]
    BY <1>3 DEF Assigned
  <2> HIDE DEF job
  <2>8. \A a \in Bids : jobs'[a] = IF a = b THEN job ELSE jobs[a]
    BY <1>1, <2>7 DEF IInv, TypeOK
  <2>9. bids' \in [Bids -> Bid]
    <3> SUFFICES ASSUME NEW a \in Bids PROVE Decided(b)[a] \in Bid
      BY <1>3 DEF Decided
    <3>1. bids[a] \in Bid
      BY DEF IInv, TypeOK
    <3> QED BY <3>1 DEF Decided, Bid, BidStatus
  <2>10. \A a \in Bids \ {b} : bids'[a].status # "ACCEPTED"
    <3> SUFFICES ASSUME NEW a \in Bids, a # b
                 PROVE  Decided(b)[a].status # "ACCEPTED"
      BY <1>3
    <3>1. bids[a] \in Bid
      BY DEF IInv, TypeOK
    <3>2. bids[a].status # "ACCEPTED"
      BY <2>4, NoneAssumption DEF IInv, SelectionAgrees, Bids
    <3> QED BY <3>1, <3>2 DEF Decided, Bid
  <2>11. TypeOK'
    BY <1>1, <1>3, <2>1, <2>2, <2>5, <2>6, <2>7, <2>9
      DEF IInv, TypeOK, Moves, Assigned
  <2>12. Informed'
    BY <2>1, <2>2, <2>3, <2>5 DEF IInv, Informed, Moves, Idle, OnBid, OnJob
  <2>13. Listed'
    BY <2>2, <2>3, <2>6, <2>8 DEF IInv, Listed
  <2>14. SelectionAgrees'
    BY <1>1, <2>3, <2>5, <2>6, <2>8, <2>10, NoneAssumption
      DEF SelectionAgrees, Bids
  <2>15. DeliveryNeedsPickups'
    BY <2>5 DEF DeliveryNeedsPickups
  <2> QED BY <2>11, <2>12, <2>13, <2>14, <2>15 DEF IInv
<1> QED BY <1>2, <1>3 DEF acceptRest

LEMMA StartStep ==
  ASSUME IInv, NEW c \in Calls, NEW b \in Bids, startJob(c, b)
  PROVE  IInv'
<1>1. [Idle EXCEPT !.pc = "start", !.bid = b] \in Call
  BY DEF Idle, Call, Pc
<1> QED BY <1>1, Arrives DEF startJob, Idle, OnBid, OnJob

LEMMA StartedStep ==
  ASSUME IInv, NEW c \in Calls, started(c)
  PROVE  IInv'
<1> DEFINE b == calls[c].bid
           job == [jobs[b] EXCEPT !.status = "STARTED"]
<1>1. b \in Bids /\ jobs[b].status # "none"
  BY DEF IInv, Informed, OnBid, OnJob, started
<1>2. /\ job \in Job /\ job.status = "STARTED"
      /\ job.picked = jobs[b].picked /\ job.all = jobs[b].all
  BY <1>1 DEF IInv, TypeOK, Job, JobStatus
<1>3. jobs' = [jobs EXCEPT ![b] = job]
  BY DEF started
<1> HIDE DEF job
<1>4. job.picked \subseteq confirmed /\ (job.all => request.points \subseteq confirmed)
  BY <1>1, <1>2 DEF IInv, Listed
<1> QED BY <1>1, <1>2, <1>3, <1>4, ItsJob DEF started

LEMMA ConfirmPickupStep ==
  ASSUME IInv, NEW c \in Calls, NEW b \in Bids, NEW s \in Sellers,
         confirmPickup(c, b, s)
  PROVE  IInv'
<1> DEFINE call == [Idle EXCEPT !.pc = "pickup", !.bid = b,
                     !.saw = jobs[b].picked \cup {s}]
<1>1. jobs[b].picked \subseteq Sellers /\ jobs[b].picked \subseteq confirmed
  BY DEF IInv, TypeOK, Job, Listed
<1>2. /\ call \in Call /\ call.pc = "pickup" /\ call.bid = b
      /\ call.saw = jobs[b].picked \cup {s}
  BY <1>1 DEF Idle, Call, Pc
<1>3. calls' = [calls EXCEPT ![c] = call] /\ confirmed' = confirmed \cup {s}
  BY DEF confirmPickup
<1> HIDE DEF call
<1>4. Moves(c) /\ calls'[c] = call
  BY <1>2, <1>3 DEF IInv, TypeOK, Moves
<1>5. Knows(c)
  BY <1>1, <1>2, <1>3, <1>4 DEF Knows, confirmPickup
<1>6. confirmed \subseteq confirmed' /\ confirmed' \subseteq Sellers
  BY <1>3 DEF IInv, TypeOK
<1>7. UNCHANGED <<rows, closed>> /\ calm' \in BOOLEAN
  BY DEF confirmPickup, IInv, TypeOK
<1> QED BY <1>4, <1>5, <1>6, <1>7, RowsAlone

LEMMA PickedUpStep ==
  ASSUME IInv, NEW c \in Calls, pickedUp(c)
  PROVE  IInv'
<1> DEFINE b == calls[c].bid
           job == PickedUp(calls[c].saw)
<1>1. /\ b \in Bids /\ jobs[b].status # "none"
      /\ calls[c].saw \subseteq confirmed
  BY DEF IInv, Informed, OnBid, OnJob, pickedUp
<1>2. calls[c].saw \subseteq Sellers
  BY DEF IInv, TypeOK, Call
<1>3. /\ job \in Job /\ job.status # "none" /\ job.picked = calls[c].saw
      /\ job.all => request.points \subseteq calls[c].saw
  BY <1>2 DEF PickedUp, Job, JobStatus
<1>4. jobs' = [jobs EXCEPT ![b] = job]
  BY DEF pickedUp
<1> HIDE DEF job
<1>5. job.picked \subseteq confirmed /\ (job.all => request.points \subseteq confirmed)
  BY <1>1, <1>3
<1> QED BY <1>1, <1>3, <1>4, <1>5, ItsJob DEF pickedUp

LEMMA ConfirmDeliveryStep ==
  ASSUME IInv, NEW c \in Calls, NEW b \in Bids, confirmDelivery(c, b)
  PROVE  IInv'
<1>1. [Idle EXCEPT !.pc = "deliver", !.bid = b] \in Call
  BY DEF Idle, Call, Pc
<1>2. jobs[b].status # "none" /\ request.points \subseteq confirmed
  BY DEF confirmDelivery, IInv, Listed
<1> QED BY <1>1, <1>2, Arrives DEF confirmDelivery, Idle, OnBid, OnJob

LEMMA DeliveredStep ==
  ASSUME IInv, NEW c \in Calls, delivered(c)
  PROVE  IInv'
<1> DEFINE b == calls[c].bid
           job == [jobs[b] EXCEPT !.status = "COMPLETED"]
<1>1. /\ b \in Bids /\ jobs[b].status # "none"
      /\ request.points \subseteq confirmed
  BY DEF IInv, Informed, OnBid, OnJob, delivered
<1>2. /\ job \in Job /\ job.status = "COMPLETED"
      /\ job.picked = jobs[b].picked /\ job.all = jobs[b].all
  BY <1>1 DEF IInv, TypeOK, Job, JobStatus
<1>3. jobs' = [jobs EXCEPT ![b] = job]
  BY DEF delivered
<1> HIDE DEF job
<1>4. job.picked \subseteq confirmed /\ (job.all => request.points \subseteq confirmed)
  BY <1>1, <1>2 DEF IInv, Listed
<1> QED BY <1>1, <1>2, <1>3, <1>4, ItsJob DEF delivered

-----------------------------------------------------------------------------
(* The theorems.                                                           *)

\* The invariant holds at first.
LEMMA Initially == Init => IInv
<1> SUFFICES ASSUME Init PROVE IInv
  OBVIOUS
<1>1. TypeOK
  BY IdleIsCall DEF Init, TypeOK, Request, RequestStatus, Bid, BidStatus, NoBid,
                    Job, JobStatus, NoJob
<1>2. Informed
  BY DEF Init, Informed, Idle, OnBid, OnJob
<1>3. Listed /\ SelectionAgrees /\ DeliveryNeedsPickups
  BY NoneAssumption DEF Init, Listed, SelectionAgrees, DeliveryNeedsPickups,
                        NoJob, NoBid, Bids
<1> QED BY <1>1, <1>2, <1>3 DEF IInv

\* Whatever requests overlap and die, and whichever acceptance the database
\* ends, what each has read is still true where it matters, and rows agree.
THEOREM InductiveInvariant == Spec => []IInv
<1>1. IInv /\ [Next]_vars => IInv'
  <2> SUFFICES ASSUME IInv, [Next]_vars PROVE IInv'
    OBVIOUS
  <2>1. CASE UNCHANGED vars
    BY <2>1 DEF vars, rows, IInv, TypeOK, Informed, Listed, SelectionAgrees,
                DeliveryNeedsPickups
  <2>2. ASSUME NEW c \in Calls, NEW points \in SUBSET Sellers,
               \/ createTransportRequest(c, points)
               \/ autoCreateTransportRequestForTrade(c, points)
        PROVE  IInv'
    BY <2>2, CreateStep DEF autoCreateTransportRequestForTrade
  <2>3. ASSUME NEW c \in Calls, NEW who \in Transporters, submitBid(c, who)
        PROVE  IInv'
    BY <2>3, SubmitStep
  <2>4. ASSUME NEW c \in Calls, NEW b \in Bids,
               acceptBid(c, b) \/ startJob(c, b) \/ confirmDelivery(c, b)
        PROVE  IInv'
    BY <2>4, AcceptStep, StartStep, ConfirmDeliveryStep
  <2>5. ASSUME NEW c \in Calls, NEW b \in Bids, NEW s \in Sellers,
               confirmPickup(c, b, s)
        PROVE  IInv'
    BY <2>5, ConfirmPickupStep
  <2>6. ASSUME NEW b \in Bids, rejectBid(b)
        PROVE  IInv'
    BY <2>6, RejectStep
  <2>7. ASSUME NEW c \in Calls,
               createRow(c) \/ phaseWrite(c) \/ bidCheck(c) \/ bidCreate(c)
        PROVE  IInv'
    BY <2>7, CreateRowStep, PhaseWriteStep, BidCheckStep, BidCreateStep
  <2>8. ASSUME NEW c \in Calls,
               \/ acceptOwn(c) \/ acceptRest(c) \/ started(c) \/ pickedUp(c)
               \/ delivered(c)
        PROVE  IInv'
    BY <2>8, AcceptOwnStep, AcceptRestStep, StartedStep, PickedUpStep,
       DeliveredStep
  <2>9. ASSUME NEW c \in Calls, fails(c)
        PROVE  IInv'
    BY <2>9, Ends DEF fails
  <2>10. CASE deadline
    BY <2>10 DEF deadline, rows, IInv, TypeOK, Informed, Listed,
                 SelectionAgrees, DeliveryNeedsPickups
  <2> QED BY <2>1, <2>2, <2>3, <2>4, <2>5, <2>6, <2>7, <2>8, <2>9, <2>10 DEF Next
<1> QED BY Initially, <1>1, PTL DEF Spec

\* Rows and requests in flight keep their types.
THEOREM TypesKept == Spec => []TypeOK
<1>1. IInv => TypeOK
  BY DEF IInv
<1> QED BY <1>1, InductiveInvariant, PTL

\* One bid is selected, and it alone has a job, however acceptances overlap.
THEOREM OneSelection == Spec => []SelectionAgrees
<1>1. IInv => SelectionAgrees
  BY DEF IInv
<1> QED BY <1>1, InductiveInvariant, PTL

\* Nothing is delivered before a pickup was confirmed everywhere.
THEOREM PickedUpBeforeDelivery == Spec => []DeliveryNeedsPickups
<1>1. IInv => DeliveryNeedsPickups
  BY DEF IInv
<1> QED BY <1>1, InductiveInvariant, PTL
-----------------------------------------------------------------------------
(* What holds as long as requests do not overlap.                          *)

\* One request is in flight at most.
Alone == \A c, d \in Calls : calls[c] # Idle /\ calls[d] # Idle => c = d

\* Nobody else writes between two awaits: a request that opens the bidding,
\* bids or accepts finds no bid selected.
BeforeSelection == {"phase", "bidCheck", "bidCreate", "accept", "accepted"}
Expects == \A c \in Calls :
  calls[c].pc \in BeforeSelection => request.selected = None

\* PhaseKeepsUp, also while a request is in flight.
PhaseFollows == (calm /\ request.selected # None) =>
  phase = IF request.status = "COMPLETED" THEN "COMPLETED" ELSE "IN_TRANSIT"

CalmInv == /\ calm => Alone /\ Expects
           /\ NoBidLeftOpen /\ PhaseFollows

\* A request arrives: it is alone, and the rows are as they were.
LEMMA CalmArrival ==
  ASSUME IInv, CalmInv, NEW c \in Calls, calls[c] = Idle, Moves(c),
         calm' = (calm /\ Quiet), UNCHANGED rows,
         calls'[c].pc \in BeforeSelection => request.selected = None
  PROVE  CalmInv'
<1>1. CASE ~calm'
  BY <1>1 DEF CalmInv, NoBidLeftOpen, PhaseFollows
<1>2. CASE calm'
  <2>1. calm /\ \A d \in Calls : calls[d] = Idle
    BY <1>2 DEF Quiet
  <2>2. Alone'
    BY <2>1 DEF Alone, Moves
  <2>3. Expects'
    BY <2>1 DEF Expects, Moves, rows, Idle, BeforeSelection
  <2> QED BY <2>1, <2>2, <2>3
             DEF CalmInv, NoBidLeftOpen, PhaseFollows, rows
<1> QED BY <1>1, <1>2

\* A request ends: nobody is left that could rely on the rows.
LEMMA CalmEnd ==
  ASSUME IInv, CalmInv, NEW c \in Calls, calls[c] # Idle, End(c),
         calm' = calm /\ calm => NoBidLeftOpen' /\ PhaseFollows'
  PROVE  CalmInv'
<1>1. Moves(c) /\ calls'[c] = Idle
  BY EndMoves DEF IInv
<1>2. UNCHANGED calm
  BY DEF End
<1>3. ASSUME calm PROVE Alone' /\ Expects'
  <2>1. \A d \in Calls : calls'[d] = Idle
    BY <1>1, <1>3 DEF CalmInv, Alone, Moves
  <2> QED BY <2>1 DEF Alone, Expects, Idle, BeforeSelection
<1> QED BY <1>2, <1>3 DEF CalmInv, NoBidLeftOpen, PhaseFollows

\* A request goes on, with the rows as they were.
LEMMA CalmGoto ==
  ASSUME IInv, CalmInv, NEW c \in Calls, calls[c] # Idle, NEW pc \in Pc, Goto(c, pc),
         UNCHANGED rows,
         pc \in BeforeSelection /\ calm => request.selected = None
  PROVE  CalmInv'
<1>1. Moves(c) /\ calls'[c].pc = pc /\ UNCHANGED calm
  <2>1. /\ Moves(c) /\ calls'[c] = [calls[c] EXCEPT !.pc = pc]
        /\ calls[c] \in Call
    BY GotoMoves DEF IInv, TypeOK
  <2> QED BY <2>1 DEF Call, Goto
<1>2. calm => Alone' /\ Expects'
  BY <1>1 DEF CalmInv, Alone, Expects, Moves, rows
<1> QED BY <1>1, <1>2 DEF CalmInv, NoBidLeftOpen, PhaseFollows, rows

LEMMA CalmStep ==
  ASSUME IInv, CalmInv, Next
  PROVE  CalmInv'
<1> USE DEF Idle
<1>1. ASSUME NEW c \in Calls, NEW call \in Call, Begin(c, call),
             call.pc \in BeforeSelection => (calm => request.selected = None)
      PROVE  CalmInv'
  <2>1. Moves(c) /\ calls'[c] = call /\ calls[c] = Idle /\ UNCHANGED rows
        /\ calm' = (calm /\ Quiet)
    BY <1>1, BeginMoves DEF IInv, Begin
  <2>2. CASE calm
    BY <1>1, <2>1, <2>2, CalmArrival
  <2>3. CASE ~calm
    BY <2>1, <2>3 DEF CalmInv, NoBidLeftOpen, PhaseFollows
  <2> QED BY <2>2, <2>3
<1>2. ASSUME NEW c \in Calls, NEW points \in SUBSET Sellers,
             \/ createTransportRequest(c, points)
             \/ autoCreateTransportRequestForTrade(c, points)
      PROVE  CalmInv'
  <2>1. [Idle EXCEPT !.pc = "create", !.saw = points] \in Call
    BY DEF Call, Pc
  <2> QED BY <1>1, <1>2, <2>1 DEF createTransportRequest,
             autoCreateTransportRequestForTrade, BeforeSelection
<1>3. ASSUME NEW c \in Calls, NEW who \in Transporters, submitBid(c, who)
      PROVE  CalmInv'
  <2>1. [Idle EXCEPT !.pc = "bidCheck", !.who = who] \in Call
    BY DEF Call, Pc
  <2>2. request.selected = None
    BY <1>3 DEF submitBid, IInv, SelectionAgrees
  <2> QED BY <1>1, <1>3, <2>1, <2>2 DEF submitBid
<1>4. ASSUME NEW c \in Calls, NEW b \in Bids, acceptBid(c, b)
      PROVE  CalmInv'
  <2>1. [Idle EXCEPT !.pc = "accept", !.bid = b] \in Call
    BY DEF Call, Pc
  <2>2. calm => request.selected = None
    BY <1>4 DEF acceptBid, CalmInv, NoBidLeftOpen
  <2> QED BY <1>1, <1>4, <2>1, <2>2 DEF acceptBid
<1>5. ASSUME NEW c \in Calls, NEW b \in Bids, startJob(c, b) \/ confirmDelivery(c, b)
      PROVE  CalmInv'
  <2>1. /\ [Idle EXCEPT !.pc = "start", !.bid = b] \in Call
        /\ [Idle EXCEPT !.pc = "deliver", !.bid = b] \in Call
    BY DEF Call, Pc
  <2> QED BY <1>1, <1>5, <2>1 DEF startJob, confirmDelivery, BeforeSelection
<1>6. ASSUME NEW c \in Calls, NEW b \in Bids, NEW s \in Sellers, confirmPickup(c, b, s)
      PROVE  CalmInv'
  <2> DEFINE call == [Idle EXCEPT !.pc = "pickup", !.bid = b,
                        !.saw = jobs[b].picked \cup {s}]
  <2>1. call \in Call /\ call.pc = "pickup"
    BY DEF Call, Pc, IInv, TypeOK, Job
  <2>2. calls' = [calls EXCEPT ![c] = call] /\ calls[c] = Idle /\ UNCHANGED rows
        /\ calm' = (calm /\ Quiet)
    BY <1>6 DEF confirmPickup
  <2> HIDE DEF call
  <2>3. Moves(c) /\ calls'[c].pc = "pickup"
    BY <2>1, <2>2 DEF Moves, IInv, TypeOK
  <2> QED BY <2>2, <2>3, CalmArrival DEF BeforeSelection
<1>7. ASSUME NEW c \in Calls, createRow(c)
      PROVE  CalmInv'
  <2>1. CASE ~Insertable
    BY <1>7, <2>1, CalmEnd
       DEF createRow, CalmInv, NoBidLeftOpen, PhaseFollows
  <2>2. CASE Insertable
    <3>1. Moves(c) /\ calls'[c].pc = "phase" /\ UNCHANGED calm
      BY <1>7, <2>2, GotoMoves DEF createRow, IInv, TypeOK, Call, Pc, Goto
    <3>2. request'.selected = None /\ UNCHANGED bids
      BY <1>7, <2>2 DEF createRow
    <3>3. calm => Alone' /\ Expects'
      BY <1>7, <3>1, <3>2 DEF createRow, CalmInv, Alone, Expects, Moves
    <3> QED BY <3>1, <3>2, <3>3 DEF CalmInv, NoBidLeftOpen, PhaseFollows
  <2> QED BY <2>1, <2>2
<1>8. ASSUME NEW c \in Calls, phaseWrite(c)
      PROVE  CalmInv'
  <2>1. calm => request.selected = None
    BY <1>8 DEF phaseWrite, CalmInv, Expects, BeforeSelection
  <2> QED BY <1>8, <2>1, CalmEnd
             DEF phaseWrite, CalmInv, NoBidLeftOpen, PhaseFollows
<1>9. ASSUME NEW c \in Calls, bidCheck(c)
      PROVE  CalmInv'
  <2>1. calm => request.selected = None
    BY <1>9 DEF bidCheck, CalmInv, Expects, BeforeSelection
  <2>2. CASE Active(calls[c].who)
    BY <1>9, <2>2, CalmEnd
       DEF bidCheck, CalmInv, NoBidLeftOpen, PhaseFollows, End, rows
  <2>3. CASE ~Active(calls[c].who)
    BY <1>9, <2>1, <2>3, CalmGoto DEF bidCheck, Pc
  <2> QED BY <2>2, <2>3
<1>10. ASSUME NEW c \in Calls, bidCreate(c)
       PROVE  CalmInv'
  <2>1. calm => request.selected = None
    BY <1>10 DEF bidCreate, CalmInv, Expects, BeforeSelection
  <2> QED BY <1>10, <2>1, CalmEnd
             DEF bidCreate, CalmInv, NoBidLeftOpen, PhaseFollows
<1>11. ASSUME NEW b \in Bids, rejectBid(b)
       PROVE  CalmInv'
  <2>1. CASE ~calm'
    BY <2>1 DEF CalmInv, NoBidLeftOpen, PhaseFollows
  <2>2. CASE calm'
    <3>1. calm /\ \A d \in Calls : calls'[d] = Idle
      BY <1>11, <2>2 DEF rejectBid, Quiet
    <3>2. Alone' /\ Expects'
      BY <3>1 DEF Alone, Expects, BeforeSelection
    <3>3. \A a \in Bids : bids'[a].status \in {bids[a].status, "REJECTED"}
      BY <1>11 DEF rejectBid, IInv, TypeOK, Bid
    <3>4. NoBidLeftOpen'
      BY <1>11, <3>1, <3>3 DEF rejectBid, CalmInv, NoBidLeftOpen
    <3> QED BY <1>11, <3>1, <3>2, <3>4 DEF rejectBid, CalmInv, PhaseFollows
  <2> QED BY <2>1, <2>2
<1>12. ASSUME NEW c \in Calls, acceptOwn(c)
       PROVE  CalmInv'
  <2>1. calm => request.selected = None
    BY <1>12 DEF acceptOwn, CalmInv, Expects, BeforeSelection
  <2> QED BY <1>12, <2>1, CalmGoto DEF acceptOwn, Pc
<1>13. ASSUME NEW c \in Calls, acceptRest(c)
       PROVE  CalmInv'
  <2> DEFINE b == calls[c].bid
  <2>1. b \in Bids
    BY <1>13 DEF acceptRest, IInv, Informed, OnBid
  <2>2. CASE UNCHANGED rows
    BY <1>13, <2>2, CalmEnd
       DEF acceptRest, CalmInv, NoBidLeftOpen, PhaseFollows, rows
  <2>3. CASE bids' = Decided(b) /\ Assigned(b)
    <3>1. \A a \in Bids : bids'[a].status # "PENDING"
      <4> SUFFICES ASSUME NEW a \in Bids PROVE Decided(b)[a].status # "PENDING"
        BY <2>3
      <4>1. bids[a] \in Bid
        BY DEF IInv, TypeOK
      <4> QED BY <4>1 DEF Decided, Bid
    <3>2. phase' = "IN_TRANSIT" /\ request'.status = "ASSIGNED"
      BY <2>3 DEF Assigned, IInv, TypeOK, Request
    <3> QED BY <1>13, <3>1, <3>2, CalmEnd
               DEF acceptRest, NoBidLeftOpen, PhaseFollows
  <2> QED BY <1>13, <2>2, <2>3 DEF acceptRest
<1>14. ASSUME NEW c \in Calls, started(c) \/ pickedUp(c)
       PROVE  CalmInv'
  BY <1>14, CalmEnd
     DEF started, pickedUp, CalmInv, NoBidLeftOpen, PhaseFollows
<1>15. ASSUME NEW c \in Calls, delivered(c)
       PROVE  CalmInv'
  <2>1. /\ request'.selected = request.selected /\ request'.status = "COMPLETED"
        /\ phase' = "COMPLETED" /\ UNCHANGED bids
    BY <1>15 DEF delivered, IInv, TypeOK, Request
  <2> QED BY <1>15, <2>1, CalmEnd
             DEF delivered, CalmInv, NoBidLeftOpen, PhaseFollows
<1>16. ASSUME NEW c \in Calls, fails(c)
       PROVE  CalmInv'
  BY <1>16 DEF fails, CalmInv, NoBidLeftOpen, PhaseFollows
<1>17. CASE deadline
  BY <1>17 DEF deadline, rows, CalmInv, Alone, Expects, NoBidLeftOpen, PhaseFollows
<1> QED BY <1>2, <1>3, <1>4, <1>5, <1>6, <1>7, <1>8, <1>9, <1>10, <1>11, <1>12,
           <1>13, <1>14, <1>15, <1>16, <1>17 DEF Next

\* Requests that do not overlap find what they wrote before undisturbed.
THEOREM CalmInvariant == Spec => []CalmInv
<1>1. Init => CalmInv
  BY DEF Init, CalmInv, Alone, Expects, Idle, BeforeSelection, NoBidLeftOpen, PhaseFollows, NoBid
<1>2. IInv /\ CalmInv /\ [Next]_vars => CalmInv'
  <2> SUFFICES ASSUME IInv, CalmInv, [Next]_vars PROVE CalmInv'
    OBVIOUS
  <2>1. CASE UNCHANGED vars
    BY <2>1 DEF vars, rows, CalmInv, Alone, Expects, NoBidLeftOpen, PhaseFollows
  <2> QED BY <2>1, CalmStep
<1> QED BY <1>1, <1>2, InductiveInvariant, PTL DEF Spec

\* No bid is left open by an acceptance that nothing overlaps.
THEOREM AllAnswered == Spec => []NoBidLeftOpen
<1>1. CalmInv => NoBidLeftOpen
  BY DEF CalmInv
<1> QED BY <1>1, CalmInvariant, PTL

\* The phase follows the job as long as requests do not overlap.
THEOREM PhaseFollowsJob == Spec => []PhaseKeepsUp
<1>1. CalmInv => PhaseKeepsUp
  BY DEF CalmInv, PhaseFollows, PhaseKeepsUp
<1> QED BY <1>1, CalmInvariant, PTL

-----------------------------------------------------------------------------
(* What the phase goes through, whatever overlaps.                         *)

\* The bidding is opened once, and the trade leaves with the bid selected.
Opening(c) == calls[c].pc = "phase"
Bidding ==
  /\ request.status = "none" => \A c \in Calls : ~Opening(c)
  /\ \A c, d \in Calls : Opening(c) /\ Opening(d) => c = d
  /\ phase \in {"IN_TRANSIT", "COMPLETED"} => request.selected # None

\* What DeliveryStands says of a step.
Stands ==
  /\ request.status = "COMPLETED" => request'.status = "COMPLETED"
  /\ phase = "COMPLETED" => phase' \in {"COMPLETED", "TRANSPORT_MATCHING"}
  /\ phase \in {"IN_TRANSIT", "COMPLETED"} /\ phase' = "TRANSPORT_MATCHING" =>
       \A c \in Calls : calls'[c].pc # "phase"

\* A step of a request that neither opens nor closes anything.
LEMMA BiddingGoesOn ==
  ASSUME Bidding, NEW c \in Calls, NEW call, call.pc # "phase",
         calls' = [calls EXCEPT ![c] = call], TypeOK, UNCHANGED <<request, phase>>
  PROVE  Bidding' /\ Stands
<1>1. \A d \in Calls : Opening(d)' => Opening(d)
  BY DEF Opening, TypeOK
<1> QED BY <1>1 DEF Bidding, Stands

LEMMA BiddingStep ==
  ASSUME IInv, Bidding, Next
  PROVE  Bidding' /\ Stands
<1>1. TypeOK /\ SelectionAgrees /\ Idle.pc # "phase"
  BY DEF IInv, Idle
<1>2. ASSUME NEW c \in Calls, NEW call, call.pc # "phase", Begin(c, call)
      PROVE  Bidding' /\ Stands
  BY <1>1, <1>2, BiddingGoesOn DEF Begin, rows
<1>3. ASSUME NEW c \in Calls, NEW pc \in Pc, pc # "phase", Goto(c, pc),
             UNCHANGED <<request, phase>>
      PROVE  Bidding' /\ Stands
  <2> DEFINE call == [calls[c] EXCEPT !.pc = pc]
  <2>1. calls' = [calls EXCEPT ![c] = call]
    BY <1>3 DEF Goto
  <2>2. call.pc # "phase"
    BY <1>1, <1>3 DEF TypeOK, Call
  <2> HIDE DEF call
  <2> QED BY <1>1, <1>3, <2>1, <2>2, BiddingGoesOn
<1>4. ASSUME NEW c \in Calls, calls' = [calls EXCEPT ![c] = Idle],
             UNCHANGED <<request, phase>>
      PROVE  Bidding' /\ Stands
  BY <1>1, <1>4, BiddingGoesOn
<1>5. ASSUME UNCHANGED <<request, phase, calls>> PROVE Bidding' /\ Stands
  BY <1>5 DEF Bidding, Stands, Opening
<1>6. ASSUME NEW c \in Calls, NEW points \in SUBSET Sellers,
             \/ createTransportRequest(c, points)
             \/ autoCreateTransportRequestForTrade(c, points)
      PROVE  Bidding' /\ Stands
  <2>1. [Idle EXCEPT !.pc = "create", !.saw = points].pc # "phase"
    BY DEF Idle
  <2> QED BY <1>2, <1>6, <2>1
             DEF createTransportRequest, autoCreateTransportRequestForTrade
<1>7. ASSUME NEW c \in Calls, NEW who \in Transporters, submitBid(c, who)
      PROVE  Bidding' /\ Stands
  <2>1. [Idle EXCEPT !.pc = "bidCheck", !.who = who].pc # "phase"
    BY DEF Idle
  <2> QED BY <1>2, <1>7, <2>1 DEF submitBid
<1>8. ASSUME NEW c \in Calls, NEW b \in Bids,
             acceptBid(c, b) \/ startJob(c, b) \/ confirmDelivery(c, b)
      PROVE  Bidding' /\ Stands
  <2>1. \A pc \in {"accept", "start", "deliver"} :
          [Idle EXCEPT !.pc = pc, !.bid = b].pc # "phase"
    BY DEF Idle
  <2> QED BY <1>2, <1>8, <2>1 DEF acceptBid, startJob, confirmDelivery
<1>9. ASSUME NEW c \in Calls, NEW b \in Bids, NEW s \in Sellers, confirmPickup(c, b, s)
      PROVE  Bidding' /\ Stands
  <2> DEFINE call == [Idle EXCEPT !.pc = "pickup", !.bid = b,
                        !.saw = jobs[b].picked \cup {s}]
  <2>1. call.pc # "phase"
    BY DEF Idle
  <2>2. calls' = [calls EXCEPT ![c] = call] /\ UNCHANGED <<request, phase>>
    BY <1>9 DEF confirmPickup, rows
  <2> HIDE DEF call
  <2> QED BY <1>1, <2>1, <2>2, BiddingGoesOn
<1>10. ASSUME NEW b \in Bids, rejectBid(b) PROVE Bidding' /\ Stands
  BY <1>5, <1>10 DEF rejectBid
<1>11. ASSUME NEW c \in Calls, createRow(c) PROVE Bidding' /\ Stands
  <2>1. CASE ~Insertable
    BY <1>4, <1>11, <2>1 DEF createRow, End
  <2>2. CASE Insertable
    <3>1. /\ request'.status = "OPEN" /\ request'.selected = None /\ phase' = phase
          /\ request.status = "none"
      BY <1>11, <2>2 DEF createRow, Insertable
    <3>2. \A d \in Calls : Opening(d)' => d = c
      BY <1>1, <1>11, <2>2, <3>1 DEF createRow, Goto, Opening, Bidding, TypeOK
    <3>3. request.selected = None
      BY <1>1, <3>1 DEF SelectionAgrees
    <3> QED BY <3>1, <3>2, <3>3 DEF Bidding, Stands
  <2> QED BY <2>1, <2>2
<1>12. ASSUME NEW c \in Calls, phaseWrite(c) PROVE Bidding' /\ Stands
  <2>1. \A d \in Calls : ~Opening(d)'
    BY <1>1, <1>12 DEF phaseWrite, End, Opening, Bidding, TypeOK
  <2>2. phase' = "TRANSPORT_MATCHING" /\ request' = request
    BY <1>12 DEF phaseWrite
  <2> QED BY <2>1, <2>2 DEF Bidding, Stands, Opening
<1>13. ASSUME NEW c \in Calls, bidCheck(c) PROVE Bidding' /\ Stands
  <2>1. UNCHANGED <<request, phase>> /\ (End(c) \/ Goto(c, "bidCreate"))
    BY <1>13 DEF bidCheck, rows
  <2> QED BY <1>3, <1>4, <2>1 DEF End, Pc
<1>14. ASSUME NEW c \in Calls, acceptOwn(c) PROVE Bidding' /\ Stands
  BY <1>3, <1>14 DEF acceptOwn, rows, Pc
<1>15. ASSUME NEW c \in Calls, acceptRest(c) PROVE Bidding' /\ Stands
  <2> DEFINE b == calls[c].bid
  <2>1. calls' = [calls EXCEPT ![c] = Idle]
    BY <1>15 DEF acceptRest, End
  <2>2. CASE UNCHANGED rows
    BY <1>4, <2>1, <2>2 DEF rows
  <2>3. CASE ~JobExists(b) /\ Assigned(b)
    <3>1. request.selected = None
      BY <1>1, <2>3 DEF JobExists, SelectionAgrees, TypeOK, Request
    <3>2. b \in Bids
      BY <1>15 DEF acceptRest, IInv, Informed, OnBid
    <3>3. /\ request'.status = "ASSIGNED" /\ request'.selected # None
          /\ phase' = "IN_TRANSIT"
      BY <1>1, <2>3, <3>2, NoneAssumption DEF Assigned, TypeOK, Request, Bids
    <3>4. \A d \in Calls : Opening(d)' => Opening(d)
      BY <1>1, <2>1 DEF Opening, TypeOK
    <3>5. request.status # "COMPLETED" /\ phase # "COMPLETED"
      BY <1>1, <3>1 DEF SelectionAgrees, Bidding
    <3> QED BY <3>3, <3>4, <3>5 DEF Bidding, Stands
  <2> QED BY <1>15, <2>2, <2>3 DEF acceptRest
<1>16. ASSUME NEW c \in Calls, bidCreate(c) \/ started(c) \/ pickedUp(c) \/ fails(c)
       PROVE  Bidding' /\ Stands
  BY <1>4, <1>16 DEF bidCreate, started, pickedUp, fails, End, rows
<1>17. ASSUME NEW c \in Calls, delivered(c) PROVE Bidding' /\ Stands
  <2>1. /\ request'.selected = request.selected /\ request'.status = "COMPLETED"
        /\ phase' = "COMPLETED"
    BY <1>1, <1>17 DEF delivered, TypeOK, Request
  <2>2. \A d \in Calls : Opening(d)' => Opening(d)
    BY <1>1, <1>17 DEF delivered, End, Opening, TypeOK
  <2>3. request.selected # None
    <3>1. calls[c].bid \in Bids /\ jobs[calls[c].bid].status # "none"
      BY <1>17 DEF delivered, IInv, Informed, OnBid, OnJob
    <3> QED BY <1>1, <3>1, NoneAssumption DEF SelectionAgrees, Bids
  <2> QED BY <2>1, <2>2, <2>3 DEF Bidding, Stands
<1>18. CASE deadline
  BY <1>5, <1>18 DEF deadline, rows
<1> QED BY <1>6, <1>7, <1>8, <1>9, <1>10, <1>11, <1>12, <1>13, <1>14, <1>15, <1>16,
           <1>17, <1>18 DEF Next

\* Whatever requests overlap or die: a trade that was delivered stays so and is
\* not sent out again, and its phase goes back at most once, with the late
\* write of the one request that opened the bidding.
THEOREM DeliveredForGood == Spec => DeliveryStands
<1>1. Init => Bidding
  BY DEF Init, Bidding, Opening, Idle
<1>2. IInv /\ Bidding /\ [Next]_vars => Bidding' /\ [Stands]_vars
  <2> SUFFICES ASSUME IInv, Bidding, [Next]_vars PROVE Bidding' /\ [Stands]_vars
    OBVIOUS
  <2>1. CASE UNCHANGED vars
    BY <2>1 DEF vars, rows, Bidding, Opening
  <2>2. CASE Next
    BY <2>2, BiddingStep
  <2> QED BY <2>1, <2>2
<1>3. Spec => [][Stands]_vars
  BY <1>1, <1>2, InductiveInvariant, PTL DEF Spec
<1> QED BY <1>3 DEF DeliveryStands, Stands

-----------------------------------------------------------------------------
(***************************************************************************)
(* Route planning, which shares no state with the requests above: for any  *)
(* pickups, distances, lists that are asked and number of generations.     *)
(***************************************************************************)

\* An order of S has each member of S at one place.
LEMMA OrderFacts ==
  ASSUME NEW S, NEW s, IsOrderOf(s, S)
  PROVE  /\ s \in Seq(S) /\ Len(s) \in Nat /\ DOMAIN s = 1..Len(s)
         /\ \A k \in 1..Len(s) : s[k] \in S
         /\ \A q \in S : \E k \in 1..Len(s) : s[k] = q
         /\ \A k, l \in 1..Len(s) : s[k] = s[l] => k = l
BY DEF IsOrderOf, Visited

\* A sequence that has each member of S at one place is an order of S.
LEMMA OrderOf ==
  ASSUME NEW S, NEW n \in Nat, NEW s \in [1..n -> S],
         \A q \in S : \E k \in 1..n : s[k] = q,
         \A k, l \in 1..n : s[k] = s[l] => k = l
  PROVE  IsOrderOf(s, S)
<1>1. s \in Seq(S)
  BY SeqDef
<1> QED BY <1>1 DEF IsOrderOf, Visited

\* Stops that change places in pairs.
LEMMA Rearranged ==
  ASSUME NEW S, NEW s, IsOrderOf(s, S), NEW f \in [1..Len(s) -> 1..Len(s)],
         \A k \in 1..Len(s) : f[f[k]] = k,
         NEW t \in [1..Len(s) -> S], \A k \in 1..Len(s) : t[k] = s[f[k]]
  PROVE  IsOrderOf(t, S)
<1> PICK n : n = Len(s)
  OBVIOUS
<1>1. /\ n \in Nat /\ \A k \in 1..n : s[k] \in S
      /\ \A q \in S : \E k \in 1..n : s[k] = q
      /\ \A k, l \in 1..n : s[k] = s[l] => k = l
  BY OrderFacts
<1>2. \A k, l \in 1..n : t[k] = t[l] => k = l
  <2> SUFFICES ASSUME NEW k \in 1..n, NEW l \in 1..n, t[k] = t[l] PROVE k = l
    OBVIOUS
  <2>1. f[k] = f[l]
    BY <1>1
  <2> QED BY <2>1
<1>3. \A q \in S : \E k \in 1..n : t[k] = q
  <2> TAKE q \in S
  <2>1. PICK k \in 1..n : s[k] = q
    BY <1>1
  <2>2. f[k] \in 1..n /\ t[f[k]] = q
    BY <2>1
  <2> QED BY <2>2
<1>4. n \in Nat /\ t \in [1..n -> S]
  BY <1>1
<1> QED BY <1>2, <1>3, <1>4, OrderOf

\* twoOptSwap reverses a segment and keeps an order an order.
LEMMA Reversed ==
  ASSUME NEW S, NEW s, IsOrderOf(s, S), NEW i \in 1..Len(s), NEW j \in 1..Len(s)
  PROVE  IsOrderOf(twoOptSwap(s, i, j), S)
<1> PICK n : n = Len(s) /\ n \in Nat
  BY OrderFacts
<1> PICK f \in [1..n -> 1..n] :
      \A k \in 1..n : f[k] = IF k \in (i + 1)..j THEN i + 1 + j - k ELSE k
  <2>1. [k \in 1..n |-> IF k \in (i + 1)..j THEN i + 1 + j - k ELSE k] \in [1..n -> 1..n]
    OBVIOUS
  <2> QED BY <2>1
<1>1. \A k \in 1..n : f[f[k]] = k
  OBVIOUS
<1> PICK t : t = twoOptSwap(s, i, j)
  OBVIOUS
<1>2. t \in [1..n -> S] /\ \A k \in 1..n : t[k] = s[f[k]]
  BY OrderFacts DEF twoOptSwap
<1>3. IsOrderOf(t, S)
  BY <1>1, <1>2, Rearranged
<1> QED BY <1>3

\* mutate exchanges two stops and keeps an order an order.
LEMMA Exchanged ==
  ASSUME NEW S, NEW s, IsOrderOf(s, S), NEW i \in 1..Len(s), NEW j \in 1..Len(s)
  PROVE  IsOrderOf(mutate(s, i, j), S)
<1> PICK n : n = Len(s) /\ n \in Nat /\ DOMAIN s = 1..n /\ s \in Seq(S)
  BY OrderFacts
<1> PICK f \in [1..n -> 1..n] :
      \A k \in 1..n : f[k] = IF k = j THEN i ELSE IF k = i THEN j ELSE k
  <2>1. [k \in 1..n |-> IF k = j THEN i ELSE IF k = i THEN j ELSE k] \in [1..n -> 1..n]
    OBVIOUS
  <2> QED BY <2>1
<1>1. \A k \in 1..n : f[f[k]] = k
  OBVIOUS
<1> PICK t : t = mutate(s, i, j)
  OBVIOUS
<1>2. t \in [1..n -> S] /\ \A k \in 1..n : t[k] = s[f[k]]
  BY OrderFacts DEF mutate
<1>3. IsOrderOf(t, S)
  BY <1>1, <1>2, Rearranged
<1> QED BY <1>3

\* A set of natural numbers with 0 and the next of each has all: the smallest
\* that it lacks would follow one that it has.
LEMMA Upwards ==
  ASSUME NEW P \in SUBSET Nat, 0 \in P, \A n \in P : n + 1 \in P
  PROVE  \A n \in Nat : n \in P
<1> DEFINE Lacks == Nat \ P
<1>1. ASSUME Lacks # {} PROVE FALSE
  <2>1. PICK n \in Lacks : \A m \in Lacks : ~(<<m, n>> \in OpToRel(<, Nat))
    BY <1>1, NatLessThanWellFounded, WFMin
  <2>2. \A m \in Lacks : ~(m < n)
    BY <2>1 DEF OpToRel
  <2>3. n # 0
    OBVIOUS
  <2>4. n - 1 \in Nat /\ n - 1 < n /\ (n - 1) + 1 = n
    BY <2>3
  <2>5. n - 1 \in P
    BY <2>2, <2>4
  <2> QED BY <2>4, <2>5
<1> QED BY <1>1

\* An order with one more stop at its end.
LEMMA LongerOrder ==
  ASSUME NEW A, NEW u, IsOrderOf(u, A), NEW C, A \subseteq C,
         NEW q \in C, q \notin A, \A x \in C : x \in A \/ x = q,
         NEW m \in Nat, m = Len(u) + 1, NEW v \in [1..m -> C],
         v[m] = q, \A k \in 1..Len(u) : v[k] = u[k]
  PROVE  IsOrderOf(v, C)
<1>1. /\ u \in Seq(A) /\ Len(u) \in Nat /\ DOMAIN u = 1..Len(u)
      /\ \A k \in 1..Len(u) : u[k] \in A
      /\ \A x \in A : \E k \in 1..Len(u) : u[k] = x
      /\ \A k, l \in 1..Len(u) : u[k] = u[l] => k = l
  BY OrderFacts
<1>2. \A k \in 1..m : k \in 1..Len(u) \/ k = m
  BY <1>1
<1>3. m \in 1..m /\ \A k \in 1..Len(u) : k \in 1..m
  BY <1>1
<1>4. \A x \in C : \E k \in 1..m : v[k] = x
  BY <1>1, <1>3
<1>5. \A k, l \in 1..m : v[k] = v[l] => k = l
  BY <1>1, <1>2
<1> QED BY <1>4, <1>5, OrderOf

\* Append of a stop that the order does not have.
LEMMA Lengthened ==
  ASSUME NEW A, NEW u, IsOrderOf(u, A), NEW q, q \notin A
  PROVE  IsOrderOf(Append(u, q), A \cup {q})
<1>0. PICK C : C = A \cup {q}
  OBVIOUS
<1>1. /\ u \in Seq(A) /\ Len(u) \in Nat
      /\ A \subseteq C /\ q \in C /\ \A x \in C : x \in A \/ x = q
  BY <1>0, OrderFacts
<1>2. u \in Seq(C)
  BY <1>1, SeqMonotonic
<1>3. /\ Append(u, q) \in Seq(C) /\ Len(Append(u, q)) = Len(u) + 1
      /\ Append(u, q)[Len(u) + 1] = q
      /\ \A k \in 1..Len(u) : Append(u, q)[k] = u[k]
  BY <1>1, <1>2, AppendProperties
<1>4. Append(u, q) \in [1..(Len(u) + 1) -> C]
  BY <1>3, LenProperties
<1>5. PICK v : v = Append(u, q)
  OBVIOUS
<1>6. PICK m : m = Len(u) + 1
  OBVIOUS
<1>7. v[m] = q /\ m \in Nat /\ v \in [1..m -> C] /\ \A k \in 1..Len(u) : v[k] = u[k]
  BY <1>1, <1>3, <1>4, <1>5, <1>6
<1>8. IsOrderOf(v, C)
  BY <1>1, <1>6, <1>7, LongerOrder
<1> QED BY <1>0, <1>5, <1>8

\* The length of an order of S is the number of its members.
LEMMA OrderLength ==
  ASSUME NEW S, NEW s, IsOrderOf(s, S)
  PROVE  IsFiniteSet(S) /\ Cardinality(S) = Len(s) /\ Len(s) \in Nat
<1> PICK n : n = Len(s)
  OBVIOUS
<1>1. /\ n \in Nat /\ s \in Seq(S) /\ DOMAIN s = 1..n
      /\ \A k \in 1..n : s[k] \in S
      /\ \A x \in S : \E k \in 1..n : s[k] = x
      /\ \A k, l \in 1..n : s[k] = s[l] => k = l
  BY OrderFacts
<1>2. s \in [1..n -> S]
  BY <1>1
<1>3. s \in Bijection(1..n, S)
  BY <1>1, <1>2 DEF Bijection, Injection, Surjection, IsInjective
<1>4. ExistsBijection(1..n, S)
  BY <1>3 DEF ExistsBijection
<1>5. IsFiniteSet(1..n) /\ Cardinality(1..n) = n
  <2>1. 1 \in Int /\ n \in Int /\ (1 > n => n = 0) /\ n - 1 + 1 = n
    BY <1>1
  <2> QED BY <2>1, FS_Interval
<1>6. IsFiniteSet(S) /\ Cardinality(S) = Cardinality(1..n)
  BY <1>4, <1>5, FS_Bijection
<1> QED BY <1>1, <1>5, <1>6

\* The sequences that notUsed goes through, one for each stop of t.
Rests(s, t, a, b) == CHOOSE rest : rest = [n \in 0..Len(t) |->
  IF n = 0 THEN <<>>
  ELSE IF \E k \in a..b : s[k] = t[n] THEN rest[n - 1]
  ELSE Append(rest[n - 1], t[n])]

\* notUsed is the last of them.
LEMMA NotUsedIsRest ==
  ASSUME NEW s, NEW t, NEW a, NEW b
  PROVE  notUsed(s, t, a, b) = Rests(s, t, a, b)[Len(t)]
BY DEF notUsed, Rests

\* There are such sequences: those of the first n stops can be continued.
LEMMA RestsExist ==
  ASSUME NEW S, NEW t \in Seq(S), NEW s, NEW a, NEW b
  PROVE  LET rest == Rests(s, t, a, b)
         IN  rest = [n \in 0..Len(t) |->
               IF n = 0 THEN <<>>
               ELSE IF \E k \in a..b : s[k] = t[n] THEN rest[n - 1]
               ELSE Append(rest[n - 1], t[n])]
<1> DEFINE N == Len(t)
           Skips(n) == \E k \in a..b : s[k] = t[n]
           UpTo(n, f) == /\ f[0] = <<>>
                         /\ \A m \in 1..n : f[m] = IF Skips(m) THEN f[m - 1]
                                                   ELSE Append(f[m - 1], t[m])
           P == {n \in Nat : n <= N => \E f : f \in [0..n -> Seq(S)] /\ UpTo(n, f)}
<1>1. N \in Nat /\ \A n \in 1..N : t[n] \in S
  OBVIOUS
<1>2. 0 \in P
  <2>1. PICK f : f = [n \in 0..0 |-> <<>>]
    OBVIOUS
  <2>2. f \in [0..0 -> Seq(S)] /\ UpTo(0, f)
    BY <2>1
  <2> QED BY <2>2
<1>3. ASSUME NEW n \in P PROVE n + 1 \in P
  <2>0. n \in Nat /\ n + 1 \in Nat
    BY <1>3
  <2> SUFFICES ASSUME n + 1 <= N
               PROVE  \E g : g \in [0..(n + 1) -> Seq(S)] /\ UpTo(n + 1, g)
    BY <2>0
  <2>1. n \in Nat /\ n <= N
    BY <1>1, <2>0
  <2>2. PICK f : f \in [0..n -> Seq(S)] /\ UpTo(n, f)
    BY <2>1
  <2>3. PICK last : last = IF Skips(n + 1) THEN f[n] ELSE Append(f[n], t[n + 1])
    OBVIOUS
  <2>4. t[n + 1] \in S /\ f[n] \in Seq(S)
    BY <1>1, <2>1, <2>2
  <2>5. last \in Seq(S)
    BY <2>3, <2>4, AppendProperties
  <2>6. PICK g : g = [m \in 0..(n + 1) |-> IF m = n + 1 THEN last ELSE f[m]]
    OBVIOUS
  <2>7. /\ g[n + 1] = last /\ \A m \in 0..n : g[m] = f[m]
        /\ g \in [0..(n + 1) -> Seq(S)]
    <3>1. \A m \in 0..n : m \in 0..(n + 1) /\ m # n + 1
      BY <2>1
    <3>2. n + 1 \in 0..(n + 1)
      BY <2>1
    <3>3. \A m \in 0..(n + 1) : m = n + 1 \/ m \in 0..n
      BY <2>1
    <3> QED BY <2>2, <2>5, <2>6, <3>1, <3>2, <3>3
  <2>8. g[0] = <<>>
    <3>1. 0 \in 0..n
      BY <2>1
    <3>2. f[0] = <<>>
      BY <2>2
    <3> QED BY <2>7, <3>1, <3>2
  <2>9. ASSUME NEW m \in 1..(n + 1)
        PROVE  g[m] = IF Skips(m) THEN g[m - 1] ELSE Append(g[m - 1], t[m])
    <3>1. CASE m = n + 1
      <4>1. m - 1 = n /\ n \in 0..n
        BY <2>1, <3>1
      <4> QED BY <2>3, <2>7, <3>1, <4>1
    <3>2. CASE m # n + 1
      <4>1. m \in 1..n /\ m \in 0..n /\ m - 1 \in 0..n
        BY <2>1, <3>2
      <4>2. f[m] = IF Skips(m) THEN f[m - 1] ELSE Append(f[m - 1], t[m])
        BY <2>2, <4>1
      <4> QED BY <2>7, <4>1, <4>2
    <3> QED BY <3>1, <3>2
  <2> QED BY <2>7, <2>8, <2>9
<1>4. N \in P
  <2>1. P \in SUBSET Nat
    OBVIOUS
  <2> HIDE DEF P
  <2>2. \A n \in Nat : n \in P
    BY <1>2, <1>3, <2>1, Upwards
  <2> QED BY <1>1, <2>2
<1>5. PICK f : f \in [0..N -> Seq(S)] /\ UpTo(N, f)
  BY <1>1, <1>4
<1>6. f = [n \in 0..N |-> IF n = 0 THEN <<>> ELSE IF Skips(n) THEN f[n - 1]
                          ELSE Append(f[n - 1], t[n])]
  <2>1. \A n \in 0..N : n = 0 \/ n \in 1..N
    BY <1>1
  <2>2. \A n \in 0..N : f[n] = IF n = 0 THEN <<>> ELSE IF Skips(n) THEN f[n - 1]
                               ELSE Append(f[n - 1], t[n])
    BY <1>5, <2>1
  <2> QED BY <1>5, <2>2
<1> QED BY <1>6 DEF Rests

\* What is left of the second parent is an order of the stops that the segment
\* does not have.
Unused(S, s, a, b) == {q \in S : \A k \in a..b : s[k] # q}

LEMMA NotUsed ==
  ASSUME NEW S, NEW t, IsOrderOf(t, S), NEW s, NEW a, NEW b
  PROVE  IsOrderOf(notUsed(s, t, a, b), Unused(S, s, a, b))
<1> DEFINE N == Len(t)
           Skips(n) == \E k \in a..b : s[k] = t[n]
           A(n) == {q \in S : (\E m \in 1..n : t[m] = q) /\ \A k \in a..b : s[k] # q}
<1>1. /\ t \in Seq(S) /\ N \in Nat /\ \A n \in 1..N : t[n] \in S
      /\ \A q \in S : \E n \in 1..N : t[n] = q
      /\ \A k, l \in 1..N : t[k] = t[l] => k = l
  BY OrderFacts
<1>2. PICK rest : /\ rest = Rests(s, t, a, b)
                  /\ rest = [n \in 0..N |-> IF n = 0 THEN <<>>
                                            ELSE IF Skips(n) THEN rest[n - 1]
                                            ELSE Append(rest[n - 1], t[n])]
  BY <1>1, RestsExist
<1>3. /\ rest[0] = <<>>
      /\ \A n \in 1..N : rest[n] = IF Skips(n) THEN rest[n - 1]
                                   ELSE Append(rest[n - 1], t[n])
  <2>1. 0 \in 0..N /\ \A n \in 1..N : n \in 0..N /\ n # 0
    BY <1>1
  <2> QED BY <1>2, <2>1
<1> DEFINE P == {n \in Nat : n <= N => IsOrderOf(rest[n], A(n))}
<1>4. 0 \in P
  <2>1. A(0) = {}
    OBVIOUS
  <2>2. IsOrderOf(<<>>, {})
    BY DEF IsOrderOf, Visited
  <2> QED BY <1>3, <2>1, <2>2
<1>5. ASSUME NEW n \in P PROVE n + 1 \in P
  <2>0. n \in Nat /\ n + 1 \in Nat
    BY <1>5
  <2> SUFFICES ASSUME n + 1 <= N PROVE IsOrderOf(rest[n + 1], A(n + 1))
    BY <2>0
  <2>1. /\ n <= N /\ n + 1 \in 1..N /\ (n + 1) - 1 = n /\ n + 1 \in 1..(n + 1)
        /\ N \in Nat
    BY <1>1, <2>0
  <2>2. IsOrderOf(rest[n], A(n))
    BY <1>5, <2>1
  <2>3. \A m \in 1..(n + 1) : m \in 1..n \/ m = n + 1
    BY <2>0
  <2>4. \A m \in 1..n : m \in 1..(n + 1) /\ m \in 1..N /\ m # n + 1
    <3> HIDE DEF N, P
    <3> QED BY <2>0, <2>1
  <2>5. CASE Skips(n + 1)
    <3>1. A(n + 1) = A(n)
      BY <2>3, <2>4, <2>5
    <3>2. rest[n + 1] = rest[n]
      BY <1>3, <2>1, <2>5
    <3> QED BY <2>2, <3>1, <3>2
  <2>6. CASE ~Skips(n + 1)
    <3>1. A(n + 1) = A(n) \cup {t[n + 1]}
      BY <1>1, <2>1, <2>3, <2>4, <2>6
    <3>2. rest[n + 1] = Append(rest[n], t[n + 1])
      BY <1>3, <2>1, <2>6
    <3>3. t[n + 1] \notin A(n)
      BY <1>1, <2>1, <2>4
    <3>4. IsOrderOf(Append(rest[n], t[n + 1]), A(n) \cup {t[n + 1]})
      BY <2>2, <3>3, Lengthened
    <3> QED BY <3>1, <3>2, <3>4
  <2> QED BY <2>5, <2>6
<1>6. N \in P
  <2>1. P \in SUBSET Nat
    OBVIOUS
  <2> HIDE DEF P
  <2>2. \A n \in Nat : n \in P
    BY <1>4, <1>5, <2>1, Upwards
  <2> QED BY <1>1, <2>2
<1>7. A(N) = Unused(S, s, a, b)
  BY <1>1 DEF Unused
<1> QED BY <1>1, <1>2, <1>6, <1>7, NotUsedIsRest

\* A child of two orders is an order.
LEMMA Crossed ==
  ASSUME NEW S, NEW s, IsOrderOf(s, S), NEW t, IsOrderOf(t, S),
         NEW a \in 1..Len(s), NEW b \in a..Len(s)
  PROVE  IsOrderOf(crossover(s, t, a, b), S)
<1>1. PICK n : n = Len(s)
  OBVIOUS
<1>2. PICK u : u = notUsed(s, t, a, b)
  OBVIOUS
<1> DEFINE L == {s[k] : k \in a..b}
           U == Unused(S, s, a, b)
<1>3. /\ n \in Nat /\ \A k \in 1..n : s[k] \in S
      /\ \A q \in S : \E k \in 1..n : s[k] = q
      /\ \A k, l \in 1..n : s[k] = s[l] => k = l
      /\ a \in 1..n /\ b \in a..n
  <2>1. /\ Len(s) \in Nat /\ \A k \in 1..Len(s) : s[k] \in S
        /\ \A q \in S : \E k \in 1..Len(s) : s[k] = q
        /\ \A k, l \in 1..Len(s) : s[k] = s[l] => k = l
    BY OrderFacts
  <2> QED BY <1>1, <2>1
<1>4. IsOrderOf(u, U)
  BY <1>2, NotUsed
<1>5. \A k \in a..b : k \in 1..n
  BY <1>3
<1>6. Len(u) = n - (b - a + 1)
  <2>1. IsFiniteSet(S) /\ Cardinality(S) = n
    BY <1>1, OrderLength
  <2>2. IsFiniteSet(U) /\ Cardinality(U) = Len(u) /\ Len(u) \in Nat
    BY <1>4, OrderLength
  <2>3. IsFiniteSet(a..b) /\ Cardinality(a..b) = b - a + 1
    <3>1. a \in Int /\ b \in Int /\ ~(a > b)
      BY <1>3
    <3> QED BY <3>1, FS_Interval
  <2>4. PICK f : f = [k \in a..b |-> s[k]]
    OBVIOUS
  <2>5. f \in Bijection(a..b, L)
    BY <1>3, <1>5, <2>4 DEF Bijection, Injection, Surjection, IsInjective
  <2>6. IsFiniteSet(L) /\ Cardinality(L) = b - a + 1
    BY <2>3, <2>5, FS_Bijection DEF ExistsBijection
  <2>7. L \subseteq S /\ U = S \ L
    BY <1>3, <1>5 DEF Unused
  <2>8. Cardinality(U) = Cardinality(S) - Cardinality(S \cap L)
    BY <2>1, <2>7, FS_Difference
  <2>9. S \cap L = L
    BY <2>7
  <2> QED BY <2>1, <2>2, <2>6, <2>8, <2>9, <1>3
<1>7. /\ \A k \in 1..(n - (b - a + 1)) : u[k] \in U
      /\ \A q \in U : \E k \in 1..(n - (b - a + 1)) : u[k] = q
      /\ \A k, l \in 1..(n - (b - a + 1)) : u[k] = u[l] => k = l
  <2>1. /\ \A k \in 1..Len(u) : u[k] \in U
        /\ \A q \in U : \E k \in 1..Len(u) : u[k] = q
        /\ \A k, l \in 1..Len(u) : u[k] = u[l] => k = l
    <3> HIDE DEF U
    <3> QED BY <1>4, OrderFacts
  <2> QED BY <1>6, <2>1
<1>8. PICK c : c = [k \in 1..n |-> IF k \in a..b THEN s[k]
                    ELSE IF k < a THEN u[k] ELSE u[k - (b - a + 1)]]
  OBVIOUS
<1>9. c = crossover(s, t, a, b)
  BY <1>1, <1>2, <1>8 DEF crossover
<1>10. U \subseteq S /\ \A q \in U : \A k \in a..b : s[k] # q
  BY DEF Unused
<1>11. \A q \in S : q \in U \/ \E k \in a..b : s[k] = q
  BY DEF Unused
<1> DEFINE place(k) == IF k < a THEN k ELSE k - (b - a + 1)
<1>12. \A k \in 1..n : k \notin a..b =>
         place(k) \in 1..(n - (b - a + 1)) /\ c[k] = u[place(k)] /\ c[k] \in U
  <2>1. \A k \in 1..n : k \notin a..b => place(k) \in 1..(n - (b - a + 1))
    BY <1>3
  <2>2. \A k \in 1..n : k \notin a..b => c[k] = u[place(k)]
    BY <1>8
  <2> QED BY <1>7, <2>1, <2>2
<1>13. \A k \in 1..n : k \in a..b => c[k] = s[k]
  BY <1>8
<1>14. c \in [1..n -> S]
  <2>1. \A k \in 1..n : c[k] \in S
    BY <1>3, <1>10, <1>12, <1>13
  <2> QED BY <1>8, <2>1
<1>15. \A q \in S : \E k \in 1..n : c[k] = q
  <2> SUFFICES ASSUME NEW q \in S PROVE \E k \in 1..n : c[k] = q
    OBVIOUS
  <2>1. CASE \E k \in a..b : s[k] = q
    BY <1>5, <1>13, <2>1
  <2>2. CASE q \in U
    <3>1. PICK l \in 1..(n - (b - a + 1)) : u[l] = q
      BY <1>7, <2>2
    <3>2. PICK k \in 1..n : k \notin a..b /\ place(k) = l
      <4>1. CASE l < a
        <5>1. l \in 1..n /\ l \notin a..b /\ place(l) = l
          BY <1>3, <4>1
        <5> QED BY <5>1
      <4>2. CASE ~(l < a)
        <5>1. /\ l + (b - a + 1) \in 1..n /\ l + (b - a + 1) \notin a..b
              /\ place(l + (b - a + 1)) = l
          BY <1>3, <4>2
        <5> QED BY <5>1
      <4> QED BY <4>1, <4>2
    <3> QED BY <1>12, <3>1, <3>2
  <2> QED BY <1>11, <2>1, <2>2
<1>16. \A k, l \in 1..n : c[k] = c[l] => k = l
  <2> SUFFICES ASSUME NEW k \in 1..n, NEW l \in 1..n, c[k] = c[l] PROVE k = l
    OBVIOUS
  <2>1. CASE k \in a..b /\ l \in a..b
    BY <1>3, <1>13, <2>1
  <2>2. CASE k \notin a..b /\ l \notin a..b
    <3>1. place(k) = place(l)
      <4> HIDE DEF place
      <4> QED BY <1>7, <1>12, <2>2
    <3> QED BY <1>3, <2>2, <3>1
  <2>3. CASE k \in a..b /\ l \notin a..b
    BY <1>10, <1>12, <1>13, <2>3
  <2>4. CASE k \notin a..b /\ l \in a..b
    BY <1>10, <1>12, <1>13, <2>4
  <2> QED BY <2>1, <2>2, <2>3, <2>4
<1>17. IsOrderOf(c, S)
  <2>1. n \in Nat
    BY <1>3
  <2> QED BY <1>14, <1>15, <1>16, <2>1, OrderOf
<1> QED BY <1>9, <1>17

-----------------------------------------------------------------------------
(* The invariant.                                                          *)

Table == [Places \X Places -> Nat]
Runs == [pc : {"idle", "nearest", "2opt", "shuffle", "breed", "child", "plan"},
         algorithm : Algorithms \cup {NoAlgorithm}, asked : Asked \cup {<<>>},
         route : Seq(Pickups), nearest : Seq(Pickups), i : Nat, j : Nat,
         improved : BOOLEAN, gen : Nat]
Planned == [algorithm : Algorithms \cup {NoAlgorithm}, stops : Seq(Pickups)]
RouteTypes == dist \in Table /\ cache \in [Keys -> Planned] /\ run \in Runs

FirstNearest(d, s) ==
  \A k \in 1..Len(s) : d[<<Warehouse, s[1]>>] <= d[<<Warehouse, s[k]>>]
NoneCloser(d, s, k, l) ==
  d[<<s[l], After(s, l)>>] <= d[<<s[k + 1], After(s, l)>>]
Settled(d, s) ==
  /\ FirstNearest(d, s)
  /\ \A k \in 1..Len(s) : \A l \in (k + 2)..Len(s) : NoneCloser(d, s, k, l)

\* A route that is kept or returned.
Good(d, route, S) ==
  /\ IsOrderOf(route.stops, S)
  /\ route.algorithm = "tsp_2opt" => Settled(d, route.stops)

\* The nearest-neighbour route is an order of the stops it has; its first is
\* nearest to the warehouse.
Grows(d, r) ==
  /\ r.i = 1 /\ r.j = 3 /\ r.improved = FALSE
  /\ IsOrderOf(r.route, Visited(r.route))
  /\ Visited(r.route) \subseteq Visited(r.asked)
  /\ Len(r.route) > 0 => \A q \in Visited(r.asked) :
                           d[<<Warehouse, r.route[1]>>] <= d[<<Warehouse, q>>]

\* While a round of 2-opt has changed nothing, no pair that it tried has a
\* stop closer to the one that follows.
Tried(i, j, k, l) == k < i \/ (k = i /\ l < j)
InLoops(n, i, j) ==
  \/ n < 3 /\ i = 1 /\ j = 3
  \/ n >= 3 /\ i \in 1..(n - 2) /\ j \in (i + 2)..n
  \/ n >= 3 /\ i = n
TriedAll(d, s, i, j) ==
  \A k \in 1..Len(s) : \A l \in (k + 2)..Len(s) :
    Tried(i, j, k, l) => NoneCloser(d, s, k, l)
Improves(d, r) ==
  /\ r.algorithm = "tsp_2opt" /\ FirstNearest(d, r.route)
  /\ InLoops(Len(r.route), r.i, r.j)
  /\ r.improved \/ TriedAll(d, r.route, r.i, r.j)

WellPlanned(d, r) ==
  /\ r.pc # "idle" => r.asked \in Asked
  /\ r.pc \in {"2opt", "breed", "child", "plan"} =>
       IsOrderOf(r.route, Visited(r.asked))
  /\ r.pc = "nearest" => Grows(d, r)
  /\ r.pc = "2opt" => Improves(d, r)
  /\ r.pc \in {"shuffle", "breed", "child"} => r.algorithm = "genetic"
  /\ (r.pc = "plan" /\ r.algorithm = "tsp_2opt") => Settled(d, r.route)
Kept(d, c) == \A S \in Keys : c[S] = NoRoute \/ Good(d, c[S], S)
Answered(d, a) ==
  a = NoAnswer \/ Good(d, a.route, Visited(a.asked))
RouteInv ==
  /\ RouteTypes /\ WellPlanned(dist, run) /\ Kept(dist, cache)
  /\ Answered(dist, answer)

\* The invariant holds before the first request.
LEMMA RouteBegins ==
  ASSUME RouteInit PROVE RouteInv
<1>1. dist \in Table
  BY DistancesAssumption DEF RouteInit, Table
<1>2. NoRoute \in Planned
  BY DEF NoRoute, Planned
<1>3. cache \in [Keys -> Planned] /\ Kept(dist, cache)
  BY <1>2 DEF RouteInit, Kept
<1>4. run \in Runs /\ run.pc = "idle"
  BY DEF RouteInit, NoRun, Runs
<1>5. WellPlanned(dist, run)
  BY <1>4 DEF WellPlanned
<1>6. Answered(dist, answer)
  BY DEF RouteInit, Answered
<1> QED BY <1>1, <1>3, <1>4, <1>5, <1>6 DEF RouteInv, RouteTypes

\* Distances between places are numbers.
LEMMA DistanceIsNat ==
  ASSUME NEW d \in Table, NEW p \in Places, NEW q \in Places
  PROVE  d[<<p, q>>] \in Nat
<1>1. <<p, q>> \in Places \X Places
  OBVIOUS
<1> QED BY <1>1 DEF Table

\* The stops of a request are places, and a key of the cache.
LEMMA StopsArePlaces ==
  ASSUME NEW asked \in Asked
  PROVE  /\ Visited(asked) \subseteq Pickups /\ Visited(asked) \in Keys
         /\ Pickups \subseteq Places /\ Warehouse \in Places
         /\ Delivery \in Places
BY AskedAssumption DEF Keys, Places

-----------------------------------------------------------------------------
(* The pairs of 2-opt.                                                     *)

\* What calculateSegmentDistance tells of a reversal: the leg into i is the same
\* before and after, so it compares the legs out of j alone.
LEMMA LegsCompared ==
  ASSUME NEW S, S \subseteq Pickups, NEW s, IsOrderOf(s, S), dist \in Table,
         NEW i \in 1..(Len(s) - 2), NEW j \in (i + 2)..Len(s)
  PROVE  LET next == After(s, j)
         IN  /\ dist[<<s[i + 1], next>>] \in Nat /\ dist[<<s[j], next>>] \in Nat
             /\ Shorter(twoOptSwap(s, i, j), s, i, j)
                <=> dist[<<s[i + 1], next>>] < dist[<<s[j], next>>]
<1>1. PICK t : t = twoOptSwap(s, i, j)
  OBVIOUS
<1>2. Len(s) \in Nat /\ \A k \in 1..Len(s) : s[k] \in Pickups
  BY OrderFacts
<1>3. /\ i \in 1..Len(s) /\ j \in 1..Len(s) /\ i + 1 \in 1..Len(s)
      /\ i \notin (i + 1)..j /\ j \in (i + 1)..j /\ i + 1 + j - j = i + 1
      /\ i + 1 \in (i + 1)..j /\ i + 1 + j - (i + 1) = j
  BY <1>2
<1>4. t[i] = s[i] /\ t[j] = s[i + 1] /\ Len(t) = Len(s)
  BY <1>1, <1>2, <1>3 DEF twoOptSwap
<1>5. i # 1 => t[i - 1] = s[i - 1] /\ i - 1 \in 1..Len(s)
  <2> SUFFICES ASSUME i # 1 PROVE t[i - 1] = s[i - 1] /\ i - 1 \in 1..Len(s)
    OBVIOUS
  <2>1. i - 1 \in 1..Len(s) /\ i - 1 \notin (i + 1)..j
    BY <1>2, <1>3
  <2> QED BY <1>1, <2>1 DEF twoOptSwap
<1>6. j # Len(s) => t[j + 1] = s[j + 1] /\ j + 1 \in 1..Len(s)
  <2> SUFFICES ASSUME j # Len(s) PROVE t[j + 1] = s[j + 1] /\ j + 1 \in 1..Len(s)
    OBVIOUS
  <2>1. j + 1 \in 1..Len(s) /\ j + 1 \notin (i + 1)..j
    BY <1>2, <1>3
  <2> QED BY <1>1, <2>1 DEF twoOptSwap
<1>7. PICK from : from = IF i = 1 THEN Warehouse ELSE s[i - 1]
  OBVIOUS
<1>8. PICK next : next = After(s, j)
  OBVIOUS
<1>9. /\ calculateSegmentDistance(s, i, j)
           = dist[<<from, s[i]>>] + dist[<<s[j], next>>]
      /\ calculateSegmentDistance(t, i, j)
           = dist[<<from, s[i]>>] + dist[<<s[i + 1], next>>]
  BY <1>4, <1>5, <1>6, <1>7, <1>8
     DEF calculateSegmentDistance, haversineDistance, After
<1>10. /\ dist[<<from, s[i]>>] \in Nat /\ dist[<<s[j], next>>] \in Nat
       /\ dist[<<s[i + 1], next>>] \in Nat
  <2>1. /\ Pickups \subseteq Places /\ Warehouse \in Places
        /\ Delivery \in Places
    BY DEF Places
  <2>2. next \in Places
    BY <1>2, <1>6, <1>8, <2>1 DEF After
  <2>3. from \in Places
    BY <1>2, <1>5, <1>7, <2>1
  <2>4. s[i] \in Places /\ s[j] \in Places /\ s[i + 1] \in Places
    BY <1>2, <1>3, <2>1
  <2> QED BY <2>2, <2>3, <2>4, DistanceIsNat
<1>11. Shorter(t, s, i, j)
       <=> dist[<<from, s[i]>>] + dist[<<s[i + 1], next>>]
             < dist[<<from, s[i]>>] + dist[<<s[j], next>>]
  BY <1>9 DEF Shorter
<1>12. Shorter(t, s, i, j) <=> dist[<<s[i + 1], next>>] < dist[<<s[j], next>>]
  BY <1>10, <1>11
<1> QED BY <1>1, <1>8, <1>10, <1>12

\* A reversal that is not shorter has no earlier stop closer to the one that
\* follows.
LEMMA NoShorter ==
  ASSUME NEW S, S \subseteq Pickups, NEW s, IsOrderOf(s, S), dist \in Table,
         NEW i \in 1..(Len(s) - 2), NEW j \in (i + 2)..Len(s),
         ~Shorter(twoOptSwap(s, i, j), s, i, j)
  PROVE  NoneCloser(dist, s, i, j)
BY LegsCompared DEF NoneCloser

\* From s to t one leg out of a stop is shorter, and those of the stops after it
\* are the same.
Descends(d, s, t) == \E j \in 1..Len(s) :
  /\ \A k \in (j + 1)..Len(s) : t[k] = s[k]
  /\ d[<<t[j], After(s, j)>>] < d[<<s[j], After(s, j)>>]

\* A shorter reversal descends at j.
LEMMA ShorterDescends ==
  ASSUME NEW S, S \subseteq Pickups, NEW s, IsOrderOf(s, S), dist \in Table,
         NEW i \in 1..(Len(s) - 2), NEW j \in (i + 2)..Len(s),
         Shorter(twoOptSwap(s, i, j), s, i, j)
  PROVE  Descends(dist, s, twoOptSwap(s, i, j))
<1>1. PICK t : t = twoOptSwap(s, i, j)
  OBVIOUS
<1>2. Len(s) \in Nat
  BY OrderFacts
<1>3. j \in 1..Len(s) /\ j \in (i + 1)..j /\ i + 1 + j - j = i + 1
  BY <1>2
<1>4. t[j] = s[i + 1]
  BY <1>1, <1>3 DEF twoOptSwap
<1>5. \A k \in (j + 1)..Len(s) : t[k] = s[k]
  <2> TAKE k \in (j + 1)..Len(s)
  <2>1. k \in 1..Len(s) /\ k \notin (i + 1)..j
    BY <1>2, <1>3
  <2> QED BY <1>1, <2>1 DEF twoOptSwap
<1>6. dist[<<s[i + 1], After(s, j)>>] < dist[<<s[j], After(s, j)>>]
  BY LegsCompared
<1>7. Descends(dist, s, t)
  BY <1>3, <1>4, <1>5, <1>6 DEF Descends
<1> QED BY <1>1, <1>7

\* A reversal leaves the first stop where it is.
LEMMA FirstStays ==
  ASSUME NEW d, NEW S, NEW s, IsOrderOf(s, S), FirstNearest(d, s),
         NEW i \in 1..Len(s), NEW j \in 1..Len(s)
  PROVE  FirstNearest(d, twoOptSwap(s, i, j))
<1>1. PICK t : t = twoOptSwap(s, i, j)
  OBVIOUS
<1>2. Len(s) \in Nat
  BY OrderFacts
<1>3. Len(t) = Len(s)
  BY <1>1, <1>2 DEF twoOptSwap
<1>4. t[1] = s[1]
  <2>1. 1 \in 1..Len(s) /\ 1 \notin (i + 1)..j
    BY <1>2
  <2> QED BY <1>1, <2>1 DEF twoOptSwap
<1>5. \A k \in 1..Len(s) : \E l \in 1..Len(s) : t[k] = s[l]
  <2> TAKE k \in 1..Len(s)
  <2>1. CASE k \in (i + 1)..j
    <3>1. i + 1 + j - k \in 1..Len(s) /\ t[k] = s[i + 1 + j - k]
      BY <1>1, <1>2, <2>1 DEF twoOptSwap
    <3> QED BY <3>1
  <2>2. CASE k \notin (i + 1)..j
    BY <1>1, <2>2 DEF twoOptSwap
  <2> QED BY <2>1, <2>2
<1>6. FirstNearest(d, t)
  BY <1>3, <1>4, <1>5 DEF FirstNearest
<1> QED BY <1>1, <1>6

\* The loops come to the pairs in order, and leave none out.
LEMMA NextPair ==
  ASSUME NEW n \in Nat, NEW i \in Nat, NEW j \in Nat, InLoops(n, i, j), i < n, j <= n,
         NEW next, next = IF j < n THEN [i |-> i, j |-> j + 1]
                          ELSE IF i + 3 <= n THEN [i |-> i + 1, j |-> i + 3]
                          ELSE [i |-> n, j |-> n]
  PROVE  /\ i \in 1..(n - 2) /\ j \in (i + 2)..n
         /\ next.i \in Nat /\ next.j \in Nat /\ InLoops(n, next.i, next.j)
         /\ \A k \in 1..n : \A l \in (k + 2)..n :
              Tried(next.i, next.j, k, l) => Tried(i, j, k, l) \/ (k = i /\ l = j)
<1>1. i \in 1..(n - 2) /\ j \in (i + 2)..n
  BY DEF InLoops
<1>2. CASE j < n
  BY <1>1, <1>2 DEF InLoops, Tried
<1>3. CASE ~(j < n) /\ i + 3 <= n
  BY <1>1, <1>3 DEF InLoops, Tried
<1>4. CASE ~(j < n) /\ ~(i + 3 <= n)
  BY <1>1, <1>4 DEF InLoops, Tried
<1> QED BY <1>2, <1>3, <1>4

-----------------------------------------------------------------------------
(* The steps.                                                              *)

\* Most of them change the request alone.
LEMMA RunMoves ==
  ASSUME RouteInv, UNCHANGED <<dist, cache, answer>>, run' \in Runs,
         WellPlanned(dist, run')
  PROVE  RouteInv'
BY DEF RouteInv, RouteTypes, Kept, Answered

LEMMA FromCache ==
  ASSUME RouteInv, NEW algorithm \in Algorithms, NEW asked \in Asked,
         fromCache(algorithm, asked)
  PROVE  RouteInv'
<1>1. Visited(asked) \in Keys
  BY StopsArePlaces
<1>2. Good(dist, cache[Visited(asked)], Visited(asked))
  BY <1>1 DEF RouteInv, Kept, fromCache
<1>3. /\ answer'.asked = asked /\ answer'.route = cache[Visited(asked)]
      /\ UNCHANGED <<dist, cache, run>>
  BY DEF fromCache
<1>4. Answered(dist, answer')
  BY <1>2, <1>3 DEF Answered
<1> QED BY <1>3, <1>4 DEF RouteInv, RouteTypes

LEMMA OptimizeRoute ==
  ASSUME RouteInv, NEW algorithm \in Algorithms, NEW asked \in Asked,
         optimizeRoute(algorithm, asked)
  PROVE  RouteInv'
<1>1. PICK pc \in {"shuffle", "nearest"} :
        /\ pc = "shuffle" => algorithm = "genetic"
        /\ run' = [NoRun EXCEPT !.pc = pc, !.algorithm = algorithm, !.asked = asked]
  BY DEF optimizeRoute
<1>2. run' = [pc |-> pc, algorithm |-> algorithm, asked |-> asked, route |-> <<>>,
              nearest |-> <<>>, i |-> 1, j |-> 3, improved |-> FALSE, gen |-> 0]
  BY <1>1 DEF NoRun
<1>3. run' \in Runs
  BY <1>2 DEF Runs
<1>4. Grows(dist, run')
  <2>1. /\ run'.i = 1 /\ run'.j = 3 /\ run'.improved = FALSE /\ run'.route = <<>>
    BY <1>2
  <2>2. /\ Visited(run'.route) \subseteq Visited(run'.asked)
        /\ Len(run'.route) = 0
    BY <2>1 DEF Visited
  <2>3. IsOrderOf(run'.route, Visited(run'.route))
    BY <2>1 DEF IsOrderOf, Visited
  <2> QED BY <2>1, <2>2, <2>3 DEF Grows
<1>5. WellPlanned(dist, run')
  BY <1>1, <1>2, <1>4 DEF WellPlanned
<1> QED BY <1>3, <1>5, RunMoves DEF optimizeRoute

LEMMA Expires ==
  ASSUME RouteInv, NEW stops \in Keys, expires(stops)
  PROVE  RouteInv'
<1>1. NoRoute \in Planned
  BY DEF NoRoute, Planned
<1>2. cache' \in [Keys -> Planned]
  BY <1>1 DEF RouteInv, RouteTypes, expires
<1>3. \A S \in Keys : cache'[S] = NoRoute \/ cache'[S] = cache[S]
  BY DEF RouteInv, RouteTypes, expires
<1>4. Kept(dist, cache')
  BY <1>3 DEF RouteInv, Kept
<1> QED BY <1>2, <1>4 DEF RouteInv, RouteTypes, Answered, expires

LEMMA NearestNeighbor ==
  ASSUME RouteInv, nearestNeighbor
  PROVE  RouteInv'
<1>1. PICK p \in Remaining :
        Nearest(p) /\ run' = [run EXCEPT !.route = Append(run.route, p)]
  BY DEF nearestNeighbor
<1>2. /\ run.pc = "nearest" /\ run \in Runs /\ run.asked \in Asked /\ Grows(dist, run)
      /\ dist \in Table
  BY DEF RouteInv, RouteTypes, WellPlanned, nearestNeighbor
<1>3. PICK s : s = run.route
  OBVIOUS
<1>4. /\ p \in Visited(run.asked) /\ p \notin Visited(s)
      /\ p \in Pickups
  BY <1>1, <1>2, <1>3, StopsArePlaces DEF Remaining
<1>5. /\ IsOrderOf(s, Visited(s)) /\ s \in Seq(Pickups) /\ Len(s) \in Nat
      /\ Visited(s) \subseteq Visited(run.asked)
  BY <1>2, <1>3 DEF Grows, Runs
<1>6. PICK t : t = Append(s, p)
  OBVIOUS
<1>7. IsOrderOf(t, Visited(s) \cup {p})
  BY <1>4, <1>5, <1>6, Lengthened
<1>8. Visited(t) = Visited(s) \cup {p}
  BY <1>7 DEF IsOrderOf
<1>9. /\ t \in Seq(Pickups) /\ t[Len(s) + 1] = p
      /\ \A k \in 1..Len(s) : t[k] = s[k]
  BY <1>4, <1>5, <1>6, AppendProperties
<1>10. /\ run'.pc = "nearest" /\ run'.route = t /\ run'.asked = run.asked
       /\ run'.i = run.i /\ run'.j = run.j /\ run'.improved = run.improved
       /\ run' \in Runs
  BY <1>1, <1>2, <1>3, <1>6, <1>9 DEF Runs
<1>11. ASSUME NEW q \in Visited(run.asked)
       PROVE  dist[<<Warehouse, t[1]>>] <= dist[<<Warehouse, q>>]
  <2>1. CASE Len(s) = 0
    <3>1. Visited(s) = {}
      BY <1>5, <2>1 DEF Visited
    <3>2. q \in Remaining /\ Last = Warehouse /\ t[1] = p
      BY <1>3, <1>9, <2>1, <3>1 DEF Remaining, Last, Length
    <3>3. \/ dist[<<Warehouse, p>>] < dist[<<Warehouse, q>>]
          \/ dist[<<Warehouse, p>>] = dist[<<Warehouse, q>>]
      BY <1>1, <3>2 DEF Nearest, haversineDistance
    <3>4. /\ p \in Places /\ q \in Places /\ Warehouse \in Places
      BY <1>2, <1>4, StopsArePlaces
    <3>5. dist[<<Warehouse, p>>] \in Nat /\ dist[<<Warehouse, q>>] \in Nat
      BY <1>2, <3>4, DistanceIsNat
    <3> QED BY <3>2, <3>3, <3>5
  <2>2. CASE Len(s) > 0
    <3>1. t[1] = s[1]
      BY <1>5, <1>9, <2>2
    <3> QED BY <1>2, <1>3, <2>2, <3>1 DEF Grows
  <2> QED BY <1>5, <2>1, <2>2
<1>12. Grows(dist, run')
  BY <1>2, <1>4, <1>5, <1>7, <1>8, <1>10, <1>11 DEF Grows
<1>13. WellPlanned(dist, run')
  BY <1>2, <1>10, <1>12 DEF WellPlanned
<1> QED BY <1>10, <1>13, RunMoves DEF nearestNeighbor

LEMMA NearestDone ==
  ASSUME RouteInv, nearestDone
  PROVE  RouteInv'
<1>1. /\ run.pc = "nearest" /\ run \in Runs /\ run.asked \in Asked /\ Grows(dist, run)
      /\ Remaining = {}
  BY DEF RouteInv, RouteTypes, WellPlanned, nearestDone
<1>2. PICK s : s = run.route
  OBVIOUS
<1>3. PICK pc \in {"2opt", "plan"} :
        /\ pc = "2opt" <=> run.algorithm = "tsp_2opt"
        /\ run' = [run EXCEPT !.nearest = run.route, !.pc = pc]
  BY DEF nearestDone
<1>4. /\ run'.pc = pc /\ run'.route = s /\ run'.asked = run.asked
      /\ run'.i = 1 /\ run'.j = 3 /\ run'.improved = FALSE
      /\ run'.algorithm = run.algorithm /\ run' \in Runs
  BY <1>1, <1>2, <1>3 DEF Runs, Grows
<1>5. IsOrderOf(s, Visited(run.asked))
  <2>1. Visited(s) = Visited(run.asked)
    BY <1>1, <1>2 DEF Grows, Remaining
  <2> QED BY <1>1, <1>2, <2>1 DEF Grows
<1>6. FirstNearest(dist, s)
  <2>1. Len(s) \in Nat /\ \A k \in 1..Len(s) : s[k] \in Visited(run.asked)
    BY <1>5, OrderFacts
  <2> SUFFICES ASSUME NEW k \in 1..Len(s)
               PROVE  dist[<<Warehouse, s[1]>>] <= dist[<<Warehouse, s[k]>>]
    BY DEF FirstNearest
  <2>2. Len(s) > 0 /\ s[k] \in Visited(run.asked)
    BY <2>1
  <2> QED BY <1>1, <1>2, <2>2 DEF Grows
<1>7. Len(s) \in Nat
  BY <1>5, OrderFacts
<1>8. ASSUME pc = "2opt" PROVE Improves(dist, run')
  <2>1. InLoops(Len(s), 1, 3)
    BY <1>7 DEF InLoops
  <2>2. TriedAll(dist, s, 1, 3)
    BY <1>7 DEF TriedAll, Tried
  <2> QED BY <1>3, <1>4, <1>6, <1>8, <2>1, <2>2 DEF Improves
<1>9. WellPlanned(dist, run')
  BY <1>1, <1>3, <1>4, <1>5, <1>8 DEF WellPlanned
<1> QED BY <1>4, <1>9, RunMoves DEF nearestDone

LEMMA TwoOptTry ==
  ASSUME RouteInv, twoOptTry
  PROVE  RouteInv'
<1>1. /\ run.pc = "2opt" /\ run \in Runs /\ run.asked \in Asked /\ dist \in Table
      /\ Improves(dist, run)
      /\ IsOrderOf(run.route, Visited(run.asked))
  BY DEF RouteInv, RouteTypes, WellPlanned, twoOptTry
<1>2. PICK s : s = run.route
  OBVIOUS
<1>3. PICK i \in Nat, j \in Nat : i = run.i /\ j = run.j
  BY <1>1 DEF Runs
<1>4. PICK t : t = twoOptSwap(s, i, j)
  OBVIOUS
<1>5. PICK next : next = AfterPair(i, j)
  OBVIOUS
<1>6. PICK better \in BOOLEAN : better <=> Shorter(t, s, i, j)
  <2>1. CASE Shorter(t, s, i, j)
    BY <2>1
  <2>2. CASE ~Shorter(t, s, i, j)
    BY <2>2
  <2> QED BY <2>1, <2>2
<1>7. /\ i < Len(s) /\ j <= Len(s)
      /\ run' = [run EXCEPT !.route = IF better THEN t ELSE s,
                   !.improved = run.improved \/ better,
                   !.i = next.i, !.j = next.j]
  BY <1>2, <1>3, <1>4, <1>5, <1>6 DEF twoOptTry, Length
<1>8. /\ IsOrderOf(s, Visited(run.asked)) /\ Len(s) \in Nat
      /\ InLoops(Len(s), i, j) /\ FirstNearest(dist, s)
      /\ run.improved \/ TriedAll(dist, s, i, j)
      /\ run.algorithm = "tsp_2opt"
  BY <1>1, <1>2, <1>3, OrderFacts DEF Improves
<1>9. next = IF j < Len(s) THEN [i |-> i, j |-> j + 1]
             ELSE IF i + 3 <= Len(s) THEN [i |-> i + 1, j |-> i + 3]
             ELSE [i |-> Len(s), j |-> Len(s)]
  BY <1>2, <1>5 DEF AfterPair, Length
<1>10. /\ i \in 1..(Len(s) - 2) /\ j \in (i + 2)..Len(s)
       /\ next.i \in Nat /\ next.j \in Nat /\ InLoops(Len(s), next.i, next.j)
       /\ \A k \in 1..Len(s) : \A l \in (k + 2)..Len(s) :
            Tried(next.i, next.j, k, l) => Tried(i, j, k, l) \/ (k = i /\ l = j)
  BY <1>7, <1>8, <1>9, NextPair
<1>11. i \in 1..Len(s) /\ j \in 1..Len(s)
  BY <1>8, <1>10
<1>12. PICK u : u = IF better THEN t ELSE s
  OBVIOUS
<1>13. /\ IsOrderOf(u, Visited(run.asked)) /\ FirstNearest(dist, u)
       /\ Len(u) = Len(s)
  <2>1. IsOrderOf(t, Visited(run.asked))
    BY <1>4, <1>8, <1>11, Reversed
  <2>2. FirstNearest(dist, t)
    BY <1>4, <1>8, <1>11, FirstStays
  <2>3. Len(t) = Len(s)
    BY <1>4, <1>8 DEF twoOptSwap
  <2> QED BY <1>8, <1>12, <2>1, <2>2, <2>3
<1>14. u \in Seq(Pickups)
  <2>1. Visited(run.asked) \subseteq Pickups
    BY <1>1, StopsArePlaces
  <2>2. u \in Seq(Visited(run.asked))
    BY <1>13, OrderFacts
  <2> QED BY <2>1, <2>2, SeqMonotonic
<1>15. /\ run'.pc = "2opt" /\ run'.route = u /\ run'.asked = run.asked
       /\ run'.i = next.i /\ run'.j = next.j /\ run'.algorithm = run.algorithm
       /\ run'.improved = (run.improved \/ better) /\ run' \in Runs
  BY <1>1, <1>2, <1>3, <1>7, <1>10, <1>12, <1>14 DEF Runs
<1>16. run'.improved \/ TriedAll(dist, u, next.i, next.j)
  <2> SUFFICES ASSUME ~run.improved, ~better PROVE TriedAll(dist, s, next.i, next.j)
    BY <1>12, <1>15
  <2>1. Visited(run.asked) \subseteq Pickups
    BY <1>1, StopsArePlaces
  <2>2. NoneCloser(dist, s, i, j)
    BY <1>1, <1>4, <1>6, <1>8, <1>10, <2>1, NoShorter
  <2>3. TriedAll(dist, s, i, j)
    BY <1>8
  <2> QED BY <1>10, <2>2, <2>3 DEF TriedAll
<1>17. Improves(dist, run')
  BY <1>8, <1>10, <1>13, <1>15, <1>16 DEF Improves
<1>18. WellPlanned(dist, run')
  BY <1>1, <1>13, <1>15, <1>17 DEF WellPlanned
<1> QED BY <1>15, <1>18, RunMoves DEF twoOptTry

LEMMA TwoOptRound ==
  ASSUME RouteInv, twoOptRound
  PROVE  RouteInv'
<1>1. /\ run.pc = "2opt" /\ run \in Runs /\ run.asked \in Asked
      /\ Improves(dist, run)
      /\ IsOrderOf(run.route, Visited(run.asked))
  BY DEF RouteInv, RouteTypes, WellPlanned, twoOptRound
<1>2. Len(run.route) \in Nat
  BY <1>1, OrderFacts
<1>3. CASE run.improved
  <2>1. run' = [run EXCEPT !.i = 1, !.j = 3, !.improved = FALSE]
    BY <1>3 DEF twoOptRound
  <2>2. /\ run'.pc = "2opt" /\ run'.route = run.route /\ run'.asked = run.asked
        /\ run'.i = 1 /\ run'.j = 3 /\ run'.algorithm = run.algorithm
        /\ run' \in Runs
    BY <1>1, <2>1 DEF Runs
  <2>3. InLoops(Len(run.route), 1, 3)
    BY <1>2 DEF InLoops
  <2>4. TriedAll(dist, run.route, 1, 3)
    BY <1>2 DEF TriedAll, Tried
  <2>5. Improves(dist, run')
    BY <1>1, <2>2, <2>3, <2>4 DEF Improves
  <2>6. WellPlanned(dist, run')
    BY <1>1, <2>2, <2>5 DEF WellPlanned
  <2> QED BY <2>2, <2>6, RunMoves DEF twoOptRound
<1>4. CASE ~run.improved
  <2>1. run' = [run EXCEPT !.pc = "plan"]
    BY <1>4 DEF twoOptRound
  <2>2. /\ run'.pc = "plan" /\ run'.route = run.route /\ run'.asked = run.asked
        /\ run' \in Runs
    BY <1>1, <2>1 DEF Runs
  <2>3. TriedAll(dist, run.route, run.i, run.j) /\ FirstNearest(dist, run.route)
    BY <1>1, <1>4 DEF Improves
  <2>4. /\ InLoops(Len(run.route), run.i, run.j)
        /\ run.i >= Len(run.route) \/ run.j > Len(run.route)
    BY <1>1 DEF Improves, twoOptRound, Length
  <2>5. \A k \in 1..Len(run.route) : \A l \in (k + 2)..Len(run.route) :
          Tried(run.i, run.j, k, l)
    BY <1>2, <2>4 DEF InLoops, Tried
  <2>6. Settled(dist, run.route)
    BY <2>3, <2>5 DEF TriedAll, Settled
  <2>7. WellPlanned(dist, run')
    BY <1>1, <2>2, <2>6 DEF WellPlanned
  <2> QED BY <2>2, <2>7, RunMoves DEF twoOptRound
<1> QED BY <1>3, <1>4

\* The parents of the genetic search are orders of the stops.
LEMMA ParentsAreOrders ==
  ASSUME run.asked \in Asked, NEW s \in OrdersAsked
  PROVE  /\ IsOrderOf(s, Visited(run.asked))
         /\ s \in Seq(Pickups)
<1>1. /\ Visited(run.asked) \in Keys
      /\ Visited(run.asked) \subseteq Pickups
  BY StopsArePlaces
<1>2. IsOrderOf(s, Visited(run.asked))
  BY <1>1 DEF OrdersAsked, Orders
<1> QED BY <1>1, <1>2, OrderFacts, SeqMonotonic

\* What the genetic search has is an order of the stops, whatever it does
\* next with it.
LEMMA Bred ==
  ASSUME RouteInv, NEW s, NEW pc \in {"breed", "child", "plan"},
         NEW gen \in Nat, run.asked \in Asked, run.algorithm = "genetic",
         IsOrderOf(s, Visited(run.asked)),
         run' = [run EXCEPT !.pc = pc, !.gen = gen, !.route = s],
         UNCHANGED <<dist, cache, answer>>
  PROVE  RouteInv'
<1>1. s \in Seq(Pickups)
  <2>1. Visited(run.asked) \subseteq Pickups
    BY StopsArePlaces
  <2>2. s \in Seq(Visited(run.asked))
    BY OrderFacts
  <2> QED BY <2>1, <2>2, SeqMonotonic
<1>2. run \in Runs
  BY DEF RouteInv, RouteTypes
<1>3. /\ run'.pc = pc /\ run'.route = s /\ run'.asked = run.asked
      /\ run'.algorithm = run.algorithm /\ run' \in Runs
  BY <1>1, <1>2 DEF Runs
<1>4. WellPlanned(dist, run')
  BY <1>3 DEF WellPlanned
<1> QED BY <1>3, <1>4, RunMoves

LEMMA Genetic ==
  ASSUME RouteInv,
         \/ shuffleArray \/ survives \/ isReplaced \/ isBorn
         \/ fittest
  PROVE  RouteInv'
<1>1. /\ run \in Runs /\ run.asked \in Asked /\ run.algorithm = "genetic"
      /\ run.gen \in Nat /\ run.gen + 1 \in Nat /\ UNCHANGED <<dist, cache, answer>>
      /\ run.pc \in {"shuffle", "breed", "child"}
  <2>1. run.pc \in {"shuffle", "breed", "child"} /\ UNCHANGED <<dist, cache, answer>>
    <3>1. CASE shuffleArray
      BY <3>1 DEF shuffleArray
    <3>2. CASE survives
      BY <3>2 DEF survives
    <3>3. CASE isReplaced
      BY <3>3 DEF isReplaced
    <3>4. CASE isBorn
      BY <3>4 DEF isBorn
    <3>5. CASE fittest
      BY <3>5 DEF fittest
    <3> QED BY <3>1, <3>2, <3>3, <3>4, <3>5
  <2>2. run \in Runs /\ run.asked \in Asked /\ run.algorithm = "genetic"
    BY <2>1 DEF RouteInv, RouteTypes, WellPlanned
  <2> QED BY <2>1, <2>2 DEF Runs
<1>2. run.pc \in {"breed", "child"} =>
        /\ IsOrderOf(run.route, Visited(run.asked))
        /\ run.route \in Seq(Pickups)
  BY <1>1 DEF RouteInv, WellPlanned, Runs
<1>3. ASSUME shuffleArray PROVE RouteInv'
  <2>1. PICK s \in OrdersAsked : run' = [run EXCEPT !.route = s, !.pc = "breed"]
    BY <1>3 DEF shuffleArray
  <2>2. IsOrderOf(s, Visited(run.asked))
    BY <1>1, ParentsAreOrders
  <2>3. run' = [run EXCEPT !.pc = "breed", !.gen = run.gen, !.route = s]
    BY <1>1, <2>1 DEF Runs
  <2> QED BY <1>1, <2>2, <2>3, Bred
<1>4. ASSUME survives PROVE RouteInv'
  <2>1. /\ run' = [run EXCEPT !.pc = "breed", !.gen = run.gen + 1, !.route = run.route]
        /\ run.pc = "breed"
    BY <1>1, <1>4 DEF survives, Runs
  <2> QED BY <1>1, <1>2, <2>1, Bred
<1>5. ASSUME isReplaced PROVE RouteInv'
  <2>1. run.pc = "breed"
    BY <1>5 DEF isReplaced
  <2>2. PICK other \in OrdersAsked, a \in 1..Len(run.route) :
          \E b \in a..Len(run.route) :
            run' = [run EXCEPT !.pc = "child", !.gen = run.gen + 1,
                      !.route = crossover(run.route, other, a, b)]
    BY <1>5 DEF isReplaced, Length
  <2>3. PICK b \in a..Len(run.route) :
          run' = [run EXCEPT !.pc = "child", !.gen = run.gen + 1,
                    !.route = crossover(run.route, other, a, b)]
    BY <2>2
  <2>4. IsOrderOf(other, Visited(run.asked))
    BY <1>1, ParentsAreOrders
  <2>5. IsOrderOf(crossover(run.route, other, a, b),
                        Visited(run.asked))
    BY <1>2, <2>1, <2>4, Crossed
  <2> QED BY <1>1, <2>3, <2>5, Bred
<1>6. ASSUME isBorn PROVE RouteInv'
  <2>1. /\ run.pc = "child"
        /\ \/ run' = [run EXCEPT !.pc = "breed"]
           \/ \E k, l \in 1..Len(run.route) :
                run' = [run EXCEPT !.pc = "breed", !.route = mutate(run.route, k, l)]
    BY <1>6 DEF isBorn, Length
  <2>2. CASE run' = [run EXCEPT !.pc = "breed"]
    <3>1. run' = [run EXCEPT !.pc = "breed", !.gen = run.gen, !.route = run.route]
      BY <1>1, <2>2 DEF Runs
    <3> QED BY <1>1, <1>2, <2>1, <3>1, Bred
  <2>3. ASSUME NEW k \in 1..Len(run.route), NEW l \in 1..Len(run.route),
               run' = [run EXCEPT !.pc = "breed", !.route = mutate(run.route, k, l)]
        PROVE  RouteInv'
    <3>1. PICK child : child = mutate(run.route, k, l)
      OBVIOUS
    <3>2. run' = [run EXCEPT !.pc = "breed", !.gen = run.gen, !.route = child]
      BY <1>1, <2>3, <3>1 DEF Runs
    <3>3. IsOrderOf(child, Visited(run.asked))
      BY <1>2, <2>1, <3>1, Exchanged
    <3> QED BY <1>1, <3>2, <3>3, Bred
  <2> QED BY <2>1, <2>2, <2>3
<1>7. ASSUME fittest PROVE RouteInv'
  <2>1. /\ run' = [run EXCEPT !.pc = "plan", !.gen = run.gen, !.route = run.route]
        /\ run.pc = "breed"
    BY <1>1, <1>7 DEF fittest, Runs
  <2> QED BY <1>1, <1>2, <2>1, Bred
<1> QED BY <1>3, <1>4, <1>5, <1>6, <1>7

LEMMA Plan ==
  ASSUME RouteInv, plan
  PROVE  RouteInv'
<1>1. /\ run.pc = "plan" /\ run \in Runs /\ run.asked \in Asked
      /\ IsOrderOf(run.route, Visited(run.asked))
      /\ run.algorithm = "tsp_2opt" => Settled(dist, run.route)
  BY DEF RouteInv, RouteTypes, WellPlanned, plan
<1>2. PICK route : route = [algorithm |-> run.algorithm, stops |-> run.route]
  OBVIOUS
<1>3. /\ cache' = [cache EXCEPT ![Visited(run.asked)] = route]
      /\ answer'.asked = run.asked /\ answer'.route = route
      /\ run' = NoRun /\ dist' = dist
  BY <1>2 DEF plan
<1>4. Good(dist, route, Visited(run.asked)) /\ route \in Planned
  BY <1>1, <1>2 DEF Good, Planned, Runs
<1>5. cache' \in [Keys -> Planned]
  BY <1>3, <1>4 DEF RouteInv, RouteTypes
<1>6. Kept(dist, cache')
  <2> SUFFICES ASSUME NEW S \in Keys
               PROVE  cache'[S] = NoRoute \/ Good(dist, cache'[S], S)
    BY DEF Kept
  <2>1. CASE S = Visited(run.asked)
    <3>1. cache'[S] = route
      BY <1>3, <2>1 DEF RouteInv, RouteTypes
    <3> QED BY <1>4, <2>1, <3>1
  <2>2. CASE S # Visited(run.asked)
    <3>1. cache'[S] = cache[S]
      BY <1>3, <2>2 DEF RouteInv, RouteTypes
    <3> QED BY <3>1 DEF RouteInv, Kept
  <2> QED BY <2>1, <2>2
<1>7. Answered(dist, answer')
  BY <1>3, <1>4 DEF Answered
<1>8. run' \in Runs /\ WellPlanned(dist, run')
  BY <1>3 DEF NoRun, Runs, WellPlanned
<1> QED BY <1>3, <1>5, <1>6, <1>7, <1>8 DEF RouteInv, RouteTypes

\* Every step keeps the invariant.
LEMMA RouteStep ==
  ASSUME RouteInv, [RouteNext]_routeVars
  PROVE  RouteInv'
<1>1. ASSUME NEW algorithm \in Algorithms, NEW asked \in Asked,
             fromCache(algorithm, asked) \/ optimizeRoute(algorithm, asked)
      PROVE  RouteInv'
  BY <1>1, FromCache, OptimizeRoute
<1>2. ASSUME NEW stops \in Keys, expires(stops) PROVE RouteInv'
  BY <1>2, Expires
<1>3. ASSUME Compute PROVE RouteInv'
  BY <1>3, NearestNeighbor, NearestDone, TwoOptTry, TwoOptRound, Genetic, Plan
     DEF Compute
<1>4. ASSUME UNCHANGED routeVars PROVE RouteInv'
  BY <1>4 DEF routeVars, RouteInv, RouteTypes, Kept, Answered
<1> QED BY <1>1, <1>2, <1>3, <1>4 DEF RouteNext

\* The invariant gives the properties of an answer.
LEMMA RouteSafe ==
  ASSUME RouteInv
  PROVE  VisitsAsked /\ SettledFromTheEnd
<1>1. CASE answer = NoAnswer
  <2>1. answer.route.stops = <<>>
    BY <1>1 DEF NoAnswer, NoRoute
  <2> QED BY <1>1, <2>1 DEF VisitsAsked, SettledFromTheEnd
<1>2. CASE answer # NoAnswer
  <2>1. Good(dist, answer.route, Visited(answer.asked))
    BY <1>2 DEF RouteInv, Answered
  <2>2. PICK s : s = answer.route.stops
    OBVIOUS
  <2>3. IsOrderOf(s, Visited(answer.asked)) /\ Len(s) \in Nat
        /\ DOMAIN s = 1..Len(s)
    BY <2>1, <2>2, OrderFacts DEF Good
  <2>4. VisitsAsked
    BY <2>2, <2>3 DEF VisitsAsked
  <2>5. SettledFromTheEnd
    <3> SUFFICES ASSUME answer.route.algorithm = "tsp_2opt"
        PROVE  /\ \A k \in DOMAIN s : dist[<<Warehouse, s[1]>>] <= dist[<<Warehouse, s[k]>>]
               /\ \A j \in DOMAIN s : \A k \in 2..(j - 1) :
                    dist[<<s[j], After(s, j)>>] <= dist[<<s[k], After(s, j)>>]
      BY <2>2 DEF SettledFromTheEnd, haversineDistance
    <3>1. Settled(dist, s)
      BY <2>1, <2>2 DEF Good
    <3>2. ASSUME NEW j \in 1..Len(s), NEW k \in 2..(j - 1)
          PROVE  dist[<<s[j], After(s, j)>>] <= dist[<<s[k], After(s, j)>>]
      <4>1. k - 1 \in 1..Len(s) /\ j \in ((k - 1) + 2)..Len(s) /\ (k - 1) + 1 = k
        BY <2>3
      <4>2. NoneCloser(dist, s, k - 1, j)
        BY <3>1, <4>1 DEF Settled
      <4> QED BY <4>1, <4>2 DEF NoneCloser
    <3> QED BY <2>3, <3>1, <3>2 DEF Settled, FirstNearest
  <2> QED BY <2>4, <2>5
<1> QED BY <1>1, <1>2

\* What the request has planned so far, what the cache keeps and what was
\* answered last are right together.
THEOREM RouteInvariant == RouteSpec => []RouteInv
<1>1. RouteInit => RouteInv
  BY RouteBegins
<1>2. RouteInv /\ [RouteNext]_routeVars => RouteInv'
  BY RouteStep
<1> QED BY <1>1, <1>2, PTL DEF RouteSpec

\* A route that optimizeRoute returns, planned now or kept in the cache, visits
\* every pickup of the request once, whatever the algorithm.
THEOREM EveryPickupOnce == RouteSpec => []VisitsAsked
<1>1. RouteInv => VisitsAsked
  BY RouteSafe
<1> QED BY <1>1, RouteInvariant, PTL

\* Where twoOptImprovement ends: the first stop is nearest to the warehouse and
\* no earlier stop is closer to the one that follows a stop than that stop is.
THEOREM TwoOptSettles == RouteSpec => []SettledFromTheEnd
<1>1. RouteInv => SettledFromTheEnd
  BY RouteSafe
<1> QED BY <1>1, RouteInvariant, PTL

\* Why the rounds of twoOptImprovement end although a reversal may lengthen the
\* route: each makes one leg shorter and leaves the later ones as they are, so
\* that no order of the stops comes back.
THEOREM ReversalsDescend == RouteSpec => [][twoOptTry =>
  run'.route = run.route \/ Descends(dist, run.route, run'.route)]_routeVars
<1>1. ASSUME RouteInv, twoOptTry
      PROVE  run'.route = run.route \/ Descends(dist, run.route, run'.route)
  <2>1. /\ run \in Runs /\ run.asked \in Asked /\ dist \in Table
        /\ IsOrderOf(run.route, Visited(run.asked))
        /\ InLoops(Len(run.route), run.i, run.j)
    BY <1>1 DEF RouteInv, RouteTypes, WellPlanned, Improves, twoOptTry
  <2>2. PICK s : s = run.route
    OBVIOUS
  <2>3. PICK i \in Nat, j \in Nat : i = run.i /\ j = run.j
    BY <2>1 DEF Runs
  <2>4. PICK t : t = twoOptSwap(s, i, j)
    OBVIOUS
  <2>5. /\ i < Len(s) /\ j <= Len(s)
        /\ run'.route = IF Shorter(t, s, i, j) THEN t ELSE s
    BY <1>1, <2>1, <2>2, <2>3, <2>4 DEF twoOptTry, Length, Runs
  <2>6. i \in 1..(Len(s) - 2) /\ j \in (i + 2)..Len(s)
    <3>1. Len(s) \in Nat
      BY <2>1, <2>2, OrderFacts
    <3> QED BY <2>1, <2>2, <2>3, <2>5, <3>1 DEF InLoops
  <2>7. CASE Shorter(t, s, i, j)
    <3>1. Visited(run.asked) \subseteq Pickups
      BY <2>1, StopsArePlaces
    <3>2. IsOrderOf(s, Visited(run.asked))
      BY <2>1, <2>2
    <3>3. Descends(dist, s, t)
      BY <2>1, <2>4, <2>6, <2>7, <3>1, <3>2, ShorterDescends
    <3> QED BY <2>2, <2>5, <2>7, <3>3
  <2>8. CASE ~Shorter(t, s, i, j)
    BY <2>2, <2>5, <2>8
  <2> QED BY <2>7, <2>8
<1> QED BY <1>1, RouteInvariant, PTL
=============================================================================
