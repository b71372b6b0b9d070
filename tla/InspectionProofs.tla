-------------------------- MODULE InspectionProofs --------------------------
(***************************************************************************)
(* Proofs about Inspection, for any sellers, inspections, results and      *)
(* finite number of requests in flight.                                    *)
(***************************************************************************)
EXTENDS Inspection, FiniteSetTheorems, TLAPS

\* Every inspection is of a seller.
OfSeller == \A i \in Inspections :
  inspections[i].status # "none" => inspections[i].of \in Sellers

\* What a request in flight relies on: its seller is one of the trade's, the
\* inspection it will write is there, something spoke for the seller it will
\* verify and for those it has tested, and only a failure is noted.
WillVerify(c) == \/ calls[c].pc \in {"grade", "cascade", "verify"}
                 \/ calls[c].pc = "sellers" /\ calls[c].pass
Informed(c) ==
  /\ calls[c].pc # "idle" => calls[c].who \in Sellers
  /\ calls[c].pc \in {"result", "patch"} =>
       calls[c].of \in Inspections /\ inspections[calls[c].of].status # "none"
  /\ WillVerify(c) => calls[c].who \in vouched
  /\ calls[c].pc \in {"loss", "note"} => ~calls[c].pass
  /\ calls[c].pc \in {"ensure", "points", "request"} => calls[c].tested \subseteq vouched

\* The failures on record that are still to be noted.  A note that was read
\* long ago may take others back, but it never runs ahead.
Owing == {c \in Calls : calls[c].pc \in {"sellers", "loss", "note"} /\ ~calls[c].pass}
Tally ==
  /\ failures + Cardinality(Owing) <= failed
  /\ \A c \in Calls : calls[c].pc = "note" =>
       calls[c].count + Cardinality(Owing) <= failed

IInv == /\ TypeOK /\ OfSeller /\ Tally /\ VerifiedWasVouched
        /\ \A c \in Calls : Informed(c)

-----------------------------------------------------------------------------
(* What a step does to the requests in flight.                             *)

\* Only c moves.
Moves(c) == /\ calls' \in [Calls -> Call]
            /\ \A d \in Calls \ {c} : calls'[d] = calls[d]

LEMMA IdleIsCall == Idle \in Call /\ Idle.pc = "idle"
BY DEF Idle, Call, Pc, Inspections, InspectionStatus

LEMMA EndMoves ==
  ASSUME TypeOK, NEW c \in Calls, calls' = [calls EXCEPT ![c] = Idle]
  PROVE  Moves(c) /\ calls'[c] = Idle
BY IdleIsCall DEF TypeOK, Moves

LEMMA GotoMoves ==
  ASSUME TypeOK, NEW c \in Calls, NEW pc \in Pc, Goto(c, pc)
  PROVE  /\ Moves(c) /\ calm' = calm /\ calm' \in BOOLEAN
         /\ calls'[c].pc = pc /\ calls'[c].who = calls[c].who
         /\ calls'[c].pass = calls[c].pass /\ calls'[c].count = calls[c].count
         /\ calls'[c].tested = calls[c].tested /\ calls'[c].points = calls[c].points
<1>1. calls[c] \in Call
  BY DEF TypeOK
<1>2. [calls[c] EXCEPT !.pc = pc] \in Call
  BY <1>1 DEF Call
<1>3. calls' = [calls EXCEPT ![c] = [calls[c] EXCEPT !.pc = pc]]
  BY DEF Goto
<1>4. Moves(c) /\ calls'[c] = [calls[c] EXCEPT !.pc = pc]
  BY <1>2, <1>3 DEF TypeOK, Moves
<1> QED BY <1>1, <1>4 DEF TypeOK, Goto, Call

\* No row and no good word is taken back.
RowsStay ==
  /\ inspections' \in [Inspections -> Row] /\ OfSeller'
  /\ \A i \in Inspections :
       inspections[i].status # "none" => inspections'[i].status # "none"
WordsStay ==
  /\ vouched' \subseteq Sellers /\ vouched \subseteq vouched'
  /\ word' \in [Sellers -> {"none", "good", "bad"}]

\* Nobody is verified without a good word.
SellersStay ==
  /\ seller' \in [Sellers -> Seller]
  /\ \A s \in Sellers : seller'[s].verified => s \in vouched'
Others == /\ graded' \subseteq Sellers /\ open' \subseteq Sellers
          /\ requested' \in BOOLEAN /\ calm' \in BOOLEAN

LEMMA StillInformed ==
  ASSUME IInv, NEW c \in Calls, Moves(c), RowsStay, WordsStay, Informed(c)'
  PROVE  \A d \in Calls : Informed(d)'
<1> SUFFICES ASSUME NEW d \in Calls, d # c PROVE Informed(d)'
  OBVIOUS
<1>1. calls'[d] = calls[d] /\ Informed(d)
  BY DEF IInv, Moves
<1> QED BY <1>1 DEF Informed, WillVerify, RowsStay, WordsStay

LEMMA NothingTaken ==
  ASSUME IInv, UNCHANGED inspections
  PROVE  RowsStay
BY DEF IInv, TypeOK, RowsStay, OfSeller

LEMMA NothingSaid ==
  ASSUME IInv, UNCHANGED <<vouched, word>>
  PROVE  WordsStay
BY DEF IInv, TypeOK, WordsStay

LEMMA GoodWord ==
  ASSUME IInv, NEW s \in Sellers, Vouched(s)
  PROVE  /\ WordsStay /\ s \in vouched' /\ UNCHANGED failed
         /\ word'[s] = "good" /\ \A t \in Sellers : t # s => word'[t] = word[t]
BY DEF IInv, TypeOK, WordsStay, Vouched

LEMMA BadForgotten ==
  ASSUME IInv, NEW s \in Sellers, Forgiven(s)
  PROVE  /\ WordsStay /\ UNCHANGED <<vouched, failed>> /\ word'[s] # "bad"
         /\ word'[s] = "good" <=> word[s] = "good"
         /\ \A t \in Sellers : t # s => word'[t] = word[t]
BY DEF IInv, TypeOK, WordsStay, Forgiven

LEMMA SellersAlone ==
  ASSUME IInv, WordsStay, UNCHANGED seller
  PROVE  SellersStay
BY DEF IInv, TypeOK, VerifiedWasVouched, WordsStay, SellersStay

LEMMA SellerStatus ==
  ASSUME IInv, WordsStay, NEW s \in Sellers, NEW status \in {"NEGOTIATING", "ACCEPTED"},
         seller' = [seller EXCEPT ![s].status = status]
  PROVE  /\ SellersStay
         /\ \A t \in Sellers : seller'[t].verified = seller[t].verified
         /\ \A t \in Sellers : t # s => seller'[t] = seller[t]
<1>1. seller[s] \in Seller /\ seller \in [Sellers -> Seller]
  BY DEF IInv, TypeOK
<1>2. /\ [seller[s] EXCEPT !.status = status] \in Seller
      /\ [seller[s] EXCEPT !.status = status].verified = seller[s].verified
  BY <1>1 DEF Seller
<1>3. seller' = [seller EXCEPT ![s] = [seller[s] EXCEPT !.status = status]]
  OBVIOUS
<1>4. seller' \in [Sellers -> Seller]
  BY <1>1, <1>2, <1>3
<1>5. \A t \in Sellers : seller'[t].verified = seller[t].verified
  BY <1>1, <1>2, <1>3
<1> QED BY <1>1, <1>3, <1>4, <1>5 DEF IInv, VerifiedWasVouched, WordsStay, SellersStay

LEMMA SellerVerified ==
  ASSUME IInv, WordsStay, NEW s \in Sellers, s \in vouched',
         seller' = [seller EXCEPT ![s].verified = TRUE]
  PROVE  /\ SellersStay /\ seller'[s].verified
         /\ \A t \in Sellers : t # s => seller'[t] = seller[t]
<1>1. seller[s] \in Seller /\ seller \in [Sellers -> Seller]
  BY DEF IInv, TypeOK
<1>2. /\ [seller[s] EXCEPT !.verified = TRUE] \in Seller
      /\ [seller[s] EXCEPT !.verified = TRUE].verified = TRUE
  BY <1>1 DEF Seller
<1>3. seller' = [seller EXCEPT ![s] = [seller[s] EXCEPT !.verified = TRUE]]
  OBVIOUS
<1>4. seller' \in [Sellers -> Seller] /\ seller'[s].verified
  BY <1>1, <1>2, <1>3
<1>5. \A t \in Sellers : t # s => seller'[t] = seller[t]
  BY <1>1, <1>3
<1> QED BY <1>4, <1>5 DEF IInv, VerifiedWasVouched, WordsStay, SellersStay

-----------------------------------------------------------------------------
(* The count of failures.                                                  *)
LEMMA OwingFinite == IsFiniteSet(Owing) /\ Cardinality(Owing) \in Nat
BY CallsAssumption, FS_Subset, FS_CardinalityType DEF Owing

\* A step that neither records nor notes one: nothing more is owed.
LEMMA TallyKept ==
  ASSUME TypeOK, Tally, calls' \in [Calls -> Call], UNCHANGED <<failures, failed>>,
         Owing' \subseteq Owing,
         \A d \in Calls : calls'[d].pc = "note" =>
           \/ calls[d].pc = "note" /\ calls'[d].count = calls[d].count
           \/ calls'[d].count = failures
  PROVE  Tally'
<1>1. Cardinality(Owing') <= Cardinality(Owing) /\ Cardinality(Owing') \in Nat
  BY OwingFinite, FS_Subset, FS_CardinalityType
<1>2. Cardinality(Owing)' = Cardinality(Owing')
  OBVIOUS
<1>3. failures \in Nat /\ failed \in Nat /\ Cardinality(Owing) \in Nat
  BY OwingFinite DEF TypeOK
<1>4. \A d \in Calls : calls[d].count \in Nat /\ calls'[d].count \in Nat
  BY DEF TypeOK, Call
<1>5. failures' + Cardinality(Owing') <= failed'
  BY <1>1, <1>3 DEF Tally
<1>6. ASSUME NEW d \in Calls, calls'[d].pc = "note"
      PROVE  calls'[d].count + Cardinality(Owing') <= failed'
  BY <1>1, <1>3, <1>4, <1>6 DEF Tally
<1> QED BY <1>2, <1>5, <1>6 DEF Tally

\* A request that goes on without owing what it did not owe.
LEMMA OwesNoMore ==
  ASSUME NEW c \in Calls, Moves(c), c \in Owing' => c \in Owing
  PROVE  Owing' \subseteq Owing
BY DEF Moves, Owing

-----------------------------------------------------------------------------
(* A step that leaves failures alone, verifies nobody without a good word, *)
(* and takes nothing back.                                                 *)
LEMMA Quietly ==
  ASSUME IInv, NEW c \in Calls, Moves(c), RowsStay, WordsStay, SellersStay, Others,
         Informed(c)', UNCHANGED <<failures, failed>>,
         c \in Owing' => c \in Owing,
         calls'[c].pc = "note" => calls'[c].count = failures
  PROVE  IInv'
<1>1. TypeOK'
  BY DEF IInv, TypeOK, Moves, RowsStay, WordsStay, SellersStay, Others
<1>2. \A d \in Calls : Informed(d)'
  BY StillInformed
<1>3. Tally'
  <2>1. \A d \in Calls : calls'[d].pc = "note" =>
           \/ calls[d].pc = "note" /\ calls'[d].count = calls[d].count
           \/ calls'[d].count = failures
    BY DEF Moves
  <2> QED BY <2>1, OwesNoMore, TallyKept DEF IInv, Moves
<1>4. VerifiedWasVouched'
  BY DEF IInv, VerifiedWasVouched, SellersStay
<1> QED BY <1>1, <1>2, <1>3, <1>4 DEF IInv, RowsStay

\* Steps that touch no request in flight.
LEMMA AtOnceStep ==
  ASSUME IInv, AtOnce, RowsStay, WordsStay, SellersStay,
         UNCHANGED <<failures, failed>>,
         graded' \subseteq Sellers, open' \subseteq Sellers, requested' \in BOOLEAN
  PROVE  IInv'
<1>1. UNCHANGED calls /\ calm' \in BOOLEAN
  BY DEF AtOnce, IInv, TypeOK
<1>2. TypeOK'
  BY <1>1 DEF IInv, TypeOK, RowsStay, WordsStay, SellersStay
<1>3. ASSUME NEW d \in Calls PROVE Informed(d)'
  BY <1>1 DEF IInv, Informed, WillVerify, RowsStay, WordsStay
<1>4. Tally'
  BY <1>1 DEF IInv, Tally, Owing
<1>5. VerifiedWasVouched'
  BY DEF IInv, VerifiedWasVouched, SellersStay
<1> QED BY <1>2, <1>3, <1>4, <1>5 DEF IInv, RowsStay

\* A request that goes on, to where it relies on nothing new.
Plain == {"conclude", "listing", "lookup", "inspect", "check"}
LEMMA GoesOn ==
  ASSUME IInv, NEW c \in Calls, calls[c].pc # "idle", NEW pc \in Plain, Goto(c, pc),
         WordsStay, SellersStay, UNCHANGED <<inspections, failures, failed>>,
         graded' \subseteq Sellers, open' \subseteq Sellers, requested' \in BOOLEAN
  PROVE  IInv'
<1>1. /\ Moves(c) /\ calm' \in BOOLEAN
      /\ calls'[c].pc = pc /\ calls'[c].who = calls[c].who
  BY GotoMoves DEF IInv, Plain, Pc
<1>2. Informed(c)' /\ c \notin Owing' /\ pc # "note"
  BY <1>1 DEF IInv, Informed, WillVerify, Owing, Plain
<1> QED BY <1>1, <1>2, NothingTaken, Quietly DEF Others

\* A request that ends.
LEMMA Leaves ==
  ASSUME IInv, NEW c \in Calls, calls' = [calls EXCEPT ![c] = Idle],
         RowsStay, WordsStay, SellersStay, Others, UNCHANGED <<failures, failed>>
  PROVE  IInv'
<1>1. Moves(c) /\ calls'[c] = Idle
  BY EndMoves DEF IInv
<1>2. Informed(c)' /\ c \notin Owing'
  BY <1>1, IdleIsCall DEF Informed, WillVerify, Owing
<1> QED BY <1>1, <1>2, IdleIsCall, Quietly

\* A request that ends without a trace.
LEMMA Ends ==
  ASSUME IInv, NEW c \in Calls, calls' = [calls EXCEPT ![c] = Idle],
         calm' \in BOOLEAN, UNCHANGED <<rows, history>>
  PROVE  IInv'
<1>1. UNCHANGED <<inspections, seller, graded, open, failures, requested,
                  vouched, word, failed>>
  BY DEF rows, history
<1>2. Others
  BY <1>1 DEF Others, IInv, TypeOK
<1> QED BY <1>1, <1>2, NothingTaken, NothingSaid, SellersAlone, Leaves

-----------------------------------------------------------------------------
(* The steps of Next: the rows, and what the negotiations write.           *)
LEMMA RowCreated ==
  ASSUME IInv, NEW i \in Inspections, NEW s \in Sellers,
         inspections' = [inspections EXCEPT ![i] = Pending(s)]
  PROVE  RowsStay
<1>1. /\ Pending(s) \in Row /\ Pending(s).status # "none" /\ Pending(s).of = s
  BY DEF Pending, Row, InspectionStatus
<1> QED BY <1>1 DEF IInv, TypeOK, RowsStay, OfSeller

LEMMA StatusStays ==
  ASSUME IInv, NEW i \in Inspections, inspections[i].status # "none",
         NEW status \in InspectionStatus,
         inspections' = [inspections EXCEPT ![i].status = status]
  PROVE  RowsStay
<1>1. inspections[i] \in Row
  BY DEF IInv, TypeOK
<1>2. /\ [inspections[i] EXCEPT !.status = status] \in Row
      /\ [inspections[i] EXCEPT !.status = status].of = inspections[i].of
      /\ [inspections[i] EXCEPT !.status = status].status # "none"
  BY <1>1 DEF Row, InspectionStatus
<1>3. inspections' = [inspections EXCEPT ![i] = [inspections[i] EXCEPT !.status = status]]
  OBVIOUS
<1> QED BY <1>2, <1>3 DEF IInv, TypeOK, RowsStay, OfSeller

LEMMA CreatedStep ==
  ASSUME IInv, NEW i \in Inspections, NEW s \in Sellers,
         createInspectionRequest(i, s)
  PROVE  IInv'
<1>1. /\ AtOnce /\ inspections' = [inspections EXCEPT ![i] = Pending(s)]
      /\ UNCHANGED <<seller, graded, open, failures, requested, vouched, word, failed>>
  BY DEF createInspectionRequest, history
<1> QED BY <1>1, RowCreated, NothingSaid, SellersAlone, AtOnceStep DEF IInv, TypeOK

LEMMA StatusWritten ==
  ASSUME IInv, NEW i \in Inspections, NEW status \in InspectionStatus,
         updateInspectionStatus(i, status)
  PROVE  IInv'
<1>1. /\ AtOnce /\ RowsStay
      /\ UNCHANGED <<seller, graded, open, failures, requested, vouched, word, failed>>
  BY StatusStays DEF updateInspectionStatus, history
<1> QED BY <1>1, NothingSaid, SellersAlone, AtOnceStep DEF IInv, TypeOK

LEMMA NegotiatesStep ==
  ASSUME IInv, NEW s \in Sellers, negotiates(s)
  PROVE  IInv'
<1>1. /\ AtOnce /\ Forgiven(s) /\ open' \subseteq Sellers
      /\ seller' = [seller EXCEPT ![s].status = "NEGOTIATING"]
      /\ UNCHANGED <<inspections, graded, failures, requested>>
  BY DEF negotiates, IInv, TypeOK
<1>2. WordsStay /\ UNCHANGED failed
  BY <1>1, BadForgotten
<1>3. SellersStay
  BY <1>1, <1>2, SellerStatus
<1> QED BY <1>1, <1>2, <1>3, NothingTaken, AtOnceStep DEF IInv, TypeOK

LEMMA RequestedStep ==
  ASSUME IInv, requestTransport
  PROVE  IInv'
<1>1. /\ AtOnce /\ requested' \in BOOLEAN
      /\ UNCHANGED <<inspections, seller, graded, open, failures, vouched, word, failed>>
  BY DEF requestTransport, history
<1> QED BY <1>1, NothingTaken, NothingSaid, SellersAlone, AtOnceStep DEF IInv, TypeOK

\* A request that arrives.
LEMMA Arrives ==
  ASSUME IInv, NEW c \in Calls, NEW call \in Call, Begin(c, call),
         call.pc \in {"accept", "result", "patch"}, call.who \in Sellers,
         call.pc # "accept" =>
           call.of \in Inspections /\ inspections[call.of].status # "none",
         UNCHANGED <<rows, history>>
  PROVE  IInv'
<1>1. Moves(c) /\ calls'[c] = call /\ calm' \in BOOLEAN
  BY DEF IInv, TypeOK, Begin, Moves
<1>2. UNCHANGED <<inspections, seller, graded, open, failures, requested,
                  vouched, word, failed>>
  BY DEF rows, history
<1>3. Informed(c)' /\ c \notin Owing'
  BY <1>1, <1>2 DEF Informed, WillVerify, Owing
<1>4. Others
  BY <1>1, <1>2 DEF Others, IInv, TypeOK
<1> QED BY <1>1, <1>2, <1>3, <1>4, NothingTaken, NothingSaid, SellersAlone, Quietly

LEMMA AcceptStep ==
  ASSUME IInv, NEW c \in Calls, NEW s \in Sellers, acceptOffer(c, s)
  PROVE  IInv'
<1> DEFINE call == [Idle EXCEPT !.pc = "accept", !.who = s]
<1>1. call \in Call /\ call.pc = "accept" /\ call.who = s
  BY DEF Idle, Call, Pc, InspectionStatus
<1>2. Begin(c, call) /\ UNCHANGED <<rows, history>>
  BY DEF acceptOffer
<1> HIDE DEF call
<1> QED BY <1>1, <1>2, Arrives

\* A request about an inspection is about its seller.
LEMMA ResultIsCall ==
  ASSUME IInv, NEW i \in Inspections, inspections[i].status # "none",
         NEW pass \in BOOLEAN,
         NEW call, call = [About(i) EXCEPT !.pc = "result", !.pass = pass]
  PROVE  call \in Call /\ call.pc = "result" /\ call.of = i /\ call.who \in Sellers
<1>1. inspections[i].of \in Sellers
  BY DEF IInv, OfSeller
<1> QED BY <1>1 DEF About, Idle, Call, Pc, InspectionStatus

LEMMA PatchIsCall ==
  ASSUME IInv, NEW i \in Inspections, inspections[i].status # "none",
         NEW status \in InspectionStatus,
         NEW call, call = [About(i) EXCEPT !.pc = "patch", !.status = status]
  PROVE  call \in Call /\ call.pc = "patch" /\ call.of = i /\ call.who \in Sellers
<1>1. inspections[i].of \in Sellers
  BY DEF IInv, OfSeller
<1> QED BY <1>1 DEF About, Idle, Call, Pc, InspectionStatus

LEMMA SubmitStep ==
  ASSUME IInv, NEW c \in Calls, NEW i \in Inspections, NEW pass \in BOOLEAN,
         submitInspectionResults(c, i, pass)
  PROVE  IInv'
<1> DEFINE call == [About(i) EXCEPT !.pc = "result", !.pass = pass]
<1>1. /\ inspections[i].status # "none" /\ Begin(c, call) /\ UNCHANGED <<rows, history>>
  BY DEF submitInspectionResults
<1>2. /\ call \in Call /\ call.pc = "result" /\ call.of = i /\ call.who \in Sellers
  BY <1>1, ResultIsCall
<1> HIDE DEF call
<1> QED BY <1>1, <1>2, Arrives

LEMMA UpdateStep ==
  ASSUME IInv, NEW c \in Calls, NEW i \in Inspections, NEW status \in InspectionStatus,
         updateInspection(c, i, status)
  PROVE  IInv'
<1> DEFINE call == [About(i) EXCEPT !.pc = "patch", !.status = status]
<1>1. /\ inspections[i].status # "none" /\ Begin(c, call) /\ UNCHANGED <<rows, history>>
  BY DEF updateInspection
<1>2. /\ call \in Call /\ call.pc = "patch" /\ call.of = i /\ call.who \in Sellers
  BY <1>1, PatchIsCall
<1> HIDE DEF call
<1> QED BY <1>1, <1>2, Arrives

LEMMA AcceptedStep ==
  ASSUME IInv, NEW c \in Calls, accepted(c)
  PROVE  IInv'
<1> DEFINE s == calls[c].who
<1>1. /\ calls[c].pc = "accept" /\ Goto(c, "conclude") /\ Forgiven(s)
      /\ seller' = [seller EXCEPT ![s].status = "ACCEPTED"]
      /\ UNCHANGED <<inspections, graded, open, failures, requested>>
  BY DEF accepted
<1>2. s \in Sellers
  BY <1>1 DEF IInv, Informed
<1>3. WordsStay /\ UNCHANGED failed
  BY <1>1, <1>2, BadForgotten
<1>4. SellersStay
  BY <1>1, <1>2, <1>3, SellerStatus
<1> QED BY <1>1, <1>3, <1>4, GoesOn DEF IInv, TypeOK, Plain

LEMMA ConcludeStep ==
  ASSUME IInv, NEW c \in Calls, conclude(c)
  PROVE  IInv'
<1>1. /\ calls[c].pc = "conclude" /\ Goto(c, "listing") /\ open' \subseteq Sellers
      /\ UNCHANGED <<inspections, seller, graded, failures, requested,
                     vouched, word, failed>>
  BY DEF conclude, history, IInv, TypeOK
<1> QED BY <1>1, NothingSaid, SellersAlone, GoesOn DEF IInv, TypeOK, Plain

LEMMA ListingStep ==
  ASSUME IInv, NEW c \in Calls, listing(c)
  PROVE  IInv'
<1>1. /\ calls[c].pc = "listing" /\ calls[c].who \in Sellers
      /\ UNCHANGED <<inspections, seller, graded, open, failures, requested>>
  BY DEF listing, rows, IInv, Informed
<1>2. CASE calls[c].who \notin graded
  <2>1. Goto(c, "lookup") /\ UNCHANGED <<vouched, word, failed>>
    BY <1>2 DEF listing, history
  <2> QED BY <1>1, <2>1, NothingSaid, SellersAlone, GoesOn DEF IInv, TypeOK, Plain
<1>3. CASE calls[c].who \in graded
  <2>1. Goto(c, "grade") /\ Vouched(calls[c].who)
    BY <1>3 DEF listing
  <2>2. WordsStay /\ calls[c].who \in vouched' /\ UNCHANGED failed
    BY <1>1, <2>1, GoodWord
  <2>3. /\ Moves(c) /\ calm' \in BOOLEAN
        /\ calls'[c].pc = "grade" /\ calls'[c].who = calls[c].who
    BY <2>1, GotoMoves DEF IInv, Pc
  <2>4. Informed(c)' /\ c \notin Owing'
    BY <1>1, <2>2, <2>3 DEF Informed, WillVerify, Owing
  <2> QED BY <1>1, <2>2, <2>3, <2>4, NothingTaken, SellersAlone, Quietly
           DEF Others, IInv, TypeOK
<1> QED BY <1>2, <1>3

LEMMA GradeStep ==
  ASSUME IInv, NEW c \in Calls, grade(c)
  PROVE  IInv'
<1>1. /\ calls[c].pc = "grade" /\ End(c)
      /\ seller' = [seller EXCEPT ![calls[c].who].verified = TRUE]
      /\ UNCHANGED <<inspections, graded, open, failures, requested,
                     vouched, word, failed>>
  BY DEF grade, history
<1>2. calls[c].who \in Sellers /\ calls[c].who \in vouched
  BY <1>1 DEF IInv, Informed, WillVerify
<1>3. WordsStay
  BY <1>1, NothingSaid
<1>4. SellersStay
  BY <1>1, <1>2, <1>3, SellerVerified
<1> QED BY <1>1, <1>3, <1>4, NothingTaken, Leaves DEF End, Others, IInv, TypeOK

LEMMA LookupStep ==
  ASSUME IInv, NEW c \in Calls, lookup(c)
  PROVE  IInv'
<1>1. CASE Inspected(calls[c].who)
  BY <1>1, Ends DEF lookup, End, IInv, TypeOK
<1>2. CASE ~Inspected(calls[c].who)
  <2>1. /\ calls[c].pc = "lookup" /\ Goto(c, "inspect")
        /\ UNCHANGED <<inspections, seller, graded, open, failures, requested,
                       vouched, word, failed>>
    BY <1>2 DEF lookup, rows, history
  <2> QED BY <2>1, NothingSaid, SellersAlone, GoesOn DEF IInv, TypeOK, Plain
<1> QED BY <1>1, <1>2

LEMMA InspectStep ==
  ASSUME IInv, NEW c \in Calls, inspect(c)
  PROVE  IInv'
<1>1. /\ calls[c].pc = "inspect" /\ End(c)
      /\ UNCHANGED <<seller, graded, open, failures, requested, vouched, word, failed>>
  BY DEF inspect, history
<1>2. calls[c].who \in Sellers
  BY <1>1 DEF IInv, Informed
<1>3. RowsStay
  BY <1>2, RowCreated DEF inspect
<1> QED BY <1>1, <1>3, NothingSaid, SellersAlone, Leaves DEF End, Others, IInv, TypeOK

-----------------------------------------------------------------------------
(* The steps of Next: results, patches, and the transport request.         *)
LEMMA WrittenMoves ==
  ASSUME IInv, NEW c \in Calls, calls[c].pc \in {"result", "patch"},
         NEW pc \in Pc, Written(c, "COMPLETED", pc)
  PROVE  /\ RowsStay /\ Moves(c) /\ Others
         /\ calls'[c].pc = pc /\ calls'[c].who = calls[c].who
         /\ calls'[c].pass = calls[c].pass
         /\ UNCHANGED <<seller, graded, open, failures, requested, calm>>
<1> DEFINE call == [Idle EXCEPT !.pc = pc, !.who = calls[c].who, !.pass = calls[c].pass]
<1>1. calls[c] \in Call
  BY DEF IInv, TypeOK
<1>2. /\ call \in Call /\ call.pc = pc /\ call.who = calls[c].who
      /\ call.pass = calls[c].pass
  BY <1>1 DEF Idle, Call, InspectionStatus
<1>3. /\ calls' = [calls EXCEPT ![c] = call]
      /\ inspections' = [inspections EXCEPT ![calls[c].of].status = "COMPLETED"]
      /\ UNCHANGED <<seller, graded, open, failures, requested, calm>>
  BY DEF Written
<1> HIDE DEF call
<1>4. Moves(c) /\ calls'[c] = call
  BY <1>2, <1>3 DEF IInv, TypeOK, Moves
<1>5. calls[c].of \in Inspections /\ inspections[calls[c].of].status # "none"
  BY DEF IInv, Informed
<1>6. RowsStay
  BY <1>3, <1>5, StatusStays DEF InspectionStatus
<1> QED BY <1>2, <1>3, <1>4, <1>6 DEF Others, IInv, TypeOK

LEMMA ResultStep ==
  ASSUME IInv, NEW c \in Calls, result(c)
  PROVE  IInv'
<1> DEFINE s == calls[c].who
<1>1. calls[c].pc = "result" /\ Written(c, "COMPLETED", "sellers") /\ s \in Sellers
  BY DEF result, IInv, Informed
<1>2. /\ RowsStay /\ Moves(c) /\ Others
      /\ calls'[c].pc = "sellers" /\ calls'[c].who = s /\ calls'[c].pass = calls[c].pass
      /\ UNCHANGED <<seller, failures>>
  BY <1>1, WrittenMoves DEF Pc
<1>3. CASE calls[c].pass
  <2>1. WordsStay /\ s \in vouched' /\ UNCHANGED failed
    BY <1>1, <1>3, GoodWord DEF result
  <2>2. Informed(c)' /\ c \notin Owing'
    BY <1>1, <1>2, <1>3, <2>1 DEF Informed, WillVerify, Owing
  <2> QED BY <1>2, <2>1, <2>2, SellersAlone, Quietly
<1>4. CASE ~calls[c].pass
  <2>1. /\ word' = [word EXCEPT ![s] = "bad"] /\ UNCHANGED vouched
        /\ failed' = failed + 1 /\ failed \in Nat /\ failures \in Nat
    BY <1>4 DEF result, IInv, TypeOK
  <2>2. WordsStay
    BY <1>1, <2>1 DEF WordsStay, IInv, TypeOK
  <2>3. SellersStay
    BY <1>2, <2>2, SellersAlone
  <2>4. Informed(c)'
    BY <1>1, <1>2, <1>4 DEF Informed, WillVerify
  <2>5. TypeOK'
    BY <1>2, <2>1, <2>2, <2>3
       DEF IInv, TypeOK, Moves, RowsStay, WordsStay, SellersStay, Others
  <2>6. Owing' = Owing \cup {c} /\ c \notin Owing
    BY <1>1, <1>2, <1>4 DEF Moves, Owing
  <2>7. Cardinality(Owing') = Cardinality(Owing) + 1
    BY <2>6, OwingFinite, FS_AddElement
  <2>8. \A d \in Calls : calls'[d].pc = "note" =>
          calls[d].pc = "note" /\ calls'[d].count = calls[d].count
    BY <1>2 DEF Moves
  <2>9. \A d \in Calls : calls[d].count \in Nat
    BY DEF IInv, TypeOK, Call
  <2>10. failures' + Cardinality(Owing') <= failed'
    BY <1>2, <2>1, <2>7, OwingFinite DEF IInv, Tally
  <2>11. ASSUME NEW d \in Calls, calls'[d].pc = "note"
         PROVE  calls'[d].count + Cardinality(Owing') <= failed'
    BY <2>1, <2>7, <2>8, <2>9, <2>11, OwingFinite DEF IInv, Tally
  <2>12. Tally'
    BY <2>10, <2>11 DEF Tally
  <2>13. failures' <= failed'
    BY <1>2, <2>1 DEF IInv, VerifiedWasVouched
  <2>14. VerifiedWasVouched'
    BY <2>3, <2>13 DEF VerifiedWasVouched, SellersStay
  <2> QED BY <1>2, <2>2, <2>4, <2>5, <2>12, <2>14, StillInformed DEF IInv, RowsStay
<1> QED BY <1>3, <1>4

LEMMA SellersStep ==
  ASSUME IInv, NEW c \in Calls, sellers(c)
  PROVE  IInv'
<1> DEFINE s == calls[c].who
<1>1. /\ calls[c].pc = "sellers" /\ seller' = Judged(s, calls[c].pass)
      /\ IF calls[c].pass THEN End(c) ELSE Goto(c, "loss")
      /\ UNCHANGED <<inspections, graded, open, failures, requested,
                     vouched, word, failed>>
  BY DEF sellers, history
<1>2. s \in Sellers
  BY <1>1 DEF IInv, Informed
<1>3. WordsStay /\ RowsStay
  BY <1>1, NothingSaid, NothingTaken
<1>4. CASE calls[c].pass
  <2>1. s \in vouched'
    BY <1>1, <1>4 DEF IInv, Informed, WillVerify
  <2>2. SellersStay
    BY <1>1, <1>2, <1>3, <1>4, <2>1, SellerVerified DEF Judged
  <2> QED BY <1>1, <1>3, <1>4, <2>2, Leaves DEF End, Others, IInv, TypeOK
<1>5. CASE ~calls[c].pass
  <2>1. /\ Moves(c) /\ calm' \in BOOLEAN /\ calls'[c].pc = "loss"
        /\ calls'[c].who = s /\ calls'[c].pass = calls[c].pass
    BY <1>1, <1>5, GotoMoves DEF IInv, Pc
  <2>2. Informed(c)' /\ c \in Owing
    BY <1>1, <1>2, <1>5, <2>1 DEF Informed, WillVerify, Owing
  <2>3. [status |-> "FAILED_INSPECTION", verified |-> FALSE] \in Seller
    BY DEF Seller
  <2>4. seller' = [seller EXCEPT ![s] = [status |-> "FAILED_INSPECTION", verified |-> FALSE]]
    BY <1>1, <1>5 DEF Judged
  <2>5. SellersStay
    BY <1>1, <1>2, <2>3, <2>4 DEF SellersStay, IInv, TypeOK, VerifiedWasVouched
  <2> QED BY <1>1, <1>3, <2>1, <2>2, <2>5, Quietly DEF Others, IInv, TypeOK
<1> QED BY <1>4, <1>5

LEMMA LossStep ==
  ASSUME IInv, NEW c \in Calls, loss(c)
  PROVE  IInv'
<1> DEFINE call == [calls[c] EXCEPT !.pc = "note", !.count = failures]
<1>1. /\ calls[c].pc = "loss" /\ calls' = [calls EXCEPT ![c] = call]
      /\ UNCHANGED <<inspections, seller, graded, open, failures, requested,
                     vouched, word, failed, calm>>
  BY DEF loss, rows, history
<1>2. /\ call \in Call /\ call.pc = "note" /\ call.count = failures
      /\ call.who = calls[c].who /\ call.pass = calls[c].pass
  BY DEF IInv, TypeOK, Call, Pc
<1> HIDE DEF call
<1>3. Moves(c) /\ calls'[c] = call
  BY <1>1, <1>2 DEF IInv, TypeOK, Moves
<1>4. Informed(c)' /\ c \in Owing
  BY <1>1, <1>2, <1>3 DEF IInv, Informed, WillVerify, Owing
<1> QED BY <1>1, <1>2, <1>3, <1>4, NothingTaken, NothingSaid, SellersAlone, Quietly
     DEF Others, IInv, TypeOK

LEMMA NoteStep ==
  ASSUME IInv, NEW c \in Calls, note(c)
  PROVE  IInv'
<1>1. /\ calls[c].pc = "note" /\ failures' = calls[c].count + 1 /\ End(c)
      /\ UNCHANGED <<inspections, seller, graded, open, requested,
                     vouched, word, failed>>
  BY DEF note, history
<1>2. Moves(c) /\ calls'[c] = Idle /\ calm' \in BOOLEAN
  BY <1>1, EndMoves DEF End, IInv, TypeOK
<1>3. Informed(c)'
  BY <1>2, IdleIsCall DEF Informed, WillVerify
<1>4. RowsStay /\ WordsStay
  BY <1>1, NothingTaken, NothingSaid
<1>5. Owing' = Owing \ {c} /\ c \in Owing
  BY <1>1, <1>2, IdleIsCall DEF IInv, Informed, Moves, Owing
<1>6. Cardinality(Owing') = Cardinality(Owing) - 1 /\ Cardinality(Owing) \in Nat
  BY <1>5, OwingFinite, FS_RemoveElement
<1>7. /\ failed \in Nat /\ \A d \in Calls : calls[d].count \in Nat
      /\ \A d \in Calls : calls[d].pc = "note" =>
           calls[d].count + Cardinality(Owing) <= failed
  BY DEF IInv, TypeOK, Call, Tally
<1>8. TypeOK'
  BY <1>1, <1>2, <1>4, <1>7 DEF IInv, TypeOK, Moves, RowsStay, WordsStay
<1>9. failures' + Cardinality(Owing') <= failed'
  BY <1>1, <1>6, <1>7
<1>10. ASSUME NEW d \in Calls, calls'[d].pc = "note"
       PROVE  calls'[d].count + Cardinality(Owing') <= failed'
  <2>1. calls'[d] = calls[d]
    BY <1>2, <1>10, IdleIsCall DEF Moves
  <2> QED BY <1>1, <1>6, <1>7, <1>10, <2>1
<1>11. Tally'
  BY <1>9, <1>10 DEF Tally
<1>12. Cardinality(Owing') \in Nat
  BY <1>5, OwingFinite, FS_RemoveElement, FS_CardinalityType
<1>13. failures' <= failed'
  BY <1>1, <1>7, <1>9, <1>12
<1>14. VerifiedWasVouched'
  BY <1>1, <1>13 DEF IInv, VerifiedWasVouched
<1> QED BY <1>2, <1>3, <1>4, <1>8, <1>11, <1>14, StillInformed DEF IInv, RowsStay

LEMMA PatchStep ==
  ASSUME IInv, NEW c \in Calls, patch(c)
  PROVE  IInv'
<1>1. calls[c].pc = "patch" /\ calls[c] \in Call
  BY DEF patch, IInv, TypeOK
<1>2. /\ calls[c].who \in Sellers /\ calls[c].of \in Inspections
      /\ inspections[calls[c].of].status # "none"
  BY <1>1 DEF IInv, Informed
<1>3. CASE calls[c].status # "COMPLETED"
  <2>1. /\ inspections' = [inspections EXCEPT ![calls[c].of].status = calls[c].status]
        /\ End(c) /\ UNCHANGED <<seller, graded, open, failures, requested,
                                 vouched, word, failed>>
    BY <1>3 DEF patch, history
  <2>2. RowsStay
    BY <1>1, <1>2, <2>1, StatusStays DEF Call
  <2> QED BY <2>1, <2>2, NothingSaid, SellersAlone, Leaves DEF End, Others, IInv, TypeOK
<1>4. CASE calls[c].status = "COMPLETED"
  <2>1. PICK pc \in {"cascade", "verify"} : Written(c, "COMPLETED", pc)
    BY <1>4 DEF patch
  <2>2. /\ RowsStay /\ Moves(c) /\ Others
        /\ calls'[c].pc = pc /\ calls'[c].who = calls[c].who
        /\ UNCHANGED <<seller, failures>>
    BY <1>1, <2>1, WrittenMoves DEF Pc
  <2>3. WordsStay /\ calls[c].who \in vouched' /\ UNCHANGED failed
    BY <1>2, <1>4, GoodWord DEF patch
  <2>4. Informed(c)' /\ c \notin Owing'
    BY <1>2, <2>2, <2>3 DEF Informed, WillVerify, Owing
  <2> QED BY <2>2, <2>3, <2>4, SellersAlone, Quietly
<1> QED BY <1>3, <1>4

LEMMA CascadeStep ==
  ASSUME IInv, NEW c \in Calls, cascade(c)
  PROVE  IInv'
<1>1. /\ calls[c].pc = "cascade" /\ Goto(c, "verify")
      /\ UNCHANGED <<inspections, seller, open, failures, requested,
                     vouched, word, failed>>
  BY DEF cascade, history
<1>2. calls[c].who \in Sellers /\ calls[c].who \in vouched
  BY <1>1 DEF IInv, Informed, WillVerify
<1>3. graded' \subseteq Sellers
  BY <1>2 DEF cascade, IInv, TypeOK
<1>4. /\ Moves(c) /\ calm' \in BOOLEAN
      /\ calls'[c].pc = "verify" /\ calls'[c].who = calls[c].who
  BY <1>1, GotoMoves DEF IInv, Pc
<1>5. Informed(c)' /\ c \notin Owing'
  BY <1>1, <1>2, <1>4 DEF Informed, WillVerify, Owing
<1> QED BY <1>1, <1>3, <1>4, <1>5, NothingTaken, NothingSaid, SellersAlone, Quietly
     DEF Others, IInv, TypeOK

LEMMA VerifyStep ==
  ASSUME IInv, NEW c \in Calls, verify(c)
  PROVE  IInv'
<1>1. /\ calls[c].pc = "verify" /\ Goto(c, "check")
      /\ seller' = [seller EXCEPT ![calls[c].who].verified = TRUE]
      /\ UNCHANGED <<inspections, graded, open, failures, requested,
                     vouched, word, failed>>
  BY DEF verify, history
<1>2. calls[c].who \in Sellers /\ calls[c].who \in vouched
  BY <1>1 DEF IInv, Informed, WillVerify
<1>3. WordsStay
  BY <1>1, NothingSaid
<1>4. SellersStay
  BY <1>1, <1>2, <1>3, SellerVerified
<1> QED BY <1>1, <1>3, <1>4, GoesOn DEF IInv, TypeOK, Plain

LEMMA CheckStep ==
  ASSUME IInv, NEW c \in Calls, check(c)
  PROVE  IInv'
<1>1. CASE End(c)
  BY <1>1, Ends DEF check, End, IInv, TypeOK
<1>2. CASE ~End(c)
  <2> DEFINE call == [calls[c] EXCEPT !.pc = "ensure", !.tested = Accepted]
  <2>1. /\ calls[c].pc = "check" /\ Ready /\ calls' = [calls EXCEPT ![c] = call]
        /\ UNCHANGED <<inspections, seller, graded, open, failures, requested,
                       vouched, word, failed, calm>>
    BY <1>2 DEF check, rows, history
  <2>2. /\ call \in Call /\ call.pc = "ensure" /\ call.who = calls[c].who
        /\ call.tested = Accepted
    BY DEF IInv, TypeOK, Call, Pc, Accepted
  <2> HIDE DEF call
  <2>3. Moves(c) /\ calls'[c] = call
    BY <2>1, <2>2 DEF IInv, TypeOK, Moves
  <2>4. Accepted \subseteq vouched
    BY <2>1 DEF Ready, AllVerified, Accepted, IInv, VerifiedWasVouched
  <2>5. Informed(c)' /\ c \notin Owing'
    BY <2>1, <2>2, <2>3, <2>4 DEF IInv, Informed, WillVerify, Owing
  <2> QED BY <2>1, <2>2, <2>3, <2>5, NothingTaken, NothingSaid, SellersAlone, Quietly
           DEF Others, IInv, TypeOK
<1> QED BY <1>1, <1>2

LEMMA EnsureStep ==
  ASSUME IInv, NEW c \in Calls, ensure(c)
  PROVE  IInv'
<1>1. CASE End(c)
  BY <1>1, Ends DEF ensure, End, IInv, TypeOK
<1>2. CASE ~End(c)
  <2>1. /\ calls[c].pc = "ensure" /\ Goto(c, "points")
        /\ UNCHANGED <<inspections, seller, graded, open, failures, requested,
                       vouched, word, failed>>
    BY <1>2 DEF ensure, rows, history
  <2>2. /\ Moves(c) /\ calm' \in BOOLEAN /\ calls'[c].pc = "points"
        /\ calls'[c].who = calls[c].who /\ calls'[c].tested = calls[c].tested
    BY <2>1, GotoMoves DEF IInv, Pc
  <2>3. Informed(c)' /\ c \notin Owing'
    BY <2>1, <2>2 DEF IInv, Informed, WillVerify, Owing
  <2> QED BY <2>1, <2>2, <2>3, NothingTaken, NothingSaid, SellersAlone, Quietly
           DEF Others, IInv, TypeOK
<1> QED BY <1>1, <1>2

LEMMA PointsStep ==
  ASSUME IInv, NEW c \in Calls, points(c)
  PROVE  IInv'
<1>1. CASE Accepted = {}
  BY <1>1, Ends DEF points, End, IInv, TypeOK
<1>2. CASE Accepted # {}
  <2> DEFINE call == [calls[c] EXCEPT !.pc = "request", !.points = Accepted]
  <2>1. /\ calls[c].pc = "points" /\ calls' = [calls EXCEPT ![c] = call]
        /\ UNCHANGED <<inspections, seller, graded, open, failures, requested,
                       vouched, word, failed, calm>>
    BY <1>2 DEF points, rows, history
  <2>2. /\ call \in Call /\ call.pc = "request" /\ call.who = calls[c].who
        /\ call.tested = calls[c].tested
    BY DEF IInv, TypeOK, Call, Pc, Accepted
  <2> HIDE DEF call
  <2>3. Moves(c) /\ calls'[c] = call
    BY <2>1, <2>2 DEF IInv, TypeOK, Moves
  <2>4. Informed(c)' /\ c \notin Owing'
    BY <2>1, <2>2, <2>3 DEF IInv, Informed, WillVerify, Owing
  <2> QED BY <2>1, <2>2, <2>3, <2>4, NothingTaken, NothingSaid, SellersAlone, Quietly
           DEF Others, IInv, TypeOK
<1> QED BY <1>1, <1>2

LEMMA CreateStep ==
  ASSUME IInv, NEW c \in Calls, createTransportRequest(c)
  PROVE  IInv'
<1>1. /\ End(c) /\ requested' \in BOOLEAN
      /\ UNCHANGED <<inspections, seller, graded, open, failures,
                     vouched, word, failed>>
  BY DEF createTransportRequest, history
<1> QED BY <1>1, NothingTaken, NothingSaid, SellersAlone, Leaves
     DEF End, Others, IInv, TypeOK

-----------------------------------------------------------------------------
(* The theorems about every interleaving.                                  *)

\* The invariant holds at first.
LEMMA Initially == Init => IInv
<1> SUFFICES ASSUME Init PROVE IInv
  OBVIOUS
<1>1. TypeOK
  BY IdleIsCall DEF Init, TypeOK, Row, Seller
<1>2. OfSeller /\ \A c \in Calls : Informed(c)
  BY IdleIsCall DEF Init, OfSeller, Informed, WillVerify
<1>3. Owing = {}
  BY IdleIsCall DEF Init, Owing
<1>4. Cardinality(Owing) = 0
  BY <1>3, FS_EmptySet
<1>5. Tally
  BY <1>4, IdleIsCall DEF Init, Tally
<1>6. VerifiedWasVouched
  BY DEF Init, VerifiedWasVouched
<1> QED BY <1>1, <1>2, <1>5, <1>6 DEF IInv

\* However requests overlap and die, something spoke for the goods a request is
\* about to verify or has tested, and failures are owed before they are noted.
THEOREM InductiveInvariant == Spec => []IInv
<1>1. IInv /\ [Next]_vars => IInv'
  <2> SUFFICES ASSUME IInv, [Next]_vars PROVE IInv'
    OBVIOUS
  <2>1. CASE UNCHANGED vars
    <3>1. UNCHANGED <<inspections, seller, graded, open, failures, requested,
                      calls, vouched, word, failed, calm>>
      BY <2>1 DEF vars, rows, history
    <3>2. TypeOK' /\ OfSeller' /\ VerifiedWasVouched'
      BY <3>1 DEF IInv, TypeOK, OfSeller, VerifiedWasVouched
    <3>3. Tally' /\ \A c \in Calls : Informed(c)'
      BY <3>1 DEF IInv, Informed, WillVerify, Tally, Owing
    <3> QED BY <3>2, <3>3 DEF IInv
  <2>2. ASSUME NEW i \in Inspections, NEW s \in Sellers,
               createInspectionRequest(i, s)
        PROVE  IInv'
    BY <2>2, CreatedStep
  <2>3. ASSUME NEW i \in Inspections, assignInspector(i)
        PROVE  IInv'
    BY <2>3, StatusWritten DEF assignInspector, InspectionStatus
  <2>4. ASSUME NEW i \in Inspections, NEW status \in Sent,
               updateInspectionStatus(i, status)
        PROVE  IInv'
    BY <2>4, StatusWritten, SentAssumption
  <2>5. ASSUME NEW s \in Sellers, negotiates(s)
        PROVE  IInv'
    BY <2>5, NegotiatesStep
  <2>6. CASE requestTransport
    BY <2>6, RequestedStep
  <2>7. ASSUME NEW c \in Calls, NEW s \in Sellers, acceptOffer(c, s)
        PROVE  IInv'
    BY <2>7, AcceptStep
  <2>8. ASSUME NEW c \in Calls, NEW i \in Inspections, NEW pass \in BOOLEAN,
               submitInspectionResults(c, i, pass)
        PROVE  IInv'
    BY <2>8, SubmitStep
  <2>9. ASSUME NEW c \in Calls, NEW i \in Inspections, NEW status \in Sent,
               updateInspection(c, i, status)
        PROVE  IInv'
    BY <2>9, UpdateStep, SentAssumption
  <2>10. ASSUME NEW c \in Calls,
                \/ accepted(c) \/ conclude(c) \/ listing(c) \/ grade(c)
                \/ lookup(c) \/ inspect(c)
         PROVE  IInv'
    BY <2>10, AcceptedStep, ConcludeStep, ListingStep, GradeStep, LookupStep,
       InspectStep
  <2>11. ASSUME NEW c \in Calls,
                result(c) \/ sellers(c) \/ loss(c) \/ note(c)
         PROVE  IInv'
    BY <2>11, ResultStep, SellersStep, LossStep, NoteStep
  <2>12. ASSUME NEW c \in Calls,
                \/ patch(c) \/ cascade(c) \/ verify(c) \/ check(c)
                \/ ensure(c) \/ points(c) \/ createTransportRequest(c)
         PROVE  IInv'
    BY <2>12, PatchStep, CascadeStep, VerifyStep, CheckStep, EnsureStep,
       PointsStep, CreateStep
  <2>13. ASSUME NEW c \in Calls, fails(c)
         PROVE  IInv'
    BY <2>13, Ends DEF fails
  <2> QED BY <2>1, <2>2, <2>3, <2>4, <2>5, <2>6, <2>7, <2>8, <2>9, <2>10, <2>11,
             <2>12, <2>13 DEF Next
<1> QED BY Initially, <1>1, PTL DEF Spec

\* Rows and requests in flight keep their types.
THEOREM TypesKept == Spec => []TypeOK
<1>1. IInv => TypeOK
  BY DEF IInv
<1> QED BY <1>1, InductiveInvariant, PTL

\* However requests overlap and die, nobody is verified for whose goods nothing
\* ever spoke, and no more failures are noted than there were.
THEOREM WordFirst == Spec => []VerifiedWasVouched
<1>1. IInv => VerifiedWasVouched
  BY DEF IInv
<1> QED BY <1>1, InductiveInvariant, PTL

-----------------------------------------------------------------------------
(***************************************************************************)
(* What holds as long as requests do not overlap: the one that is under    *)
(* way finds what it wrote and what it read undisturbed.                   *)
(***************************************************************************)
\* The flag of a seller, and after a bad word its status, say what the last
\* word was.
Agrees(s) == /\ seller[s].verified <=> word[s] = "good"
             /\ word[s] = "bad" => seller[s].status = "FAILED_INSPECTION"
Resting == (\A s \in Sellers : Agrees(s)) /\ failures = failed

\* The request c is the only one, and knows what it relies on: only the seller
\* it is judging, and the failure it is noting, are behind the words.
Alone(c) == \A d \in Calls \ {c} : calls[d].pc = "idle"
Judging(c) == calls[c].pc \in {"sellers", "grade", "cascade", "verify"}
Word(c) == IF calls[c].pc = "sellers" /\ ~calls[c].pass THEN "bad" ELSE "good"
Expects(c) ==
  /\ \A s \in Sellers : Agrees(s) \/ (Judging(c) /\ s = calls[c].who)
  /\ Judging(c) => word[calls[c].who] = Word(c)
  /\ failed = IF c \in Owing THEN failures + 1 ELSE failures
  /\ calls[c].pc = "note" => calls[c].count = failures
  /\ calls[c].pc \in {"ensure", "points", "request"} =>
       Ready /\ calls[c].tested = Accepted
  /\ calls[c].pc = "request" => calls[c].points = Accepted

CalmInv == calm =>
  \/ (\A c \in Calls : calls[c].pc = "idle") /\ Resting
  \/ \E c \in Calls : calls[c].pc # "idle" /\ Alone(c) /\ Expects(c)

LEMMA OnlyOne ==
  ASSUME CalmInv, calm, NEW c \in Calls, calls[c].pc # "idle"
  PROVE  Alone(c) /\ Expects(c)
BY DEF CalmInv, Alone

LEMMA AtRest ==
  ASSUME CalmInv, calm, Quiet
  PROVE  Resting
BY IdleIsCall DEF CalmInv, Quiet

\* A request that neither judges nor notes has all words behind it.
LEMMA NothingOwed ==
  ASSUME CalmInv, calm, NEW c \in Calls, calls[c].pc # "idle",
         ~Judging(c), calls[c].pc \notin {"loss", "note"}
  PROVE  Resting
<1>1. Expects(c)
  BY OnlyOne
<1> QED BY <1>1 DEF Expects, Resting, Judging, Owing

\* A request ends, with nothing left to write.
LEMMA CalmEnd ==
  ASSUME IInv, CalmInv, NEW c \in Calls, calls[c].pc # "idle", End(c),
         calm => Resting'
  PROVE  CalmInv'
<1>1. Moves(c) /\ calls'[c].pc = "idle" /\ UNCHANGED calm
  BY EndMoves, IdleIsCall DEF IInv, End
<1>2. calm => \A d \in Calls : calls'[d].pc = "idle"
  BY <1>1, OnlyOne DEF Alone, Moves
<1> QED BY <1>1, <1>2 DEF CalmInv

\* A request goes on, and what it relies on is so.
LEMMA CalmMove ==
  ASSUME CalmInv, NEW c \in Calls, calls[c].pc # "idle", Moves(c), UNCHANGED calm,
         calls'[c].pc # "idle", calm => Expects(c)'
  PROVE  CalmInv'
<1>1. calm => Alone(c)'
  BY OnlyOne DEF Alone, Moves
<1> QED BY <1>1 DEF CalmInv

\* What a request relies on that has nothing to judge, to note or to load.
LEMMA Restful ==
  ASSUME NEW c \in Calls, Resting',
         calls'[c].pc \in {"accept", "result", "patch", "conclude", "listing", "lookup",
                           "inspect", "check"}
  PROVE  Expects(c)'
<1>1. c \notin Owing'
  BY DEF Owing
<1> QED BY <1>1 DEF Resting, Expects, Judging

\* A request that arrives finds the rows at rest.
LEMMA CalmArrival ==
  ASSUME IInv, CalmInv, NEW c \in Calls, NEW call \in Call, Begin(c, call),
         call.pc \in {"accept", "result", "patch"}, UNCHANGED <<rows, history>>
  PROVE  CalmInv'
<1>1. Moves(c) /\ calls'[c] = call /\ calm' = (calm /\ Quiet)
  BY DEF IInv, TypeOK, Begin, Moves
<1>2. SUFFICES ASSUME calm' PROVE calls'[c].pc # "idle" /\ Alone(c)' /\ Expects(c)'
  BY DEF CalmInv
<1>3. Resting
  BY <1>1, <1>2, AtRest
<1>4. Resting'
  BY <1>3 DEF rows, history, Resting, Agrees
<1>5. \A d \in Calls : calls[d].pc = "idle"
  BY <1>1, <1>2, IdleIsCall DEF Quiet
<1>6. Alone(c)'
  BY <1>1, <1>5 DEF Alone, Moves
<1> QED BY <1>1, <1>4, <1>6, Restful

\* A request with no await that matters finds the rows at rest and leaves them so.
LEMMA CalmAtOnce ==
  ASSUME CalmInv, AtOnce, calm /\ Resting => Resting'
  PROVE  CalmInv'
<1>1. UNCHANGED calls /\ calm' = (calm /\ Quiet)
  BY DEF AtOnce
<1>2. SUFFICES ASSUME calm' PROVE Resting' /\ \A d \in Calls : calls'[d].pc = "idle"
  BY DEF CalmInv
<1> QED BY <1>1, <1>2, AtRest, IdleIsCall DEF Quiet

\* A request goes on, with nothing to judge, to note or to load.
LEMMA CalmGoesOn ==
  ASSUME IInv, CalmInv, NEW c \in Calls, calls[c].pc # "idle", NEW pc \in Plain,
         Goto(c, pc), calm => Resting'
  PROVE  CalmInv'
<1>1. Moves(c) /\ calls'[c].pc = pc /\ UNCHANGED calm
  BY GotoMoves DEF IInv, Plain, Pc, Goto
<1>2. calm => Expects(c)'
  BY <1>1, Restful DEF Plain
<1> QED BY <1>1, <1>2, CalmMove DEF Plain

\* What ends without a trace leaves the rows at rest.
LEMMA CalmLeaves ==
  ASSUME IInv, CalmInv, NEW c \in Calls, calls[c].pc # "idle",
         ~Judging(c), calls[c].pc \notin {"loss", "note"}, End(c),
         UNCHANGED <<seller, failures, word, failed>>
  PROVE  CalmInv'
<1>1. calm => Resting'
  BY NothingOwed DEF Resting, Agrees
<1> QED BY <1>1, CalmEnd

-----------------------------------------------------------------------------
(* The steps of Next, when no requests overlap.                            *)
LEMMA CalmStatus ==
  ASSUME IInv, NEW s \in Sellers, NEW status \in {"NEGOTIATING", "ACCEPTED"},
         Forgiven(s), seller' = [seller EXCEPT ![s].status = status],
         UNCHANGED failures, Resting
  PROVE  Resting'
<1>1. /\ WordsStay /\ UNCHANGED <<vouched, failed>> /\ word'[s] # "bad"
      /\ word'[s] = "good" <=> word[s] = "good"
      /\ \A t \in Sellers : t # s => word'[t] = word[t]
  BY BadForgotten
<1>2. /\ \A t \in Sellers : seller'[t].verified = seller[t].verified
      /\ \A t \in Sellers : t # s => seller'[t] = seller[t]
  BY <1>1, SellerStatus
<1>3. ASSUME NEW t \in Sellers PROVE Agrees(t)'
  BY <1>1, <1>2 DEF Resting, Agrees
<1> QED BY <1>1, <1>3 DEF Resting

LEMMA CalmNegotiates ==
  ASSUME IInv, CalmInv, NEW s \in Sellers, negotiates(s)
  PROVE  CalmInv'
<1>1. /\ AtOnce /\ Forgiven(s) /\ UNCHANGED failures
      /\ seller' = [seller EXCEPT ![s].status = "NEGOTIATING"]
  BY DEF negotiates
<1> QED BY <1>1, CalmStatus, CalmAtOnce

LEMMA CalmAccepted ==
  ASSUME IInv, CalmInv, NEW c \in Calls, accepted(c)
  PROVE  CalmInv'
<1>1. /\ calls[c].pc = "accept" /\ Forgiven(calls[c].who) /\ UNCHANGED failures
      /\ seller' = [seller EXCEPT ![calls[c].who].status = "ACCEPTED"]
      /\ Goto(c, "conclude")
  BY DEF accepted
<1>2. calls[c].who \in Sellers
  BY <1>1 DEF IInv, Informed
<1>3. calm => Resting
  BY <1>1, NothingOwed DEF Judging
<1>4. calm => Resting'
  BY <1>1, <1>2, <1>3, CalmStatus
<1> QED BY <1>1, <1>4, CalmGoesOn DEF Plain

\* A word on s is said, and c is to act on it.
LEMMA CalmSaid ==
  ASSUME IInv, CalmInv, NEW c \in Calls, calls[c].pc \in {"listing", "result", "patch"},
         Moves(c), Judging(c)', calls'[c].who = calls[c].who,
         word'[calls[c].who] = Word(c)',
         \A t \in Sellers : t # calls[c].who => word'[t] = word[t],
         UNCHANGED <<seller, failures, calm>>,
         failed' = IF c \in Owing' THEN failed + 1 ELSE failed
  PROVE  CalmInv'
<1>1. calm => Resting
  BY NothingOwed DEF Judging
<1>2. ASSUME calm PROVE Expects(c)'
  <2>1. failed' = IF c \in Owing' THEN failures' + 1 ELSE failures'
    BY <1>1, <1>2 DEF Resting
  <2>2. \A t \in Sellers : t # calls'[c].who => Agrees(t)'
    BY <1>1, <1>2 DEF Resting, Agrees
  <2> QED BY <2>1, <2>2 DEF Expects, Judging
<1> QED BY <1>2, CalmMove DEF Judging

LEMMA CalmListing ==
  ASSUME IInv, CalmInv, NEW c \in Calls, listing(c)
  PROVE  CalmInv'
<1>1. /\ calls[c].pc = "listing" /\ calls[c].who \in Sellers
      /\ UNCHANGED <<seller, failures>>
  BY DEF listing, rows, IInv, Informed
<1>2. CASE calls[c].who \notin graded
  <2>1. Goto(c, "lookup") /\ UNCHANGED <<word, failed>>
    BY <1>2 DEF listing, history
  <2>2. calm => Resting'
    BY <1>1, <2>1, NothingOwed DEF Judging, Resting, Agrees
  <2> QED BY <1>1, <2>1, <2>2, CalmGoesOn DEF Plain
<1>3. CASE calls[c].who \in graded
  <2>1. Goto(c, "grade") /\ Vouched(calls[c].who)
    BY <1>3 DEF listing
  <2>2. /\ UNCHANGED failed /\ word'[calls[c].who] = "good"
        /\ \A t \in Sellers : t # calls[c].who => word'[t] = word[t]
    BY <1>1, <2>1, GoodWord
  <2>3. /\ Moves(c) /\ UNCHANGED calm
        /\ calls'[c].pc = "grade" /\ calls'[c].who = calls[c].who
    BY <2>1, GotoMoves DEF IInv, Pc
  <2>4. Judging(c)' /\ Word(c)' = "good" /\ c \notin Owing'
    BY <2>3 DEF Judging, Word, Owing
  <2> QED BY <1>1, <2>2, <2>3, <2>4, CalmSaid
<1> QED BY <1>2, <1>3

LEMMA CalmResult ==
  ASSUME IInv, CalmInv, NEW c \in Calls, result(c)
  PROVE  CalmInv'
<1>1. /\ calls[c].pc = "result" /\ Written(c, "COMPLETED", "sellers")
      /\ calls[c].who \in Sellers
  BY DEF result, IInv, Informed
<1>2. /\ Moves(c) /\ UNCHANGED <<seller, failures, calm>>
      /\ calls'[c].pc = "sellers" /\ calls'[c].who = calls[c].who
      /\ calls'[c].pass = calls[c].pass
  BY <1>1, WrittenMoves DEF Pc
<1>3. Judging(c)'
  BY <1>2 DEF Judging
<1>4. CASE calls[c].pass
  <2>1. /\ UNCHANGED failed /\ word'[calls[c].who] = "good"
        /\ \A t \in Sellers : t # calls[c].who => word'[t] = word[t]
    BY <1>1, <1>4, GoodWord DEF result
  <2>2. Word(c)' = "good" /\ c \notin Owing'
    BY <1>2, <1>4 DEF Word, Owing
  <2> QED BY <1>1, <1>2, <1>3, <2>1, <2>2, CalmSaid
<1>5. CASE ~calls[c].pass
  <2>1. word' = [word EXCEPT ![calls[c].who] = "bad"] /\ failed' = failed + 1
    BY <1>5 DEF result
  <2>2. /\ word'[calls[c].who] = "bad"
        /\ \A t \in Sellers : t # calls[c].who => word'[t] = word[t]
    BY <1>1, <2>1 DEF IInv, TypeOK
  <2>3. Word(c)' = "bad" /\ c \in Owing'
    BY <1>2, <1>5 DEF Word, Owing
  <2> QED BY <1>1, <1>2, <1>3, <2>1, <2>2, <2>3, CalmSaid
<1> QED BY <1>4, <1>5

LEMMA CalmPatch ==
  ASSUME IInv, CalmInv, NEW c \in Calls, patch(c)
  PROVE  CalmInv'
<1>1. calls[c].pc = "patch" /\ calls[c].who \in Sellers
  BY DEF patch, IInv, Informed
<1>2. CASE calls[c].status # "COMPLETED"
  <2>1. End(c) /\ UNCHANGED <<seller, failures, word, failed>>
    BY <1>2 DEF patch, history
  <2> QED BY <1>1, <2>1, CalmLeaves DEF Judging
<1>3. CASE calls[c].status = "COMPLETED"
  <2>1. PICK pc \in {"cascade", "verify"} : Written(c, "COMPLETED", pc)
    BY <1>3 DEF patch
  <2>2. /\ Moves(c) /\ UNCHANGED <<seller, failures, calm>>
        /\ calls'[c].pc = pc /\ calls'[c].who = calls[c].who
    BY <1>1, <2>1, WrittenMoves DEF Pc
  <2>3. /\ UNCHANGED failed /\ word'[calls[c].who] = "good"
        /\ \A t \in Sellers : t # calls[c].who => word'[t] = word[t]
    BY <1>1, <1>3, GoodWord DEF patch
  <2>4. Judging(c)' /\ Word(c)' = "good" /\ c \notin Owing'
    BY <2>2 DEF Judging, Word, Owing
  <2> QED BY <1>1, <2>2, <2>3, <2>4, CalmSaid
<1> QED BY <1>2, <1>3

\* The one that is judged is verified, and all words are behind the request.
LEMMA CalmVerified ==
  ASSUME IInv, CalmInv, calm, NEW c \in Calls, Judging(c), Word(c) = "good",
         c \notin Owing, UNCHANGED <<failures, vouched, word, failed>>,
         calls[c].who \in vouched,
         seller' = [seller EXCEPT ![calls[c].who].verified = TRUE]
  PROVE  Resting'
<1>1. Expects(c) /\ calls[c].who \in Sellers
  BY OnlyOne DEF Judging, IInv, Informed
<1>2. WordsStay
  BY NothingSaid
<1>3. /\ seller'[calls[c].who].verified
      /\ \A t \in Sellers : t # calls[c].who => seller'[t] = seller[t]
  BY <1>1, <1>2, SellerVerified
<1>4. ASSUME NEW t \in Sellers PROVE Agrees(t)'
  BY <1>1, <1>3 DEF Expects, Agrees
<1> QED BY <1>1, <1>4 DEF Expects, Resting

LEMMA CalmGrade ==
  ASSUME IInv, CalmInv, NEW c \in Calls, grade(c)
  PROVE  CalmInv'
<1>1. /\ calls[c].pc = "grade" /\ End(c)
      /\ seller' = [seller EXCEPT ![calls[c].who].verified = TRUE]
      /\ UNCHANGED <<failures, vouched, word, failed>>
  BY DEF grade, history
<1>2. Judging(c) /\ Word(c) = "good" /\ c \notin Owing
  BY <1>1 DEF Judging, Word, Owing
<1>3. calls[c].who \in vouched
  BY <1>1 DEF IInv, Informed, WillVerify
<1> QED BY <1>1, <1>2, <1>3, CalmVerified, CalmEnd

LEMMA CalmVerify ==
  ASSUME IInv, CalmInv, NEW c \in Calls, verify(c)
  PROVE  CalmInv'
<1>1. /\ calls[c].pc = "verify" /\ Goto(c, "check")
      /\ seller' = [seller EXCEPT ![calls[c].who].verified = TRUE]
      /\ UNCHANGED <<failures, vouched, word, failed>>
  BY DEF verify, history
<1>2. Judging(c) /\ Word(c) = "good" /\ c \notin Owing
  BY <1>1 DEF Judging, Word, Owing
<1>3. calls[c].who \in vouched
  BY <1>1 DEF IInv, Informed, WillVerify
<1>4. calm => Resting'
  BY <1>1, <1>2, <1>3, CalmVerified
<1> QED BY <1>1, <1>4, CalmGoesOn DEF Plain

LEMMA CalmSellers ==
  ASSUME IInv, CalmInv, NEW c \in Calls, sellers(c)
  PROVE  CalmInv'
<1> DEFINE s == calls[c].who
<1>1. /\ calls[c].pc = "sellers" /\ seller' = Judged(s, calls[c].pass)
      /\ UNCHANGED <<failures, vouched, word, failed>>
  BY DEF sellers, history
<1>2. s \in Sellers /\ Judging(c)
  BY <1>1 DEF IInv, Informed, Judging
<1>3. CASE calls[c].pass
  <2>1. Word(c) = "good" /\ c \notin Owing /\ s \in vouched
    BY <1>1, <1>3 DEF Word, Owing, IInv, Informed, WillVerify
  <2>2. seller' = [seller EXCEPT ![s].verified = TRUE]
    BY <1>1, <1>3 DEF Judged
  <2>3. calm => Resting'
    BY <1>1, <1>2, <2>1, <2>2, CalmVerified
  <2> QED BY <1>1, <1>3, <2>3, CalmEnd DEF sellers
<1>4. CASE ~calls[c].pass
  <2>1. /\ Moves(c) /\ calls'[c].pc = "loss" /\ UNCHANGED calm
        /\ calls'[c].pass = calls[c].pass
    BY <1>4, GotoMoves DEF sellers, IInv, Pc
  <2>2. seller' = [seller EXCEPT ![s] = [status |-> "FAILED_INSPECTION", verified |-> FALSE]]
    BY <1>1, <1>4 DEF Judged
  <2>3. /\ seller'[s] = [status |-> "FAILED_INSPECTION", verified |-> FALSE]
        /\ \A t \in Sellers : t # s => seller'[t] = seller[t]
    BY <1>2, <2>2 DEF IInv, TypeOK
  <2>4. ASSUME calm PROVE Expects(c)'
    <3>1. Expects(c) /\ Word(c) = "bad" /\ c \in Owing
      BY <1>1, <1>4, <2>4, OnlyOne DEF Word, Owing
    <3>2. ASSUME NEW t \in Sellers PROVE Agrees(t)'
      BY <1>1, <1>2, <2>3, <3>1 DEF Expects, Agrees
    <3>3. c \in Owing'
      BY <1>4, <2>1 DEF Owing
    <3> QED BY <1>1, <2>1, <3>1, <3>2, <3>3 DEF Expects, Judging
  <2> QED BY <1>1, <2>1, <2>4, CalmMove
<1> QED BY <1>3, <1>4

LEMMA CalmLoss ==
  ASSUME IInv, CalmInv, NEW c \in Calls, loss(c)
  PROVE  CalmInv'
<1> DEFINE call == [calls[c] EXCEPT !.pc = "note", !.count = failures]
<1>1. /\ calls[c].pc = "loss" /\ UNCHANGED <<seller, failures, word, failed, calm>>
      /\ calls' = [calls EXCEPT ![c] = call]
  BY DEF loss, rows, history
<1>2. /\ call \in Call /\ call.pc = "note" /\ call.count = failures
      /\ call.pass = calls[c].pass
  BY DEF IInv, TypeOK, Call, Pc
<1> HIDE DEF call
<1>3. Moves(c) /\ calls'[c] = call
  BY <1>1, <1>2 DEF IInv, TypeOK, Moves
<1>4. c \in Owing <=> c \in Owing'
  BY <1>1, <1>2, <1>3 DEF Owing
<1>5. calm => Expects(c)'
  BY <1>1, <1>2, <1>3, <1>4, OnlyOne DEF Expects, Agrees, Judging
<1> QED BY <1>1, <1>2, <1>3, <1>5, CalmMove

LEMMA CalmNote ==
  ASSUME IInv, CalmInv, NEW c \in Calls, note(c)
  PROVE  CalmInv'
<1>1. /\ calls[c].pc = "note" /\ failures' = calls[c].count + 1 /\ End(c)
      /\ UNCHANGED <<seller, word, failed>>
  BY DEF note, history
<1>2. c \in Owing
  BY <1>1 DEF IInv, Informed, Owing
<1>3. calm => Resting'
  BY <1>1, <1>2, OnlyOne DEF Expects, Agrees, Judging, Resting
<1> QED BY <1>1, <1>3, CalmEnd

LEMMA CalmCascade ==
  ASSUME IInv, CalmInv, NEW c \in Calls, cascade(c)
  PROVE  CalmInv'
<1>1. /\ calls[c].pc = "cascade" /\ Goto(c, "verify")
      /\ UNCHANGED <<seller, failures, word, failed>>
  BY DEF cascade, history
<1>2. /\ Moves(c) /\ calls'[c].pc = "verify" /\ calls'[c].who = calls[c].who
      /\ UNCHANGED calm
  BY <1>1, GotoMoves DEF IInv, Pc
<1>3. c \notin Owing /\ c \notin Owing'
  BY <1>1, <1>2 DEF Owing
<1>4. calm => Expects(c)'
  BY <1>1, <1>2, <1>3, OnlyOne DEF Expects, Agrees, Judging, Word
<1> QED BY <1>1, <1>2, <1>4, CalmMove

LEMMA CalmCheck ==
  ASSUME IInv, CalmInv, NEW c \in Calls, check(c)
  PROVE  CalmInv'
<1>1. calls[c].pc = "check" /\ UNCHANGED <<seller, failures, word, failed>>
  BY DEF check, rows, history
<1>2. CASE End(c)
  BY <1>1, <1>2, CalmLeaves DEF Judging
<1>3. CASE ~End(c)
  <2> DEFINE call == [calls[c] EXCEPT !.pc = "ensure", !.tested = Accepted]
  <2>1. Ready /\ calls' = [calls EXCEPT ![c] = call] /\ UNCHANGED calm
    BY <1>3 DEF check
  <2>2. call \in Call /\ call.pc = "ensure" /\ call.tested = Accepted
    BY DEF IInv, TypeOK, Call, Pc, Accepted
  <2> HIDE DEF call
  <2>3. Moves(c) /\ calls'[c] = call
    BY <2>1, <2>2 DEF IInv, TypeOK, Moves
  <2>4. Ready' /\ Accepted' = Accepted
    BY <1>1, <2>1 DEF Ready, AllVerified, Accepted
  <2>5. ASSUME calm PROVE Expects(c)'
    <3>1. Resting
      BY <1>1, <2>5, NothingOwed DEF Judging
    <3>2. c \notin Owing'
      BY <2>2, <2>3 DEF Owing
    <3> QED BY <1>1, <2>2, <2>3, <2>4, <3>1, <3>2 DEF Resting, Expects, Agrees, Judging
  <2> QED BY <1>1, <2>1, <2>2, <2>3, <2>5, CalmMove
<1> QED BY <1>2, <1>3

LEMMA CalmEnsure ==
  ASSUME IInv, CalmInv, NEW c \in Calls, ensure(c)
  PROVE  CalmInv'
<1>1. calls[c].pc = "ensure" /\ UNCHANGED <<seller, failures, word, failed>>
  BY DEF ensure, rows, history
<1>2. CASE End(c)
  BY <1>1, <1>2, CalmLeaves DEF Judging
<1>3. CASE ~End(c)
  <2>1. Goto(c, "points")
    BY <1>3 DEF ensure
  <2>2. /\ Moves(c) /\ calls'[c].pc = "points" /\ calls'[c].tested = calls[c].tested
        /\ UNCHANGED calm
    BY <2>1, GotoMoves DEF IInv, Pc
  <2>3. c \notin Owing /\ c \notin Owing'
    BY <1>1, <2>2 DEF Owing
  <2>4. (Ready' <=> Ready) /\ Accepted' = Accepted
    BY <1>1 DEF Ready, AllVerified, Accepted
  <2>5. calm => Expects(c)'
    BY <1>1, <2>2, <2>3, <2>4, OnlyOne DEF Expects, Agrees, Judging
  <2> QED BY <1>1, <2>2, <2>5, CalmMove
<1> QED BY <1>2, <1>3

LEMMA CalmPoints ==
  ASSUME IInv, CalmInv, NEW c \in Calls, points(c)
  PROVE  CalmInv'
<1>1. calls[c].pc = "points" /\ UNCHANGED <<seller, failures, word, failed>>
  BY DEF points, rows, history
<1>2. CASE Accepted = {}
  BY <1>1, <1>2, CalmLeaves DEF points, Judging
<1>3. CASE Accepted # {}
  <2> DEFINE call == [calls[c] EXCEPT !.pc = "request", !.points = Accepted]
  <2>1. calls' = [calls EXCEPT ![c] = call] /\ UNCHANGED calm
    BY <1>3 DEF points
  <2>2. /\ call \in Call /\ call.pc = "request" /\ call.points = Accepted
        /\ call.tested = calls[c].tested
    BY DEF IInv, TypeOK, Call, Pc, Accepted
  <2> HIDE DEF call
  <2>3. Moves(c) /\ calls'[c] = call
    BY <2>1, <2>2 DEF IInv, TypeOK, Moves
  <2>4. (Ready' <=> Ready) /\ Accepted' = Accepted
    BY <1>1 DEF Ready, AllVerified, Accepted
  <2>5. c \notin Owing /\ c \notin Owing'
    BY <1>1, <2>2, <2>3 DEF Owing
  <2>6. calm => Expects(c)'
    BY <1>1, <2>2, <2>3, <2>4, <2>5, OnlyOne DEF Expects, Agrees, Judging
  <2> QED BY <1>1, <2>1, <2>2, <2>3, <2>6, CalmMove
<1> QED BY <1>2, <1>3

LEMMA CalmUpdate ==
  ASSUME IInv, CalmInv, NEW c \in Calls, NEW i \in Inspections,
         NEW status \in InspectionStatus, updateInspection(c, i, status)
  PROVE  CalmInv'
<1> DEFINE call == [About(i) EXCEPT !.pc = "patch", !.status = status]
<1>1. /\ inspections[i].status # "none" /\ Begin(c, call) /\ UNCHANGED <<rows, history>>
  BY DEF updateInspection
<1>2. /\ call \in Call /\ call.pc = "patch" /\ call.of = i /\ call.who \in Sellers
  BY <1>1, PatchIsCall
<1> HIDE DEF call
<1> QED BY <1>1, <1>2, CalmArrival

\* One step per action.
LEMMA CalmStep ==
  ASSUME IInv, CalmInv, Next
  PROVE  CalmInv'
<1>1. ASSUME AtOnce, UNCHANGED <<seller, failures, history>>
      PROVE  CalmInv'
  BY <1>1, CalmAtOnce DEF history, Resting, Agrees
<1>2. ASSUME \/ \E i \in Inspections, s \in Sellers : createInspectionRequest(i, s)
             \/ \E i \in Inspections, status \in InspectionStatus :
                  updateInspectionStatus(i, status)
             \/ requestTransport
      PROVE  CalmInv'
  BY <1>1, <1>2 DEF createInspectionRequest, updateInspectionStatus, requestTransport
<1>3. ASSUME NEW c \in Calls, NEW s \in Sellers, acceptOffer(c, s)
      PROVE  CalmInv'
  <2> DEFINE call == [Idle EXCEPT !.pc = "accept", !.who = s]
  <2>1. call \in Call /\ call.pc = "accept"
    BY DEF Idle, Call, Pc, InspectionStatus
  <2>2. Begin(c, call) /\ UNCHANGED <<rows, history>>
    BY <1>3 DEF acceptOffer
  <2> HIDE DEF call
  <2> QED BY <2>1, <2>2, CalmArrival
<1>4. ASSUME NEW c \in Calls, NEW i \in Inspections, NEW pass \in BOOLEAN,
             submitInspectionResults(c, i, pass)
      PROVE  CalmInv'
  <2> DEFINE call == [About(i) EXCEPT !.pc = "result", !.pass = pass]
  <2>1. /\ inspections[i].status # "none" /\ Begin(c, call)
        /\ UNCHANGED <<rows, history>>
    BY <1>4 DEF submitInspectionResults
  <2>2. call \in Call /\ call.pc = "result"
    BY <2>1, ResultIsCall
  <2> HIDE DEF call
  <2> QED BY <2>1, <2>2, CalmArrival
<1>5. ASSUME NEW c \in Calls, NEW i \in Inspections, NEW status \in Sent,
             updateInspection(c, i, status)
      PROVE  CalmInv'
  BY <1>5, SentAssumption, CalmUpdate
<1>6. ASSUME NEW c \in Calls, conclude(c)
      PROVE  CalmInv'
  <2>1. /\ calls[c].pc = "conclude" /\ Goto(c, "listing")
        /\ UNCHANGED <<seller, failures, word, failed>>
    BY <1>6 DEF conclude, history
  <2>2. calm => Resting'
    BY <2>1, NothingOwed DEF Judging, Resting, Agrees
  <2> QED BY <2>1, <2>2, CalmGoesOn DEF Plain
<1>7. ASSUME NEW c \in Calls, lookup(c)
      PROVE  CalmInv'
  <2>1. calls[c].pc = "lookup" /\ UNCHANGED <<seller, failures, word, failed>>
    BY <1>7 DEF lookup, rows, history
  <2>2. calm => Resting'
    BY <2>1, NothingOwed DEF Judging, Resting, Agrees
  <2>3. End(c) \/ Goto(c, "inspect")
    BY <1>7 DEF lookup
  <2> QED BY <2>1, <2>2, <2>3, CalmGoesOn, CalmEnd DEF Plain
<1>8. ASSUME NEW c \in Calls, inspect(c) \/ createTransportRequest(c)
      PROVE  CalmInv'
  <2>1. /\ calls[c].pc \in {"inspect", "request"} /\ End(c)
        /\ UNCHANGED <<seller, failures, word, failed>>
    BY <1>8 DEF inspect, createTransportRequest, history
  <2> QED BY <2>1, CalmLeaves DEF Judging
<1>9. ASSUME NEW c \in Calls, fails(c)
      PROVE  CalmInv'
  BY <1>9 DEF fails, CalmInv
<1>10. ASSUME NEW c \in Calls,
              \/ accepted(c) \/ listing(c) \/ grade(c) \/ result(c) \/ sellers(c)
              \/ loss(c) \/ note(c)
       PROVE  CalmInv'
  BY <1>10, CalmAccepted, CalmListing, CalmGrade, CalmResult, CalmSellers,
     CalmLoss, CalmNote
<1>11. ASSUME NEW c \in Calls,
              \/ patch(c) \/ cascade(c) \/ verify(c) \/ check(c)
              \/ ensure(c) \/ points(c)
       PROVE  CalmInv'
  BY <1>11, CalmPatch, CalmCascade, CalmVerify, CalmCheck, CalmEnsure, CalmPoints
<1> QED BY <1>2, <1>3, <1>4, <1>5, <1>6, <1>7, <1>8, <1>9, <1>10, <1>11,
           CalmNegotiates, SentAssumption
           DEF Next, assignInspector, InspectionStatus

\* Requests that do not overlap find what they wrote and read undisturbed.
THEOREM CalmInvariant == Spec => []CalmInv
<1>1. Init => CalmInv
  BY IdleIsCall DEF Init, CalmInv, Resting, Agrees
<1>2. IInv /\ CalmInv /\ [Next]_vars => CalmInv'
  <2> SUFFICES ASSUME IInv, CalmInv, [Next]_vars PROVE CalmInv'
    OBVIOUS
  <2>1. CASE UNCHANGED vars
    BY <2>1 DEF vars, rows, history, CalmInv, Alone, Expects, Resting, Agrees,
                Judging, Word, Owing, Ready, AllVerified, Accepted
  <2> QED BY <2>1, CalmStep
<1> QED BY <1>1, <1>2, InductiveInvariant, PTL DEF Spec

\* Between requests that did not overlap, the sellers and the metadata of the
\* trade say what the last words said.
THEOREM WordsFollowed == Spec => []LastWordCounts
<1>1. CalmInv => LastWordCounts
  BY AtRest DEF LastWordCounts, Resting, Agrees
<1> QED BY <1>1, CalmInvariant, PTL

\* The transport request that updateInspection creates is for sellers whose
\* goods were spoken for, as far as it has tested them; and for nobody else,
\* with a good last word on each, as long as requests do not overlap.
THEOREM VouchedFirst == Spec => VouchedTravel
<1> DEFINE Travel(c) == Loads(c) =>
      /\ calls[c].points \cap calls[c].tested \subseteq vouched
      /\ calm' => /\ calls[c].points = calls[c].tested
                  /\ \A s \in calls[c].points : word[s] = "good"
<1>1. IInv /\ CalmInv /\ [Next]_vars => [\A c \in Calls : Travel(c)]_vars
  <2> SUFFICES ASSUME IInv, CalmInv, Next, NEW c \in Calls, Loads(c)
               PROVE  Travel(c)
    OBVIOUS
  <2>1. calls[c].pc = "request" /\ calls[c].tested \subseteq vouched
    BY DEF Loads, IInv, Informed
  <2>2. ASSUME calm
        PROVE  /\ calls[c].points = calls[c].tested
               /\ \A s \in calls[c].points : word[s] = "good"
    <3>1. /\ Ready /\ calls[c].tested = Accepted /\ calls[c].points = Accepted
          /\ \A s \in Sellers : Agrees(s)
      BY <2>1, <2>2, OnlyOne DEF Expects, Judging
    <3> QED BY <3>1 DEF Ready, AllVerified, Accepted, Agrees
  <2>3. calm' => calm
    <3>1. ASSUME NEW d \in Calls, createTransportRequest(d) PROVE calm' => calm
      BY <3>1 DEF createTransportRequest, End
    <3>2. CASE requestTransport
      BY <3>2 DEF requestTransport, AtOnce
    <3>3. requestTransport \/ \E d \in Calls : createTransportRequest(d)
      BY DEF Loads, Next, createInspectionRequest, assignInspector,
             updateInspectionStatus, negotiates, acceptOffer, accepted, conclude,
             listing, grade, lookup, inspect, submitInspectionResults, Written,
             result, sellers, loss, note, updateInspection, patch, cascade, verify,
             check, ensure, points, fails, rows
    <3> QED BY <3>1, <3>2, <3>3
  <2> QED BY <2>1, <2>2, <2>3
<1> QED BY <1>1, InductiveInvariant, CalmInvariant, PTL DEF Spec, VouchedTravel
=============================================================================
