----------------------------- MODULE Inspection -----------------------------
(***************************************************************************)
(* The inspections of one trade, inspections/inspection.service.ts: their  *)
(* rows, what a result does to the seller, to its listing and to the       *)
(* metadata of the trade, and the transport request of a trade whose       *)
(* sellers are all verified.  Beside it the other writer of isVerified,    *)
(* acceptOffer: a listing that has a score and a grade is not inspected,   *)
(* its seller is verified by the acceptance (autoCreateInspection).        *)
(* A handler is cut at the awaits between which another one may change     *)
(* what it has read.  No handler here reads the phase of the trade; that   *)
(* they write it is in TradeOperation and Transport, the prices and totals *)
(* of an acceptance are in Negotiation.                                    *)
(***************************************************************************)
EXTENDS Integers, FiniteSets

CONSTANTS Calls,      \* requests that may be in flight at a time
          Sellers,    \* of the trade, each with one sale listing
          I,          \* bound: inspections that are ever created
          F,          \* bound: failing results that are ever submitted
          Sent,       \* statuses that the routes are called with
          None        \* no seller

ASSUME BoundAssumption == I \in Nat /\ F \in Nat
ASSUME CallsAssumption == IsFiniteSet(Calls)
ASSUME NoneAssumption == None \notin Sellers

Inspections == 1..I
InspectionStatus == {"PENDING", "SCHEDULED", "IN_PROGRESS", "COMPLETED",
                     "CANCELLED"}
ASSUME SentAssumption == Sent \subseteq InspectionStatus

VARIABLES inspections,  \* InspectionRequest: status and listing (its seller)
          seller,       \* TradeSeller: status and isVerified
          graded,       \* sellers whose listing has qualityScore and qualityGrade
          open,         \* sellers whose negotiation can be accepted
          failures,     \* inspectionFailures of the trade's metadata
          requested,    \* the trade has a transport request
          calls,        \* requests between two awaits, with what they have read
          vouched,      \* history: sellers whose goods something spoke for: a
                        \* passing result, a COMPLETED patch, a graded listing
          word,         \* history: what the last of these, or a failing result,
                        \* said of a seller's goods
          failed,       \* history: failing results that were submitted
          calm          \* history: no requests have overlapped, none has died

rows == <<inspections, seller, graded, open, failures, requested>>
history == <<vouched, word, failed>>
vars == <<rows, calls, history, calm>>

Row == [status : InspectionStatus \cup {"none"}, of : Sellers \cup {None}]
Seller == [status : {"NEGOTIATING", "ACCEPTED", "FAILED_INSPECTION"},
           verified : BOOLEAN]
Pc == {"idle", "accept", "conclude", "listing", "grade", "lookup", "inspect",
       "result", "sellers", "loss", "note", "patch", "cascade", "verify",
       "check", "ensure", "points", "request"}
Call == [pc : Pc, of : Inspections \cup {0}, who : Sellers \cup {None},
         status : InspectionStatus, pass : BOOLEAN, count : Nat,
         tested : SUBSET Sellers, points : SUBSET Sellers]

Idle == [pc |-> "idle", of |-> 0, who |-> None, status |-> "PENDING",
         pass |-> FALSE, count |-> 0, tested |-> {}, points |-> {}]
Quiet == \A c \in Calls : calls[c] = Idle
Accepted == {s \in Sellers : seller[s].status = "ACCEPTED"}
AllVerified == \A s \in Accepted : seller[s].verified

Begin(c, call) ==
  /\ calls[c] = Idle
  /\ calls' = [calls EXCEPT ![c] = call]
  /\ calm' = (calm /\ Quiet)
Goto(c, pc) == calls' = [calls EXCEPT ![c].pc = pc] /\ UNCHANGED calm
End(c) == calls' = [calls EXCEPT ![c] = Idle] /\ UNCHANGED calm
\* A request with no await that matters.
AtOnce == calm' = (calm /\ Quiet) /\ UNCHANGED calls

\* Something speaks for the goods of s.
Vouched(s) == /\ vouched' = vouched \cup {s}
              /\ word' = [word EXCEPT ![s] = "good"]
              /\ UNCHANGED failed
\* The negotiations give s another status: a bad word is forgotten.
Forgiven(s) ==
  /\ word' = IF word[s] = "bad" THEN [word EXCEPT ![s] = "none"] ELSE word
  /\ UNCHANGED <<vouched, failed>>

(***************************************************************************)
(* Rows that are created, assigned and given a status.                     *)
(***************************************************************************)
Free(i) == /\ inspections[i].status = "none"
           /\ \A j \in 1..(i - 1) : inspections[j].status # "none"
Pending(s) == [status |-> "PENDING", of |-> s]

\* Nobody asks whether the listing has been inspected.
createInspectionRequest(i, s) ==
  /\ Free(i)
  /\ inspections' = [inspections EXCEPT ![i] = Pending(s)]
  /\ AtOnce
  /\ UNCHANGED <<seller, graded, open, failures, requested, history>>

\* assignInspector writes SCHEDULED, whatever the status was.
updateInspectionStatus(i, status) ==
  /\ inspections[i].status # "none"
  /\ inspections' = [inspections EXCEPT ![i].status = status]
  /\ AtOnce
  /\ UNCHANGED <<seller, graded, open, failures, requested, history>>
assignInspector(i) == updateInspectionStatus(i, "SCHEDULED")

(***************************************************************************)
(* What the negotiations write.                                            *)
(***************************************************************************)
\* Nobody asks whether the seller has failed an inspection.
acceptOffer(c, s) ==
  /\ s \in open
  /\ Begin(c, [Idle EXCEPT !.pc = "accept", !.who = s])
  /\ UNCHANGED <<rows, history>>

accepted(c) ==
  LET s == calls[c].who
  IN  /\ calls[c].pc = "accept"
      /\ seller' = [seller EXCEPT ![s].status = "ACCEPTED"]
      /\ Forgiven(s)
      /\ Goto(c, "conclude")
      /\ UNCHANGED <<inspections, graded, open, failures, requested>>

conclude(c) ==
  /\ calls[c].pc = "conclude"
  /\ open' = open \ {calls[c].who}
  /\ Goto(c, "listing")
  /\ UNCHANGED <<inspections, seller, graded, failures, requested, history>>

\* autoCreateInspection: the listing is read; a graded one speaks for itself.
listing(c) ==
  /\ calls[c].pc = "listing"
  /\ \/ /\ calls[c].who \in graded
        /\ Vouched(calls[c].who)
        /\ Goto(c, "grade")
     \/ /\ calls[c].who \notin graded
        /\ Goto(c, "lookup")
        /\ UNCHANGED history
  /\ UNCHANGED rows

grade(c) ==
  /\ calls[c].pc = "grade"
  /\ seller' = [seller EXCEPT ![calls[c].who].verified = TRUE]
  /\ End(c)
  /\ UNCHANGED <<inspections, graded, open, failures, requested, history>>

Inspected(s) == \E i \in Inspections :
  inspections[i].status # "none" /\ inspections[i].of = s

\* An inspection of the listing, even one that failed, is enough.
lookup(c) ==
  /\ calls[c].pc = "lookup"
  /\ IF Inspected(calls[c].who) THEN End(c) ELSE Goto(c, "inspect")
  /\ UNCHANGED <<rows, history>>

inspect(c) ==
  /\ calls[c].pc = "inspect"
  /\ \E i \in Inspections :
       /\ Free(i)
       /\ inspections' = [inspections EXCEPT ![i] = Pending(calls[c].who)]
  /\ End(c)
  /\ UNCHANGED <<seller, graded, open, failures, requested, history>>

\* What else they do to a seller: another offer, a counter offer, a rejection,
\* a withdrawal, an expiry.  "NEGOTIATING" stands for every status but the two
\* others.
negotiates(s) ==
  /\ seller' = [seller EXCEPT ![s].status = "NEGOTIATING"]
  /\ open' \in {open, open \ {s}}
  /\ AtOnce /\ Forgiven(s)
  /\ UNCHANGED <<inspections, graded, failures, requested>>

\* POST transport/requests, with points of its own or of the accepted sellers.
requestTransport ==
  /\ ~requested
  /\ requested' = TRUE
  /\ AtOnce
  /\ UNCHANGED <<inspections, seller, graded, open, failures, history>>

(***************************************************************************)
(* submitInspectionResults.  pass: the score is at least 70 and the        *)
(* inspector recommends the goods.                                         *)
(***************************************************************************)
About(i) == [Idle EXCEPT !.of = i, !.who = inspections[i].of]

submitInspectionResults(c, i, pass) ==
  /\ inspections[i].status \notin {"none", "COMPLETED"}
  /\ pass \/ failed < F
  /\ Begin(c, [About(i) EXCEPT !.pc = "result", !.pass = pass])
  /\ UNCHANGED <<rows, history>>

\* The inspection gets the status; the rest is about its seller.
Written(c, status, pc) ==
  /\ inspections' = [inspections EXCEPT ![calls[c].of].status = status]
  /\ calls' = [calls EXCEPT ![c] =
       [Idle EXCEPT !.pc = pc, !.who = calls[c].who, !.pass = calls[c].pass]]
  /\ UNCHANGED <<seller, graded, open, failures, requested, calm>>

\* The result is on record.
result(c) ==
  LET s == calls[c].who
  IN  /\ calls[c].pc = "result"
      /\ Written(c, "COMPLETED", "sellers")
      /\ \/ calls[c].pass /\ Vouched(s)
         \/ /\ ~calls[c].pass
            /\ word' = [word EXCEPT ![s] = "bad"]
            /\ failed' = failed + 1
            /\ UNCHANGED vouched

\* Mutant of Judged: a failed seller stays verified.
JudgedKept(s, pass) ==
  IF pass THEN [seller EXCEPT ![s].verified = TRUE]
  ELSE [seller EXCEPT ![s].status = "FAILED_INSPECTION"]

Judged(s, pass) ==
  IF pass THEN [seller EXCEPT ![s].verified = TRUE]
  ELSE [seller EXCEPT ![s] = [status |-> "FAILED_INSPECTION", verified |-> FALSE]]

sellers(c) ==
  /\ calls[c].pc = "sellers"
  /\ seller' = Judged(calls[c].who, calls[c].pass)
  /\ IF calls[c].pass THEN End(c) ELSE Goto(c, "loss")
  /\ UNCHANGED <<inspections, graded, open, failures, requested, history>>

loss(c) ==
  /\ calls[c].pc = "loss"
  /\ calls' = [calls EXCEPT ![c].pc = "note", ![c].count = failures]
  /\ UNCHANGED <<rows, history, calm>>

note(c) ==
  /\ calls[c].pc = "note"
  /\ failures' = calls[c].count + 1
  /\ End(c)
  /\ UNCHANGED <<inspections, seller, graded, open, requested, history>>

(***************************************************************************)
(* updateInspection.  COMPLETED verifies the seller, whatever the score.   *)
(***************************************************************************)
updateInspection(c, i, status) ==
  /\ inspections[i].status # "none"
  /\ Begin(c, [About(i) EXCEPT !.pc = "patch", !.status = status])
  /\ UNCHANGED <<rows, history>>

\* The quality of the goods, if the patch has it, goes to the listing.
patch(c) ==
  /\ calls[c].pc = "patch"
  /\ \/ /\ calls[c].status = "COMPLETED"
        /\ Vouched(calls[c].who)
        /\ \E pc \in {"cascade", "verify"} : Written(c, "COMPLETED", pc)
     \/ /\ calls[c].status # "COMPLETED"
        /\ inspections' = [inspections EXCEPT ![calls[c].of].status = calls[c].status]
        /\ End(c)
        /\ UNCHANGED <<seller, graded, open, failures, requested, history>>

\* Score and grade may be there now, or not: a score of 0 counts as none.
cascade(c) ==
  /\ calls[c].pc = "cascade"
  /\ graded' \in {graded \cup {calls[c].who}, graded \ {calls[c].who}}
  /\ Goto(c, "verify")
  /\ UNCHANGED <<inspections, seller, open, failures, requested, history>>

\* Mutant of verify: all sellers of the trade are verified.
verifyAll(c) ==
  /\ calls[c].pc = "verify"
  /\ seller' = [s \in Sellers |-> [seller[s] EXCEPT !.verified = TRUE]]
  /\ Goto(c, "check")
  /\ UNCHANGED <<inspections, graded, open, failures, requested, history>>

verify(c) ==
  /\ calls[c].pc = "verify"
  /\ seller' = [seller EXCEPT ![calls[c].who].verified = TRUE]
  /\ Goto(c, "check")
  /\ UNCHANGED <<inspections, graded, open, failures, requested, history>>

\* Mutant of Ready: one verified seller is enough.
ReadySome == \E s \in Accepted : seller[s].verified
Ready == AllVerified /\ Accepted # {}

\* The phase is written before the next await.
check(c) ==
  /\ calls[c].pc = "check"
  /\ \/ /\ Ready
        /\ calls' = [calls EXCEPT ![c].pc = "ensure", ![c].tested = Accepted]
        /\ UNCHANGED calm
     \/ ~Ready /\ End(c)
  /\ UNCHANGED <<rows, history>>

\* ensureTransportRequest, and the first reads of what it calls.
ensure(c) ==
  /\ calls[c].pc = "ensure"
  /\ IF ~requested /\ \E s \in Accepted : seller[s].verified
     THEN Goto(c, "points") ELSE End(c)
  /\ UNCHANGED <<rows, history>>

points(c) ==
  /\ calls[c].pc = "points"
  /\ IF Accepted = {} THEN End(c)
     ELSE /\ calls' = [calls EXCEPT ![c].pc = "request", ![c].points = Accepted]
          /\ UNCHANGED calm
  /\ UNCHANGED <<rows, history>>

\* A second request for the trade is refused by the database.
createTransportRequest(c) ==
  /\ calls[c].pc = "request"
  /\ requested' = TRUE
  /\ End(c)
  /\ UNCHANGED <<inspections, seller, graded, open, failures, history>>

-----------------------------------------------------------------------------
\* A query throws, or the process restarts.
fails(c) ==
  /\ calls[c] # Idle
  /\ calls' = [calls EXCEPT ![c] = Idle]
  /\ calm' = FALSE
  /\ UNCHANGED <<rows, history>>

\* The sellers have their first offers; some listings are graded.
Init ==
  /\ inspections = [i \in Inspections |-> [status |-> "none", of |-> None]]
  /\ seller = [s \in Sellers |-> [status |-> "NEGOTIATING", verified |-> FALSE]]
  /\ graded \in SUBSET Sellers
  /\ open = Sellers
  /\ failures = 0 /\ failed = 0
  /\ requested = FALSE
  /\ calls = [c \in Calls |-> Idle]
  /\ vouched = {} /\ word = [s \in Sellers |-> "none"]
  /\ calm = TRUE

Next ==
  \/ \E i \in Inspections, s \in Sellers : createInspectionRequest(i, s)
  \/ \E i \in Inspections : assignInspector(i)
  \/ \E i \in Inspections, status \in Sent :
       updateInspectionStatus(i, status)
  \/ \E s \in Sellers : negotiates(s)
  \/ requestTransport
  \/ \E c \in Calls, s \in Sellers : acceptOffer(c, s)
  \/ \E c \in Calls, i \in Inspections, pass \in BOOLEAN :
       submitInspectionResults(c, i, pass)
  \/ \E c \in Calls, i \in Inspections, status \in Sent :
       updateInspection(c, i, status)
  \/ \E c \in Calls :
       \/ accepted(c) \/ conclude(c) \/ listing(c) \/ grade(c)
       \/ lookup(c) \/ inspect(c)
       \/ result(c) \/ sellers(c) \/ loss(c) \/ note(c)
       \/ patch(c) \/ cascade(c) \/ verify(c) \/ check(c)
       \/ ensure(c) \/ points(c) \/ createTransportRequest(c) \/ fails(c)

Spec == Init /\ [][Next]_vars

(***************************************************************************)
(* Properties.                                                             *)
(***************************************************************************)
\* Every row and every request in flight keeps its type.
TypeOK ==
  /\ inspections \in [Inspections -> Row]
  /\ seller \in [Sellers -> Seller]
  /\ graded \subseteq Sellers /\ open \subseteq Sellers
  /\ failures \in Nat /\ failed \in Nat
  /\ requested \in BOOLEAN
  /\ calls \in [Calls -> Call]
  /\ vouched \subseteq Sellers
  /\ word \in [Sellers -> {"none", "good", "bad"}]
  /\ calm \in BOOLEAN

\* However acceptances, results, patches and failures of the process
\* interleave, nobody is verified whose goods nothing ever spoke for (a result
\* that passed, a COMPLETED patch, the grade of the listing when its offer was
\* accepted), and no more failures are noted than there were.
VerifiedWasVouched ==
  /\ \A s \in Sellers : seller[s].verified => s \in vouched
  /\ failures <= failed

\* Between requests that did not overlap, a seller is verified exactly if the
\* last word on its goods was good; after a bad one it has failed until the
\* negotiations give it another status; and the metadata of the trade lists
\* every bad one.
LastWordCounts == (calm /\ Quiet) =>
  /\ \A s \in Sellers : seller[s].verified <=> word[s] = "good"
  /\ \A s \in Sellers : word[s] = "bad" => seller[s].status = "FAILED_INSPECTION"
  /\ failures = failed

\* The transport request that updateInspection creates.  Whatever overlaps, the
\* goods of the sellers it has tested were spoken for; the others are of
\* sellers that were accepted after the test.  As long as requests do not
\* overlap there are no others, and the last word on all of them was good.
Loads(c) == calls[c].pc = "request" /\ calls'[c] = Idle /\ requested' # requested
VouchedTravel == [][\A c \in Calls : Loads(c) =>
  /\ calls[c].points \cap calls[c].tested \subseteq vouched
  /\ calm' => /\ calls[c].points = calls[c].tested
              /\ \A s \in calls[c].points : word[s] = "good"]_vars
=============================================================================
