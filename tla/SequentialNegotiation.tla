----------------------- MODULE SequentialNegotiation -----------------------
(***************************************************************************)
(* The negotiations of a trade when requests do not overlap: one request   *)
(* or one round of the cron at a time, nothing fails, and the market is    *)
(* quiet (nothing in Negotiation reads listed).  What the code promises    *)
(* between two requests holds here; Negotiation shows what is left of it   *)
(* when they overlap.                                                      *)
(***************************************************************************)
EXTENDS Negotiation

\* fresh is a history variable: no seller got a second offer so far.
VARIABLE fresh

allVars == <<vars, fresh>>

OneAtATime == /\ \A c, d \in Calls : calls[c] # Idle /\ calls[d] # Idle => c = d
              /\ sweep # {} => \A c \in Calls : calls[c] = Idle

SequentialInit == Init /\ fresh = TRUE

\* A request begins when none is in flight, and so does a round of the cron.
SequentialNext ==
  /\ \/ Running /\ UNCHANGED fresh
     \/ Quiet /\ \E s \in Sellers : Work(s) /\ UNCHANGED fresh
     \/ Quiet /\ \E s \in Sellers : Offering(s) /\ fresh' = (fresh /\ ~Negotiated(s))
  /\ OneAtATime'

SequentialSpec == /\ SequentialInit /\ [][SequentialNext]_allVars
                  /\ \A c \in Calls : WF_allVars(proceed(c) /\ UNCHANGED fresh)

-----------------------------------------------------------------------------
(* Properties.                                                             *)

\* Between requests a seller who is asked can answer, as long as nobody was
\* made a second offer: an upsert leaves a closed negotiation closed, and
\* sendOffer sets its seller to NEGOTIATING all the same.
NoDeadEnd == fresh /\ Quiet => \A s \in Sellers :
  seller[s].status = NEGOTIATING => negotiation[s].status \in {PENDING, COUNTERED}

\* A trade all of whose sellers have accepted moves on, as long as nobody was
\* made a second offer.
AgreedAdvances ==
  fresh /\ phase = SELLER_NEGOTIATION /\ Attached # {} /\ AllAccepted
    ~> phase = AGREED \/ ~AllAccepted \/ ~fresh
=============================================================================
