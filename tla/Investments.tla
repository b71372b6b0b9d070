---------------------------- MODULE Investments ----------------------------
(***************************************************************************)
(* Swaps of USDC into an asset, as executeSwap of                          *)
(* backend/src/investments/investments.service.ts makes them: a row first, *)
(* then the quote and the transaction of the platform's wallet, then the   *)
(* outcome.  A position stands for the call that creates it.  Assets,      *)
(* amounts and quotes are left out: whatever is asked of the service for   *)
(* quotes may fail.                                                        *)
(***************************************************************************)
EXTENDS Integers, FiniteSets

CONSTANTS Positions,    \* one for each call
          Trades,
          NoTrade       \* not a trade: the request names none

VARIABLES position,     \* rows of InvestmentPosition: "none" if there is none
          calls,        \* where executeSwap is, and for which trade
          swap,         \* transactions: "none" until sent
          calm,         \* history: no calls of one trade have overlapped
          cut           \* history: calls that ended without an outcome

vars == <<position, calls, swap, calm, cut>>

Unused == [pc |-> "unused", trade |-> NoTrade]
Over(p) == calls[p].pc \in {"unused", "returned"}
Goto(p, pc) == calls' = [calls EXCEPT ![p].pc = pc]

Of(t) == {p \in Positions : calls[p].trade = t}
Executed(t) == {p \in Of(t) : position[p] = "EXECUTED"}

Begin(p, t, pc) ==
  /\ calls[p] = Unused
  /\ calls' = [calls EXCEPT ![p] = [pc |-> pc, trade |-> t]]
  /\ calm' = (calm /\ \A q \in Of(t) : Over(q))
  /\ UNCHANGED <<position, swap, cut>>

\* Mutant of isNew: rows are not looked for.
isNewToAll(t) == TRUE

\* What the query for an EXECUTED position of the trade finds.
isNew(t) == Executed(t) = {}

\* A second call for a trade that has an EXECUTED position returns that.
executeSwap(p, t) ==
  Begin(p, t, IF t = NoTrade \/ isNew(t) THEN "create" ELSE "returned")

create(p) ==
  /\ calls[p].pc = "create"
  /\ position' = [position EXCEPT ![p] = "PENDING"]
  /\ Goto(p, "quote")
  /\ UNCHANGED <<swap, calm, cut>>

\* getQuote and the transaction it is turned into.
getQuote(p) ==
  /\ calls[p].pc = "quote"
  /\ Goto(p, "broadcast")
  /\ UNCHANGED <<position, swap, calm, cut>>

broadcastSwap(p) ==
  /\ calls[p].pc = "broadcast"
  /\ swap' = [swap EXCEPT ![p] = "sent"]
  /\ Goto(p, "confirm")
  /\ UNCHANGED <<position, calm, cut>>

\* The chain: what was sent lands, reverts, or is never included.
settles(p) ==
  /\ swap[p] = "sent"
  /\ \E fate \in {"landed", "reverted", "dropped"} :
       swap' = [swap EXCEPT ![p] = fate]
  /\ UNCHANGED <<position, calls, calm, cut>>

\* confirmTransaction: the error of a transaction that reverted is not read.
confirmed(p) ==
  /\ calls[p].pc = "confirm" /\ swap[p] \in {"landed", "reverted"}
  /\ Goto(p, "execute")
  /\ UNCHANGED <<position, swap, calm, cut>>

executed(p) ==
  /\ calls[p].pc = "execute"
  /\ position' = [position EXCEPT ![p] = "EXECUTED"]
  /\ Goto(p, "returned")
  /\ UNCHANGED <<swap, calm, cut>>

\* Mutant of throws: what a quote throws is not caught.
throwsUncaught(p) ==
  /\ calls[p].pc \in {"quote", "broadcast", "confirm", "execute"}
  /\ Goto(p, IF calls[p].pc = "quote" THEN "returned" ELSE "fail")
  /\ UNCHANGED <<position, swap, calm, cut>>

\* Whatever throws after the row was created goes to the catch; the wait for a
\* confirmation does so although the transaction may still land.
throws(p) ==
  /\ calls[p].pc \in {"quote", "broadcast", "confirm", "execute"}
  /\ Goto(p, "fail")
  /\ UNCHANGED <<position, swap, calm, cut>>

\* Sending throws although the transaction has arrived.
sentAndThrows(p) ==
  /\ calls[p].pc = "broadcast"
  /\ swap' = [swap EXCEPT ![p] = "sent"]
  /\ Goto(p, "fail")
  /\ UNCHANGED <<position, calm, cut>>

failed(p) ==
  /\ calls[p].pc = "fail"
  /\ position' = [position EXCEPT ![p] = "FAILED"]
  /\ Goto(p, "returned")
  /\ UNCHANGED <<swap, calm, cut>>

\* A query that nothing catches: the row stays as it is.
queryFails(p) ==
  /\ calls[p].pc \in {"create", "fail"}
  /\ Goto(p, "returned")
  /\ cut' = cut \cup {p}
  /\ UNCHANGED <<position, swap, calm>>

restart ==
  LET running == {p \in Positions : ~Over(p)}
  IN  /\ running # {}
      /\ calls' = [p \in Positions |-> IF p \in running
                     THEN [calls[p] EXCEPT !.pc = "returned"] ELSE calls[p]]
      /\ cut' = cut \cup running
      /\ UNCHANGED <<position, swap, calm>>

-----------------------------------------------------------------------------
Init ==
  /\ position = [p \in Positions |-> "none"]
  /\ calls = [p \in Positions |-> Unused]
  /\ swap = [p \in Positions |-> "none"]
  /\ calm = TRUE
  /\ cut = {}

Proceed(p) == \/ create(p) \/ getQuote(p) \/ broadcastSwap(p) \/ confirmed(p)
              \/ executed(p) \/ failed(p)
Throw(p) == throws(p) \/ sentAndThrows(p)

Next ==
  \/ \E p \in Positions :
       \/ \E t \in Trades \cup {NoTrade} : executeSwap(p, t)
       \/ Proceed(p) \/ settles(p) \/ Throw(p) \/ queryFails(p)
  \/ restart

\* The event loop resumes a call, what was sent has a fate, and the wait for the
\* confirmation of what is dropped throws (its block height is exceeded).
Gone(p) == swap[p] = "dropped" /\ throws(p)
Fairness == \A p \in Positions :
              WF_vars(Proceed(p) \/ Gone(p)) /\ WF_vars(settles(p))

Spec == Init /\ [][Next]_vars /\ Fairness

(***************************************************************************)
(* Properties.                                                             *)
(***************************************************************************)
\* A trade has one EXECUTED position at most, whatever failed or was lost
\* before, as long as no two calls for it overlap.
OneExecuted ==
  calm => \A t \in Trades : Cardinality(Executed(t)) <= 1

\* A position does not stay PENDING, whatever throws: unless its call is cut
\* off, its row gets an outcome (the catch of executeSwap).
Concludes == \A p \in Positions :
  position[p] = "PENDING" ~> (position[p] # "PENDING" \/ p \in cut)
=============================================================================
