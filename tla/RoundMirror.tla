----------------------------- MODULE RoundMirror -----------------------------
(***************************************************************************)
(* The copy of the plantation rounds that the backend keeps in its database *)
(* (plantation-rounds.service.ts) and the listener that feeds it with the   *)
(* events of the contract (plantation-events.service.ts).  A row is created *)
(* before its round is, and takes the number of the round from an event     *)
(* that names only the crop.  The listener hears events in order but awaits *)
(* the database in each, so that their effects may overlap; it hears none   *)
(* while it is down, and nothing is replayed.  The contract appears by the  *)
(* steps that emit events; its money is in PlantationRound.                 *)
(***************************************************************************)
EXTENDS Integers, Sequences, FiniteSets

CONSTANTS Calls,    \* requests and events that may be handled at a time
          Crops,
          Shares,   \* shares of a round
          D,        \* bound: rows that are ever created
          R,        \* bound: rounds that are ever created on chain
          S,        \* bound: shares that are ever recorded in the database
          T,        \* bound: shares that are ever sold on chain
          E         \* bound: events that wait to be heard

ASSUME BoundAssumption ==
  D \in Nat /\ R \in Nat /\ S \in Nat /\ T \in Nat /\ E \in Nat /\
  Shares \in Nat \ {0}

VARIABLES rows,      \* PlantationRound rows: number on chain (0: a placeholder);
                     \* asked (history): distributeHarvest wrote the status last
          nfts,      \* PlantationNft rows: token 0 is a placeholder
          chain,     \* rounds of the contract; for: the row it was created for
          minted,    \* the round of every token
          creating,  \* rows whose createRound transaction is under way
          events,    \* emitted and not yet heard
          calls,     \* handlers between two awaits
          orderly,   \* history: no round of a crop was created while another
                     \* one of the crop was being created or might be mistaken
          calm       \* history: handlers have not overlapped, nothing was lost

vars == <<rows, nfts, chain, minted, creating, events, calls, orderly, calm>>
contract == <<chain, minted>>

Emitted(type, r, crop, first, last) ==
  /\ Len(events) < E
  /\ events' = Append(events, [type |-> type, round |-> r, crop |-> crop,
                               first |-> first, last |-> last])
Idle == [pc |-> "idle", row |-> 0, round |-> 0, count |-> 0, sold |-> 0,
         status |-> "OPEN", pairs |-> {}]
Quiet == \A c \in Calls : calls[c] = Idle

Begin(c, call) ==
  /\ calls[c] = Idle
  /\ calls' = [calls EXCEPT ![c] = call]
  /\ calm' = (calm /\ Quiet)
End(c) == calls' = [calls EXCEPT ![c] = Idle] /\ UNCHANGED calm

(***************************************************************************)
(* The contract, and the transactions of the backend that reach it.        *)
(***************************************************************************)
\* A round of the crop is on its way from createRound to its row.
UnderWay(crop) ==
  \/ \E i \in creating : rows[i].crop = crop
  \/ \E n \in DOMAIN events : events[n].crop = crop
  \/ \E c \in Calls : calls[c].pc = "link" /\ rows[calls[c].row].crop = crop

Created(crop, row) ==
  /\ Len(chain) < R
  /\ chain' = Append(chain, [crop |-> crop, for |-> row, sold |-> 0,
                             status |-> "OPEN"])
  /\ Emitted("RoundCreated", Len(chain) + 1, crop, 0, 0)
  /\ UNCHANGED minted

mineCreateRound(i) ==
  /\ i \in creating
  /\ Created(rows[i].crop, i)
  /\ creating' = creating \ {i}
  /\ UNCHANGED <<rows, nfts, calls, orderly, calm>>

\* The error is logged; the row stays.
createRoundFails(i) ==
  /\ i \in creating
  /\ creating' = creating \ {i}
  /\ UNCHANGED <<rows, nfts, contract, events, calls, orderly, calm>>

\* The contract lets anybody create a round.
createRoundOutside(crop) ==
  /\ Created(crop, 0)
  /\ orderly' = (orderly /\ ~UnderWay(crop)
                 /\ \A i \in DOMAIN rows : rows[i].crop = crop => rows[i].id # 0)
  /\ UNCHANGED <<rows, nfts, creating, calls, calm>>

invest(r, k) ==
  /\ chain[r].status = "OPEN"
  /\ chain[r].sold + k <= Shares
  /\ Len(minted) + k <= T
  /\ chain' = [chain EXCEPT ![r].sold = @ + k,
       ![r].status = IF chain[r].sold + k = Shares THEN "FUNDED" ELSE @]
  /\ minted' = minted \o [j \in 1..k |-> r]
  /\ Emitted("SharesPurchased", r, "any", Len(minted) + 1, Len(minted) + k)
  /\ UNCHANGED <<rows, nfts, creating, calls, orderly, calm>>

unlockCapital(r) ==
  /\ chain[r].status = "FUNDED"
  /\ chain' = [chain EXCEPT ![r].status = "ACTIVE"]
  /\ Emitted("CapitalUnlocked", r, "any", 0, 0)
  /\ UNCHANGED <<rows, nfts, minted, creating, calls, orderly, calm>>

\* By the farmer, or by the transaction that the handler below sends.
distributeOnChain(r) ==
  /\ chain[r].status = "ACTIVE"
  /\ chain' = [chain EXCEPT ![r].status = "DISTRIBUTING"]
  /\ Emitted("HarvestDistributed", r, "any", 0, 0)
  /\ UNCHANGED <<rows, nfts, minted, creating, calls, orderly, calm>>

(***************************************************************************)
(* The requests.                                                           *)
(***************************************************************************)
createRound(crop) ==
  /\ Len(rows) < D
  /\ rows' = Append(rows, [id |-> 0, crop |-> crop, sold |-> 0,
                           status |-> "OPEN", asked |-> FALSE])
  /\ creating' = creating \cup {Len(rows) + 1}
  /\ orderly' = (orderly /\ ~UnderWay(crop))
  /\ UNCHANGED <<nfts, contract, events, calls, calm>>

Available(i, k) == rows[i].sold + k <= Shares

investInRound(c, i, k) ==
  /\ rows[i].status = "OPEN"
  /\ Available(i, k)
  /\ Len(nfts) + k <= S
  /\ Begin(c, [Idle EXCEPT !.pc = "nfts", !.row = i, !.count = k,
                           !.sold = rows[i].sold])
  /\ UNCHANGED <<rows, nfts, contract, creating, events, orderly>>

\* Mutant of createNfts: the numbering starts again with each purchase.
createNftsAnew(c) ==
  /\ calls[c].pc = "nfts"
  /\ Len(nfts) + calls[c].count <= S
  /\ nfts' = nfts \o [j \in 1..calls[c].count |->
       [row |-> calls[c].row, index |-> j - 1, token |-> 0]]
  /\ calls' = [calls EXCEPT ![c].pc = "sold"]
  /\ UNCHANGED <<rows, contract, creating, events, orderly, calm>>

\* One transaction creates the records, another statement counts them.
createNfts(c) ==
  /\ calls[c].pc = "nfts"
  /\ Len(nfts) + calls[c].count <= S
  /\ nfts' = nfts \o [j \in 1..calls[c].count |->
       [row |-> calls[c].row, index |-> calls[c].sold + j - 1, token |-> 0]]
  /\ calls' = [calls EXCEPT ![c].pc = "sold"]
  /\ UNCHANGED <<rows, contract, creating, events, orderly, calm>>

countShares(c) ==
  /\ calls[c].pc = "sold"
  /\ rows' = [rows EXCEPT ![calls[c].row].sold = @ + calls[c].count]
  /\ End(c)
  /\ UNCHANGED <<nfts, contract, creating, events, orderly>>

\* It does not wait for the transaction it sends: the row is DISTRIBUTING even
\* if that fails, and nothing takes it back.
distributeHarvest(c, i) ==
  /\ rows[i].status = "ACTIVE"
  /\ Begin(c, [Idle EXCEPT !.pc = "distribute", !.row = i])
  /\ UNCHANGED <<rows, nfts, contract, creating, events, orderly>>

distributing(c) ==
  /\ calls[c].pc = "distribute"
  /\ rows' = [rows EXCEPT ![calls[c].row].status = "DISTRIBUTING",
                          ![calls[c].row].asked = TRUE]
  /\ End(c)
  /\ UNCHANGED <<nfts, contract, creating, events, orderly>>

(***************************************************************************)
(* The listener.                                                           *)
(***************************************************************************)
Heard(type) == events # <<>> /\ Head(events).type = type /\ events' = Tail(events)

Waiting(crop) ==
  {i \in DOMAIN rows : /\ rows[i].id = 0 /\ rows[i].crop = crop
                       /\ rows[i].status = "OPEN"}
\* Mutant of Placeholder: the oldest one.
PlaceholderOldest(crop) ==
  CHOOSE i \in Waiting(crop) : \A j \in Waiting(crop) : j >= i
\* The most recent row of the crop that has no number.
Placeholder(crop) ==
  CHOOSE i \in Waiting(crop) : \A j \in Waiting(crop) : j <= i

RoundCreated(c) ==
  /\ Heard("RoundCreated")
  /\ IF Waiting(Head(events).crop) = {}
     THEN calls[c] = Idle /\ UNCHANGED <<calls, calm>>
     ELSE Begin(c, [Idle EXCEPT !.pc = "link", !.round = Head(events).round,
                                !.row = Placeholder(Head(events).crop)])
  /\ UNCHANGED <<rows, nfts, contract, creating, orderly>>

link(c) ==
  /\ calls[c].pc = "link"
  /\ rows' = [rows EXCEPT ![calls[c].row].id = calls[c].round]
  /\ End(c)
  /\ UNCHANGED <<nfts, contract, creating, events, orderly>>

Of(r) == {i \in DOMAIN rows : rows[i].id = r}

\* The row is looked up, then its placeholders.
SharesPurchased(c) ==
  /\ Heard("SharesPurchased")
  /\ IF Of(Head(events).round) = {}
     THEN calls[c] = Idle /\ UNCHANGED <<calls, calm>>
     ELSE \E i \in Of(Head(events).round) :
            Begin(c, [Idle EXCEPT !.pc = "shares", !.row = i,
                        !.round = Head(events).first,
                        !.count = Head(events).last - Head(events).first + 1])
  /\ UNCHANGED <<rows, nfts, contract, creating, orderly>>

Blank(i) == {n \in DOMAIN nfts : nfts[n].row = i /\ nfts[n].token = 0}
Before(n, m) == \/ nfts[n].index < nfts[m].index
                \/ nfts[n].index = nfts[m].index /\ n < m
Rank(n, i) == Cardinality({m \in Blank(i) : Before(m, n)})

\* The first placeholders, by share index, get the tokens in order.
Assigned(i, first, count) ==
  {<<n, first + Rank(n, i)>> : n \in {m \in Blank(i) : Rank(m, i) < count}}

findPlaceholders(c) ==
  LET pairs == Assigned(calls[c].row, calls[c].round, calls[c].count)
  IN  /\ calls[c].pc = "shares"
      /\ IF pairs = {} THEN End(c)
         ELSE /\ calls' = [calls EXCEPT ![c].pc = "tokens", ![c].pairs = pairs]
              /\ UNCHANGED calm
      /\ UNCHANGED <<rows, nfts, contract, creating, events, orderly>>

\* The updates run side by side.
assignToken(c) ==
  /\ calls[c].pc = "tokens"
  /\ \E p \in calls[c].pairs :
       /\ nfts' = [nfts EXCEPT ![p[1]].token = p[2]]
       /\ IF calls[c].pairs = {p} THEN End(c)
          ELSE /\ calls' = [calls EXCEPT ![c].pairs = @ \ {p}]
               /\ UNCHANGED calm
  /\ UNCHANGED <<rows, contract, creating, events, orderly>>

CapitalUnlocked(c) ==
  /\ Heard("CapitalUnlocked")
  /\ Begin(c, [Idle EXCEPT !.pc = "status", !.round = Head(events).round,
                           !.status = "ACTIVE"])
  /\ UNCHANGED <<rows, nfts, contract, creating, orderly>>

\* Mutant of HarvestDistributed: the handlers write the same status.
HarvestDistributedActive(c) ==
  /\ Heard("HarvestDistributed")
  /\ Begin(c, [Idle EXCEPT !.pc = "status", !.round = Head(events).round,
                           !.status = "ACTIVE"])
  /\ UNCHANGED <<rows, nfts, contract, creating, orderly>>

HarvestDistributed(c) ==
  /\ Heard("HarvestDistributed")
  /\ Begin(c, [Idle EXCEPT !.pc = "status", !.round = Head(events).round,
                           !.status = "DISTRIBUTING"])
  /\ UNCHANGED <<rows, nfts, contract, creating, orderly>>

writeStatus(c) ==
  /\ calls[c].pc = "status"
  /\ rows' = [i \in DOMAIN rows |->
       IF rows[i].id = calls[c].round
       THEN [rows[i] EXCEPT !.status = calls[c].status, !.asked = FALSE]
       ELSE rows[i]]
  /\ End(c)
  /\ UNCHANGED <<nfts, contract, creating, events, orderly>>

-----------------------------------------------------------------------------
\* A statement fails, in a request or in a handler, which logs it.
throws(c) ==
  /\ calls[c] # Idle
  /\ calls' = [calls EXCEPT ![c] = Idle]
  /\ calm' = FALSE
  /\ UNCHANGED <<rows, nfts, contract, creating, events, orderly>>

\* The process or its socket is down for a while.
restart ==
  /\ calls' = [c \in Calls |-> Idle]
  /\ events' = <<>>
  /\ calm' = (calm /\ Quiet /\ events = <<>>)
  /\ UNCHANGED <<rows, nfts, contract, creating, orderly>>

Init ==
  /\ rows = <<>> /\ nfts = <<>>
  /\ chain = <<>> /\ minted = <<>>
  /\ creating = {} /\ events = <<>>
  /\ calls = [c \in Calls |-> Idle]
  /\ orderly = TRUE /\ calm = TRUE

Next ==
  \/ \E i \in creating : mineCreateRound(i) \/ createRoundFails(i)
  \/ \E crop \in Crops : createRoundOutside(crop) \/ createRound(crop)
  \/ \E r \in DOMAIN chain :
       \/ \E k \in 1..Shares : invest(r, k)
       \/ unlockCapital(r) \/ distributeOnChain(r)
  \/ \E c \in Calls :
       \/ \E i \in DOMAIN rows :
            (\E k \in 1..Shares : investInRound(c, i, k)) \/ distributeHarvest(c, i)
       \/ createNfts(c) \/ countShares(c) \/ distributing(c)
       \/ RoundCreated(c) \/ link(c)
       \/ SharesPurchased(c) \/ findPlaceholders(c) \/ assignToken(c)
       \/ CapitalUnlocked(c) \/ HarvestDistributed(c) \/ writeStatus(c)
       \/ throws(c)
  \/ restart

Spec == Init /\ [][Next]_vars

(***************************************************************************)
(* Properties.                                                             *)
(***************************************************************************)
\* What the contract may be in, once it has made the progress of a status.
Reached(status) == CASE status = "OPEN" -> {"OPEN", "FUNDED", "ACTIVE", "DISTRIBUTING"}
                     [] status = "ACTIVE" -> {"ACTIVE", "DISTRIBUTING"}
                     [] status = "DISTRIBUTING" -> {"DISTRIBUTING"}

\* The progress a row vouches for.  distributeHarvest found it ACTIVE and has
\* only asked for the distribution.
Claimed(row) == IF row.asked THEN "ACTIVE" ELSE row.status

\* If rounds of a crop are created one after another, a row carries the number
\* of the round that was created for it and of no other, claims no progress
\* that the contract has not made, and its shares name tokens of that round:
\* whatever events are lost, transactions fail and handlers overlap.  The one
\* status that runs ahead is the DISTRIBUTING of a row that distributeHarvest
\* was the last to write: its round may still be ACTIVE, and stay so.
RowIsItsRound == orderly => \A i \in DOMAIN rows : rows[i].id # 0 =>
  /\ chain[rows[i].id].for = i
  /\ chain[rows[i].id].status \in Reached(Claimed(rows[i]))
  /\ \A n \in DOMAIN nfts : nfts[n].row = i /\ nfts[n].token # 0 =>
       minted[nfts[n].token] = rows[i].id

\* When every event has been heard, one after another, each round created by
\* the backend has its row, and the row has the status of the contract (it
\* never hears of FUNDED), or one that distributeHarvest has asked for.
MirrorAgrees == (orderly /\ calm /\ Quiet /\ events = <<>>) =>
  \A r \in DOMAIN chain : chain[r].for # 0 =>
    LET row == rows[chain[r].for]
    IN  /\ row.id = r
        /\ chain[r].status \in {"OPEN", "FUNDED"} => row.status = "OPEN"
        /\ chain[r].status = "ACTIVE" => row.status = "ACTIVE" \/ row.asked
        /\ chain[r].status = "DISTRIBUTING" => row.status = "DISTRIBUTING"

\* Between requests that did not overlap or fail, the shares of a row are
\* counted and numbered without gaps and no more are recorded than exist.
SharesAddUp == (calm /\ Quiet) => \A i \in DOMAIN rows :
  LET own == {n \in DOMAIN nfts : nfts[n].row = i}
  IN  /\ Cardinality(own) = rows[i].sold
      /\ {nfts[n].index : n \in own} = 0..(rows[i].sold - 1)
      /\ rows[i].sold <= Shares
=============================================================================
