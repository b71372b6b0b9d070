------------------------ MODULE TradeOperationProofs ------------------------
(***************************************************************************)
(* What TLAPS proves of the settlement of a trade for any number of        *)
(* requests and promises in flight, any price and any wallet balance, with *)
(* every failure and every other writer of the row.                        *)
(*                                                                         *)
(* The backend only ever calls functions of the contract (ChainSteps), so  *)
(* what AgroEscrowProofs proves of the contract holds of the trade's key.  *)
(* On top of it the promises in flight have to be told the truth too: the  *)
(* metadata each one read, the receipts it holds and the phase it was      *)
(* started for.                                                            *)
(***************************************************************************)
EXTENDS TradeOperation, TLAPS

Lock == INSTANCE AgroEscrowProofs WITH
  N <- 1, Accounts <- {Wallet, Farmer}, Deployer <- Wallet, Amounts <- Nat

\* The snapshots of the metadata that promises will write back are true.
SnapshotsTruthful == \A h \in Handlers : Truthful(handlers[h].metadata)

\* So is the metadata that a failed inspection has read.
NotesTruthful == \A c \in Calls :
  calls[c].pc = "note" => Truthful(calls[c].metadata)

\* A receipt is for what happened on chain.
ReceiptsTruthful == \A h \in Handlers :
  /\ Mined(h, "create") => onChain # Celo!AWAITING_PAYMENT
  /\ Mined(h, "release") => onChain = Celo!COMPLETE

\* A release is only ever sent by a promise of the release phase, and such a
\* promise is only started by writing that phase.
ReleasesDue ==
  /\ \A h \in Handlers :
       /\ handlers[h].pc # "idle" /\ handlers[h].phase = ReleasePhase => due
       /\ handlers[h].pc = "release" => handlers[h].phase = ReleasePhase
  /\ "release" \in orphans => due

\* The platform names a wallet as the seller, never the contract: a pay-out
\* to the contract itself would stay there.
WalletsNamed == escrows[Key].seller # Contract

IInv == /\ TypeOK /\ Lock!IInv
        /\ MetadataTruthful /\ SnapshotsTruthful /\ NotesTruthful
        /\ ReceiptsTruthful /\ ReleasesDue /\ NoEarlyPayout
        /\ WalletsNamed /\ OneLock

-----------------------------------------------------------------------------
(* The chain under the backend.                                            *)

\* What any step of the system can do on chain.
ChainMove ==
  \/ \E amt \in Nat : Celo!approve(Wallet, amt)
  \/ \E seller \in {Wallet, Farmer}, amt \in Nat :
       Celo!createEscrow(Wallet, Key, seller, amt)
  \/ Celo!releaseFunds(Wallet, Key)
  \/ Celo!raiseDispute(Wallet, Key)
  \/ \E toBuyer \in BOOLEAN : Celo!resolveDispute(Wallet, Key, toBuyer)
  \/ Celo!refund(Wallet, Key)

\* A transaction of a promise is a call of the contract.
LEMMA ExecuteMoves ==
  ASSUME NEW tx \in Tx, Execute(tx)
  PROVE  ChainMove
  BY SettlementAssumption DEF Execute, ChainMove

\* Every step is a call of the contract by the platform or none.
LEMMA StepMoves ==
  ASSUME TypeOK, [Next]_vars
  PROVE  ChainMove \/ UNCHANGED chain
<1>1. CASE Core
  <2>1. ASSUME NEW h \in Handlers, mine(h)
        PROVE  ChainMove \/ UNCHANGED chain
    BY <2>1, SettlementAssumption DEF mine, Execute, ChainMove
  <2> QED
    BY <1>1, <2>1 DEF Core, updatePhaseRead, updatePhaseWrite, settle,
       settlementRead, approved, created, released, rejected, sellersChange
<1>2. CASE escrowRoutes
  <2>1. route \in Nat
    BY SettlementAssumption DEF TypeOK, BackendType
  <2> QED
    BY <1>2, <2>1 DEF escrowRoutes, adminApproves, adminCreates, adminDisputes,
       adminPays, ChainMove
<1>3. CASE OtherWriters
  BY <1>3 DEF OtherWriters, AdminWriters, TransportWriters, update,
     updateRecheck, finalizeTradeRead, finalizeTradeWrite, rawWrite,
     setInitialNegotiationPhase, inspectionsVerified, createTransportRequest,
     InspectionWriters, inspectionFailed, inspectionNoted, acceptBid,
     confirmDelivery, untouched
<1>4. CASE Faults
  BY <1>4, ExecuteMoves DEF Faults, throws, orphanLands, crash
<1>5. CASE UNCHANGED vars
  BY <1>5 DEF vars, chain
<1> QED
  BY <1>1, <1>2, <1>3, <1>4, <1>5 DEF Next

\* The calls are steps of the contract's own specification.
LEMMA MoveIsStep ==
  ASSUME ChainMove
  PROVE  Lock!Next
<1>1. Key \in Lock!Keys /\ Wallet \in {Wallet, Farmer}
  BY DEF Key, Lock!Keys
<1>2. {Wallet, Farmer} \subseteq Lock!Parties \cup {NoOne}
  BY DEF Lock!Parties
<1>3. ASSUME NEW amt \in Nat, Celo!approve(Wallet, amt)
      PROVE  Lock!Next
  BY <1>1, <1>3 DEF Celo!approve, Lock!approve, Lock!Next
<1>4. ASSUME NEW seller \in {Wallet, Farmer}, NEW amt \in Nat,
             Celo!createEscrow(Wallet, Key, seller, amt)
      PROVE  Lock!Next
  <2>1. Lock!createEscrow(Wallet, Key, seller, amt)
    BY <1>4 DEF Celo!createEscrow, Lock!createEscrow, Celo!Moved, Lock!Moved,
       Celo!roles, Lock!roles, Celo!AWAITING_DELIVERY, Lock!AWAITING_DELIVERY
  <2> QED
    BY <1>1, <1>2, <2>1 DEF Lock!Next
<1>5. CASE Celo!releaseFunds(Wallet, Key)
  <2>1. Lock!releaseFunds(Wallet, Key)
    BY <1>5 DEF Celo!releaseFunds, Lock!releaseFunds, Celo!PayOut, Lock!PayOut,
       Celo!Moved, Lock!Moved, Celo!AWAITING_DELIVERY, Lock!AWAITING_DELIVERY,
       Celo!COMPLETE, Lock!COMPLETE
  <2> QED
    BY <1>1, <2>1 DEF Lock!Next
<1>6. CASE Celo!raiseDispute(Wallet, Key)
  <2>1. Lock!raiseDispute(Wallet, Key)
    BY <1>6 DEF Celo!raiseDispute, Lock!raiseDispute, Celo!AWAITING_DELIVERY,
       Lock!AWAITING_DELIVERY, Celo!DISPUTED, Lock!DISPUTED
  <2> QED
    BY <1>1, <2>1 DEF Lock!Next
<1>7. ASSUME NEW toBuyer \in BOOLEAN, Celo!resolveDispute(Wallet, Key, toBuyer)
      PROVE  Lock!Next
  <2>1. Lock!resolveDispute(Wallet, Key, toBuyer)
    BY <1>7 DEF Celo!resolveDispute, Lock!resolveDispute, Celo!PayOut,
       Lock!PayOut, Celo!Moved, Lock!Moved, Celo!DISPUTED, Lock!DISPUTED,
       Celo!COMPLETE, Lock!COMPLETE
  <2> QED
    BY <1>1, <2>1 DEF Lock!Next
<1>8. CASE Celo!refund(Wallet, Key)
  <2>1. Lock!refund(Wallet, Key)
    BY <1>8 DEF Celo!refund, Lock!refund, Celo!PayOut, Lock!PayOut,
       Celo!Moved, Lock!Moved, Celo!DISPUTED, Lock!DISPUTED,
       Celo!REFUNDED, Lock!REFUNDED
  <2> QED
    BY <1>1, <2>1 DEF Lock!Next
<1> QED
  BY <1>3, <1>4, <1>5, <1>6, <1>7, <1>8 DEF ChainMove

\* The contract starts as its constructor leaves it.
LEMMA LockInit == Init => Lock!Init
<1> SUFFICES ASSUME Init PROVE Lock!Init
  OBVIOUS
<1>1. escrows = [k \in Lock!Keys |-> Lock!NoEscrow]
  BY DEF Init, Key, Lock!Keys, Lock!NoEscrow, Celo!NoEscrow,
     Celo!AWAITING_PAYMENT, Lock!AWAITING_PAYMENT
<1>2. balance \in [Lock!Parties -> Nat] /\ balance[Contract] = 0
  BY SettlementAssumption, WalletAssumption DEF Init, Lock!Parties
<1> QED
  BY <1>1, <1>2 DEF Init, Lock!Init

\* What a call never undoes: a lock that was made, a pay-out that was made.
LEMMA Forward ==
  ASSUME Lock!TypeOK, Lock!FundedIffOpen, ChainMove \/ UNCHANGED chain
  PROVE  /\ onChain # Celo!AWAITING_PAYMENT => onChain' # Celo!AWAITING_PAYMENT
         /\ onChain = Celo!COMPLETE => onChain' = Celo!COMPLETE
<1> USE DEF onChain, Celo!AWAITING_PAYMENT, Celo!AWAITING_DELIVERY,
        Celo!COMPLETE, Celo!DISPUTED, Celo!REFUNDED
<1>1. /\ Key \in Lock!Keys /\ escrows \in [Lock!Keys -> Lock!Escrow]
      /\ \A k \in Lock!Keys : DOMAIN escrows[k] =
                                {"buyer", "seller", "amount", "state"}
  BY DEF Key, Lock!Keys, Lock!TypeOK, Lock!Escrow
<1>2. CASE UNCHANGED escrows
  BY <1>2
<1>3. ASSUME NEW seller \in {Wallet, Farmer}, NEW amt \in Nat,
             Celo!createEscrow(Wallet, Key, seller, amt)
      PROVE  escrows[Key].state = "AWAITING_PAYMENT"
             /\ escrows'[Key].state = "AWAITING_DELIVERY"
  BY <1>1, <1>3 DEF Celo!createEscrow, Lock!FundedIffOpen,
     Lock!AWAITING_PAYMENT
<1>4. ASSUME Celo!releaseFunds(Wallet, Key) \/ Celo!raiseDispute(Wallet, Key)
      PROVE  escrows[Key].state = "AWAITING_DELIVERY"
             /\ escrows'[Key].state # "AWAITING_PAYMENT"
  BY <1>1, <1>4 DEF Celo!releaseFunds, Celo!raiseDispute, Celo!PayOut
<1>5. ASSUME \/ \E toBuyer \in BOOLEAN :
                  Celo!resolveDispute(Wallet, Key, toBuyer)
             \/ Celo!refund(Wallet, Key)
      PROVE  escrows[Key].state = "DISPUTED"
             /\ escrows'[Key].state # "AWAITING_PAYMENT"
  BY <1>1, <1>5 DEF Celo!resolveDispute, Celo!refund, Celo!PayOut
<1> QED
  BY <1>2, <1>3, <1>4, <1>5 DEF ChainMove, chain, Celo!approve

\* A call keeps the contract's money the money of the one open deal.
LEMMA OneLockStep ==
  ASSUME Lock!TypeOK, Lock!FundedIffOpen, WalletsNamed, OneLock,
         ChainMove \/ UNCHANGED chain
  PROVE  WalletsNamed' /\ OneLock'
<1> DEFINE owed == escrows[Key].amount
<1> USE DEF onChain, Celo!AWAITING_PAYMENT, Celo!AWAITING_DELIVERY,
        Celo!COMPLETE, Celo!DISPUTED, Celo!REFUNDED, Celo!Open
<1>1. /\ Key \in Lock!Keys /\ escrows \in [Lock!Keys -> Lock!Escrow]
      /\ escrows[Key] \in Lock!Escrow /\ owed \in Nat
  BY DEF Key, Lock!Keys, Lock!TypeOK, Lock!Escrow
<1>2. /\ balance \in [Lock!Parties -> Nat] /\ Contract \in Lock!Parties
      /\ Wallet \in Lock!Parties /\ Wallet # Contract
      /\ Farmer \in Lock!Parties /\ Farmer # Contract
  BY WalletAssumption DEF Lock!TypeOK, Lock!Parties
<1>3. CASE UNCHANGED <<escrows, balance>>
  BY <1>3 DEF OneLock, WalletsNamed
<1>4. ASSUME NEW seller \in {Wallet, Farmer}, NEW amt \in Nat,
             Celo!createEscrow(Wallet, Key, seller, amt)
      PROVE  WalletsNamed' /\ OneLock'
  <2>1. balance[Contract] = 0
    BY <1>1, <1>4 DEF OneLock, Celo!createEscrow, Lock!FundedIffOpen,
       Lock!AWAITING_PAYMENT
  <2>2. balance'[Contract] = balance[Contract] + amt
    BY <1>2, <1>4 DEF Celo!createEscrow, Celo!Moved
  <2>3. escrows'[Key].amount = amt /\ escrows'[Key].state = "AWAITING_DELIVERY"
        /\ escrows'[Key].seller = seller
    BY <1>1, <1>4 DEF Celo!createEscrow
  <2>4. WalletsNamed'
    BY <1>2, <2>3 DEF WalletsNamed
  <2>5. OneLock'
    BY <2>1, <2>2, <2>3 DEF OneLock
  <2> QED
    BY <2>4, <2>5
<1>5. ASSUME NEW final \in {"COMPLETE", "REFUNDED"},
             NEW p \in {escrows[Key].buyer, escrows[Key].seller},
             escrows[Key].state \in {"AWAITING_DELIVERY", "DISPUTED"},
             Celo!PayOut(Key, p, final)
      PROVE  WalletsNamed' /\ OneLock'
  <2>1. p \in {Wallet, Farmer}
    BY <1>1, <1>5 DEF Lock!FundedIffOpen, Lock!Escrow, Lock!Parties,
       Lock!AWAITING_PAYMENT, WalletsNamed
  <2>2. balance[Contract] = owed
    BY <1>5 DEF OneLock
  <2>3. /\ escrows'[Key].state = final
        /\ escrows'[Key].seller = escrows[Key].seller
    BY <1>1, <1>5 DEF Celo!PayOut, Lock!Escrow
  <2>4. balance'[Contract] = balance[Contract] - owed
    BY <1>1, <1>2, <1>5, <2>1 DEF Celo!PayOut, Celo!Moved
  <2> QED
    BY <1>1, <2>2, <2>3, <2>4 DEF OneLock, WalletsNamed
<1>6. CASE Celo!raiseDispute(Wallet, Key)
  <2>1. /\ escrows'[Key].state = "DISPUTED" /\ escrows'[Key].amount = owed
        /\ escrows'[Key].seller = escrows[Key].seller
    BY <1>1, <1>6 DEF Celo!raiseDispute, Lock!Escrow
  <2> QED
    BY <1>6, <2>1 DEF Celo!raiseDispute, OneLock, WalletsNamed
<1>7. ASSUME \/ Celo!releaseFunds(Wallet, Key)
             \/ \E toBuyer \in BOOLEAN :
                  Celo!resolveDispute(Wallet, Key, toBuyer)
             \/ Celo!refund(Wallet, Key)
      PROVE  WalletsNamed' /\ OneLock'
  BY <1>5, <1>7 DEF Celo!releaseFunds, Celo!resolveDispute, Celo!refund
<1> QED
  BY <1>3, <1>4, <1>6, <1>7 DEF ChainMove, chain, Celo!approve

-----------------------------------------------------------------------------
(* Types.                                                                  *)

\* The names of the phases are phases.
LEMMA PhaseNames ==
  /\ {SELLER_NEGOTIATION, TRANSPORT_MATCHING, IN_TRANSIT, DELIVERED, COMPLETED,
      CANCELLED, INITIATION, ReleasePhase} \subseteq Phase
  /\ Idle \in Call /\ Asleep \in Settlement /\ Asleep.metadata \in Metadata
<1>1. {SELLER_NEGOTIATION, TRANSPORT_MATCHING, IN_TRANSIT, DELIVERED,
       COMPLETED, CANCELLED, INITIATION, ReleasePhase} \subseteq Phase
  BY SettlementAssumption DEF Phase, SELLER_MATCHING, INCOTERM_RELEASE_PHASE
<1>2. Asleep.metadata \in Metadata
  BY DEF Asleep, Metadata
<1> QED
  BY <1>1, <1>2 DEF Idle, Call, Asleep, Settlement

\* The service starts well typed.
LEMMA BackendInit == Init => BackendType
<1> SUFFICES ASSUME Init PROVE BackendType
  OBVIOUS
<1>1. trade \in [phase : Phase, status : {"ACTIVE", "COMPLETED"},
                metadata : Metadata]
  BY PhaseNames DEF Init
<1>2. calls \in [Calls -> Call] /\ handlers \in [Handlers -> Settlement]
  BY PhaseNames DEF Init
<1>3. route \in 0..Funds
  BY SettlementAssumption DEF Init
<1> QED
  BY <1>1, <1>2, <1>3 DEF Init, BackendType

\* Every step keeps the types of the backend.
LEMMA BackendStep ==
  ASSUME BackendType, [Next]_vars
  PROVE  BackendType'
<1>1. ASSUME NEW c \in Calls, NEW p \in Phase, updatePhaseRead(c, p)
      PROVE  BackendType'
  BY <1>1 DEF updatePhaseRead, BackendType, Call, row, history
<1>2. ASSUME NEW c \in Calls, updatePhaseWrite(c)
      PROVE  BackendType'
  <2>1. calls[c].target \in Phase /\ calls' \in [Calls -> Call]
    BY <1>2, PhaseNames DEF updatePhaseWrite, BackendType, Call
  <2>2. trade' \in [phase : Phase, status : {"ACTIVE", "COMPLETED"},
                    metadata : Metadata]
    BY <1>2, <2>1 DEF updatePhaseWrite, BackendType
  <2>3. handlers' \in [Handlers -> Settlement]
    BY <1>2, <2>1, PhaseNames
    DEF updatePhaseWrite, BackendType, StartSettlement, Settlement
  <2> QED
    BY <1>2, <2>1, <2>2, <2>3 DEF updatePhaseWrite, BackendType
<1>3. ASSUME NEW h \in Handlers, settle(h) PROVE BackendType'
  <2>1. /\ handlers[h] \in Settlement /\ handlers[h].metadata \in Metadata
        /\ trade.metadata \in Metadata
    BY DEF BackendType, Settlement
  <2>2. ASSUME NEW tx \in Tx, NEW m \in Metadata, Send(h, tx, m)
        PROVE  handlers' \in [Handlers -> Settlement]
    BY <2>1, <2>2 DEF Send, BackendType, Settlement
  <2>3. ASSUME Return(h)
        PROVE  handlers' \in [Handlers -> Settlement]
    BY <2>3, PhaseNames DEF Return, BackendType
  <2>4. CASE settlementRead(h)
    BY <2>1, <2>2, <2>3, <2>4 DEF settlementRead, BackendType, row, history, Tx
  <2>5. CASE approved(h)
    BY <2>1, <2>2, <2>3, <2>5 DEF approved, BackendType, row, history, Tx
  <2>6. CASE created(h)
    <3>1. trade' \in [phase : Phase, status : {"ACTIVE", "COMPLETED"},
                      metadata : Metadata]
      BY <2>1, <2>6 DEF created, BackendType, Metadata
    <3> QED
      BY <2>1, <2>2, <2>3, <2>6, <3>1 DEF created, BackendType, history, Tx
  <2>7. CASE released(h)
    <3>1. trade' \in [phase : Phase, status : {"ACTIVE", "COMPLETED"},
                      metadata : Metadata]
      BY <2>1, <2>7 DEF released, BackendType, Metadata
    <3> QED
      BY <2>3, <2>7, <3>1 DEF released, BackendType, history
  <2>8. CASE rejected(h)
    BY <2>3, <2>8 DEF rejected, BackendType, row, history
  <2> QED
    BY <1>3, <2>4, <2>5, <2>6, <2>7, <2>8 DEF settle
<1>4. ASSUME NEW h \in Handlers, mine(h) PROVE BackendType'
  <2>1. handlers' \in [Handlers -> Settlement]
    BY <1>4 DEF mine, BackendType, Settlement
  <2>2. paidBy' \in {"nobody", "settlement", "admin"}
    BY <1>4 DEF mine, BackendType, Execute
  <2> QED
    BY <1>4, <2>1, <2>2 DEF mine, BackendType, row
<1>5. CASE sellersChange
  BY <1>5 DEF sellersChange, BackendType, history
<1>6. CASE escrowRoutes
  <2>1. route' \in 0..Funds /\ paidBy' \in {"nobody", "settlement", "admin"}
    BY <1>6, SettlementAssumption DEF escrowRoutes, adminApproves,
       adminCreates, adminDisputes, adminPays, BackendType
  <2> QED
    BY <1>6, <2>1 DEF escrowRoutes, BackendType, row
<1>7. CASE AdminWriters
  <2>1. ASSUME NEW c \in Calls, NEW p \in Phase, update(c, p)
        PROVE  BackendType'
    BY <2>1 DEF update, WritePhase, BackendType, Call, untouched, history
  <2>2. ASSUME NEW c \in Calls, updateRecheck(c)
        PROVE  BackendType'
    BY <2>2, PhaseNames
    DEF updateRecheck, BackendType, Call, untouched, history
  <2>3. ASSUME NEW c \in Calls, finalizeTradeRead(c) \/ finalizeTradeWrite(c)
        PROVE  BackendType'
    <3>1. trade' \in [phase : Phase, status : {"ACTIVE", "COMPLETED"},
                      metadata : Metadata]
      BY <2>3, PhaseNames
      DEF finalizeTradeRead, finalizeTradeWrite, BackendType
    <3>2. calls' \in [Calls -> Call]
      BY <2>3, PhaseNames
      DEF finalizeTradeRead, finalizeTradeWrite, BackendType, Call
    <3> QED
      BY <2>3, <3>1, <3>2 DEF finalizeTradeRead, finalizeTradeWrite,
         BackendType, untouched, history
  <2>4. CASE setInitialNegotiationPhase \/ inspectionsVerified
    BY <2>4, PhaseNames DEF setInitialNegotiationPhase, inspectionsVerified,
       WritePhase, BackendType, untouched, history
  <2> QED
    BY <1>7, <2>1, <2>2, <2>3, <2>4 DEF AdminWriters
<1>8. CASE TransportWriters
  <2>1. ASSUME NEW c \in Calls, createTransportRequest(c)
        PROVE  BackendType'
    BY <2>1, PhaseNames
    DEF createTransportRequest, BackendType, Call, untouched, history
  <2>2. ASSUME NEW c \in Calls, rawWrite(c)
        PROVE  BackendType'
    BY <2>2, PhaseNames
    DEF rawWrite, WritePhase, BackendType, Call, untouched, history
  <2>3. CASE acceptBid \/ confirmDelivery
    BY <2>3, PhaseNames DEF acceptBid, confirmDelivery, WritePhase,
       BackendType, untouched, history
  <2> QED
    BY <1>8, <2>1, <2>2, <2>3 DEF TransportWriters
<1>11. CASE InspectionWriters
  <2>1. ASSUME NEW c \in Calls, inspectionFailed(c)
        PROVE  BackendType'
    BY <2>1 DEF inspectionFailed, BackendType, Call, untouched, history
  <2>2. ASSUME NEW c \in Calls, inspectionNoted(c)
        PROVE  BackendType'
    <3>1. calls[c].metadata \in Metadata /\ calls' \in [Calls -> Call]
      BY <2>2, PhaseNames DEF inspectionNoted, BackendType, Call
    <3>2. trade' \in [phase : Phase, status : {"ACTIVE", "COMPLETED"},
                      metadata : Metadata]
      BY <2>2, <3>1 DEF inspectionNoted, BackendType
    <3> QED
      BY <2>2, <3>1, <3>2
      DEF inspectionNoted, BackendType, untouched, history
  <2> QED
    BY <1>11, <2>1, <2>2 DEF InspectionWriters
<1>9. CASE Faults
  <2>1. \A h \in Handlers : handlers[h].tx = "pending" => handlers[h].pc \in Tx
    BY DEF BackendType, Settlement
  <2>2. ASSUME NEW h \in Handlers, throws(h)
        PROVE  BackendType'
    BY <2>1, <2>2, PhaseNames DEF throws, Return, BackendType, row, history
  <2>3. ASSUME NEW tx \in Tx, orphanLands(tx)
        PROVE  BackendType'
    BY <2>3 DEF orphanLands, Execute, BackendType, row
  <2>4. CASE crash
    BY <2>1, <2>4, PhaseNames, SettlementAssumption
    DEF crash, BackendType, row, history
  <2> QED
    BY <1>9, <2>2, <2>3, <2>4 DEF Faults
<1>10. CASE UNCHANGED vars
  BY <1>10 DEF vars, BackendType
<1> QED
  BY <1>1, <1>2, <1>3, <1>4, <1>5, <1>6, <1>7, <1>8, <1>9, <1>10,
     <1>11
  DEF Next, Core, OtherWriters

-----------------------------------------------------------------------------
(* The truth about the chain.                                              *)

\* What the settlement knows: the parts of IInv that mention promises.
Knowledge == MetadataTruthful /\ SnapshotsTruthful /\ ReceiptsTruthful

\* Metadata that will be true after the step.
StaysTruthful(metadata) ==
  /\ metadata.escrowCreated => onChain' # Celo!AWAITING_PAYMENT
  /\ metadata.escrowReleased => onChain' = Celo!COMPLETE

\* What is true of the chain stays true.
LEMMA TruthStays ==
  ASSUME Lock!TypeOK, Lock!FundedIffOpen, ChainMove \/ UNCHANGED chain,
         NEW m, Truthful(m)
  PROVE  StaysTruthful(m)
  BY Forward DEF Truthful, StaysTruthful

\* A step that hands out no new snapshot or receipt keeps what is known true.
LEMMA KnowledgeKept ==
  ASSUME Lock!TypeOK, Lock!FundedIffOpen, ChainMove \/ UNCHANGED chain,
         Knowledge, UNCHANGED handlers, StaysTruthful(trade'.metadata)
  PROVE  Knowledge'
  BY Forward DEF Knowledge, MetadataTruthful, SnapshotsTruthful,
     ReceiptsTruthful, Truthful, StaysTruthful, Mined

\* A promise that starts, waits or ends with a true snapshot keeps it too.
LEMMA KnowledgeMoves ==
  ASSUME BackendType, Lock!TypeOK, Lock!FundedIffOpen,
         ChainMove \/ UNCHANGED chain, Knowledge,
         NEW h \in Handlers, NEW s, handlers' = [handlers EXCEPT ![h] = s],
         s.tx # "mined", StaysTruthful(s.metadata),
         StaysTruthful(trade'.metadata)
  PROVE  Knowledge'
<1>1. ASSUME NEW g \in Handlers
      PROVE  handlers'[g] = IF g = h THEN s ELSE handlers[g]
  BY DEF BackendType
<1>2. MetadataTruthful'
  BY DEF MetadataTruthful, Truthful, StaysTruthful
<1>3. SnapshotsTruthful'
  BY <1>1, Forward DEF Knowledge, SnapshotsTruthful, Truthful, StaysTruthful
<1>4. ReceiptsTruthful'
  BY <1>1, Forward DEF Knowledge, ReceiptsTruthful, Mined
<1> QED
  BY <1>2, <1>3, <1>4 DEF Knowledge

\* What the receipt of a transaction says.
LEMMA ReceiptMeans ==
  ASSUME Lock!TypeOK, NEW tx \in Tx, Execute(tx)
  PROVE  /\ tx = "create" => onChain' # Celo!AWAITING_PAYMENT
         /\ tx = "release" => onChain' = Celo!COMPLETE
<1>1. /\ Key \in Lock!Keys /\ escrows \in [Lock!Keys -> Lock!Escrow]
      /\ escrows[Key] \in Lock!Escrow
  BY DEF Key, Lock!Keys, Lock!TypeOK
<1>2. CASE tx = "create"
  BY <1>1, <1>2 DEF Execute, Celo!createEscrow, Celo!AWAITING_PAYMENT,
     Celo!AWAITING_DELIVERY, onChain
<1>3. CASE tx = "release"
  BY <1>1, <1>3 DEF Execute, Celo!releaseFunds, Celo!PayOut, Celo!COMPLETE,
     Lock!Escrow, onChain
<1> QED
  BY <1>2, <1>3

\* A mined transaction is known by a true receipt.
LEMMA KnowledgeMined ==
  ASSUME BackendType, Lock!TypeOK, Lock!FundedIffOpen, Knowledge,
         NEW h \in Handlers, mine(h)
  PROVE  Knowledge'
<1>1. handlers[h].pc \in Tx
  BY DEF mine, BackendType, Settlement
<1>2. ChainMove \/ UNCHANGED chain
  BY <1>1, ExecuteMoves DEF mine, chain
<1>3. UNCHANGED trade
  BY DEF mine, row
<1>4. ASSUME NEW g \in Handlers
      PROVE  /\ handlers'[g].metadata = handlers[g].metadata
             /\ handlers'[g].pc = handlers[g].pc
             /\ g # h => handlers'[g] = handlers[g]
  BY DEF mine, BackendType, Settlement
<1>5. ASSUME Mined(h, handlers[h].pc)'
      PROVE  Execute(handlers[h].pc)
  BY <1>5 DEF mine, Mined, BackendType, Settlement
<1>6. MetadataTruthful'
  BY <1>2, <1>3, Forward DEF Knowledge, MetadataTruthful, Truthful
<1>7. SnapshotsTruthful'
  BY <1>2, <1>4, Forward DEF Knowledge, SnapshotsTruthful, Truthful
<1>8. ReceiptsTruthful'
  <2>1. ASSUME NEW g \in Handlers, g # h
        PROVE  /\ Mined(g, "create")' => onChain' # Celo!AWAITING_PAYMENT
               /\ Mined(g, "release")' => onChain' = Celo!COMPLETE
    BY <1>2, <1>4, <2>1, Forward DEF Knowledge, ReceiptsTruthful, Mined
  <2>2. /\ Mined(h, "create")' => onChain' # Celo!AWAITING_PAYMENT
        /\ Mined(h, "release")' => onChain' = Celo!COMPLETE
    BY <1>1, <1>4, <1>5, ReceiptMeans DEF Mined
  <2> QED
    BY <2>1, <2>2 DEF ReceiptsTruthful
<1> QED
  BY <1>6, <1>7, <1>8 DEF Knowledge

\* A failed inspection reads what is true and finds it true when it writes.
LEMMA NotesStep ==
  ASSUME TypeOK, Lock!TypeOK, Lock!FundedIffOpen, MetadataTruthful,
         NotesTruthful, [Next]_vars
  PROVE  NotesTruthful'
<1>1. ASSUME NEW c \in Calls, calls'[c].pc = "note"
      PROVE  calls'[c] = calls[c] \/ calls'[c].metadata = trade.metadata
  <2>1. calls \in [Calls -> Call]
    BY DEF TypeOK, BackendType
  <2>2. CASE Core
    <3>1. ASSUME NEW d \in Calls, NEW p \in Phase, updatePhaseRead(d, p)
          PROVE  calls'[c] = calls[c]
      BY <1>1, <2>1, <3>1 DEF updatePhaseRead
    <3>2. ASSUME NEW d \in Calls, updatePhaseWrite(d)
          PROVE  calls'[c] = calls[c]
      BY <1>1, <2>1, <3>2 DEF updatePhaseWrite, Idle
    <3> QED
      BY <2>2, <3>1, <3>2 DEF Core, settle, settlementRead, approved, created,
         released, rejected, mine, sellersChange
  <2>3. CASE AdminWriters
    <3>1. ASSUME NEW d \in Calls, NEW p \in Phase, update(d, p)
          PROVE  calls'[c] = calls[c]
      BY <1>1, <2>1, <3>1 DEF update
    <3>2. ASSUME NEW d \in Calls, updateRecheck(d)
          PROVE  calls'[c] = calls[c]
      <4>1. CASE Valid(calls[d].target)
        BY <1>1, <2>1, <3>2, <4>1 DEF updateRecheck
      <4>2. CASE ~Valid(calls[d].target)
        BY <1>1, <2>1, <3>2, <4>2 DEF updateRecheck, Idle
      <4> QED
        BY <4>1, <4>2
    <3>3. ASSUME NEW d \in Calls, finalizeTradeRead(d) \/ finalizeTradeWrite(d)
          PROVE  calls'[c] = calls[c]
      BY <1>1, <2>1, <3>3 DEF finalizeTradeRead, finalizeTradeWrite, Idle
    <3> QED
      BY <2>3, <3>1, <3>2, <3>3 DEF AdminWriters, setInitialNegotiationPhase,
         inspectionsVerified
  <2>4. CASE TransportWriters
    <3>1. ASSUME NEW d \in Calls, createTransportRequest(d) \/ rawWrite(d)
          PROVE  calls'[c] = calls[c]
      BY <1>1, <2>1, <3>1 DEF createTransportRequest, rawWrite, Idle
    <3> QED
      BY <2>4, <3>1 DEF TransportWriters, acceptBid, confirmDelivery
  <2>5. CASE InspectionWriters
    <3>1. ASSUME NEW d \in Calls, inspectionFailed(d)
          PROVE  calls'[c] = calls[c] \/ calls'[c].metadata = trade.metadata
      BY <1>1, <2>1, <3>1 DEF inspectionFailed
    <3>2. ASSUME NEW d \in Calls, inspectionNoted(d)
          PROVE  calls'[c] = calls[c]
      BY <1>1, <2>1, <3>2 DEF inspectionNoted, Idle
    <3> QED
      BY <2>5, <3>1, <3>2 DEF InspectionWriters
  <2>6. CASE Faults
    BY <1>1, <2>6 DEF Faults, throws, orphanLands, crash, Idle
  <2>7. CASE escrowRoutes \/ UNCHANGED vars
    BY <2>7 DEF escrowRoutes, vars
  <2> QED
    BY <2>2, <2>3, <2>4, <2>5, <2>6, <2>7 DEF Next, OtherWriters
<1>2. ASSUME NEW c \in Calls, calls'[c].pc = "note"
      PROVE  Truthful(calls'[c].metadata)
  BY <1>1, <1>2 DEF NotesTruthful, MetadataTruthful
<1>3. ChainMove \/ UNCHANGED chain
  BY StepMoves
<1> QED
  BY <1>2, <1>3, TruthStays DEF NotesTruthful, Truthful, StaysTruthful

\* Every step keeps what is known of the chain true.
LEMMA KnowledgeStep ==
  ASSUME TypeOK, Lock!TypeOK, Lock!FundedIffOpen, Knowledge, NotesTruthful,
         [Next]_vars
  PROVE  Knowledge'
<1>0. BackendType /\ (ChainMove \/ UNCHANGED chain)
  BY StepMoves DEF TypeOK
<1>1. /\ StaysTruthful(trade.metadata) /\ StaysTruthful(Asleep.metadata)
      /\ \A h \in Handlers : StaysTruthful(handlers[h].metadata)
  <2>1. /\ Truthful(trade.metadata)
        /\ \A h \in Handlers : Truthful(handlers[h].metadata)
    BY DEF Knowledge, MetadataTruthful, SnapshotsTruthful
  <2>2. StaysTruthful(Asleep.metadata)
    BY DEF StaysTruthful, Asleep
  <2> QED
    BY <1>0, <2>1, <2>2, TruthStays
<1>2. ASSUME UNCHANGED handlers, UNCHANGED trade.metadata
      PROVE  Knowledge'
  BY <1>0, <1>1, <1>2, KnowledgeKept
<1>3. ASSUME NEW h \in Handlers, NEW s, handlers' = [handlers EXCEPT ![h] = s],
             s.tx # "mined", StaysTruthful(s.metadata),
             StaysTruthful(trade'.metadata)
      PROVE  Knowledge'
  BY <1>0, <1>3, KnowledgeMoves
<1>4. ASSUME NEW h \in Handlers, Return(h), StaysTruthful(trade'.metadata)
      PROVE  Knowledge'
  <2>1. Asleep.tx # "mined"
    BY DEF Asleep
  <2> QED
    BY <1>1, <1>3, <1>4, <2>1 DEF Return
<1>5. ASSUME NEW h \in Handlers, NEW tx, NEW m, Send(h, tx, m),
             StaysTruthful(m), StaysTruthful(trade'.metadata)
      PROVE  Knowledge'
  <2> DEFINE s == [pc |-> tx, phase |-> handlers[h].phase, tx |-> "pending",
                   metadata |-> m]
  <2>1. s.tx # "mined" /\ s.metadata = m
    OBVIOUS
  <2>2. handlers' = [handlers EXCEPT ![h] = s]
    BY <1>5 DEF Send
  <2> HIDE DEF s
  <2> QED
    BY <1>3, <1>5, <2>1, <2>2
<1>6. ASSUME NEW c \in Calls, updatePhaseWrite(c)
      PROVE  Knowledge'
  <2>1. trade'.metadata = trade.metadata
    BY <1>0, <1>6 DEF updatePhaseWrite, BackendType
  <2>2. CASE Settles(calls[c].target)
    <3> DEFINE s == [pc |-> "read", phase |-> calls[c].target, tx |-> "none",
                     metadata |-> Asleep.metadata]
    <3>1. s.tx # "mined" /\ s.metadata = Asleep.metadata
      OBVIOUS
    <3>2. PICK h \in Handlers : handlers' = [handlers EXCEPT ![h] = s]
      BY <1>6, <2>2 DEF updatePhaseWrite, StartSettlement
    <3> HIDE DEF s
    <3> QED
      BY <1>1, <1>3, <2>1, <3>1, <3>2
  <2>3. CASE ~Settles(calls[c].target)
    BY <1>2, <1>6, <2>1, <2>3 DEF updatePhaseWrite, StartSettlement
  <2> QED
    BY <2>2, <2>3
<1>7. ASSUME NEW h \in Handlers, settle(h)
      PROVE  Knowledge'
  <2>1. CASE settlementRead(h)
    <3>1. trade' = trade
      BY <2>1 DEF settlementRead, row
    <3> QED
      BY <1>1, <1>4, <1>5, <2>1, <3>1 DEF settlementRead
  <2>2. CASE approved(h)
    <3>1. trade' = trade
      BY <2>2 DEF approved, row
    <3> QED
      BY <1>1, <1>5, <2>2, <3>1 DEF approved
  <2>3. CASE created(h)
    <3>1. onChain' # Celo!AWAITING_PAYMENT
      BY <1>0, <2>3, Forward DEF created, Knowledge, ReceiptsTruthful
    <3>2. StaysTruthful(trade'.metadata)
      BY <1>0, <1>1, <2>3, <3>1
      DEF created, BackendType, Settlement, Metadata, StaysTruthful
    <3> QED
      BY <1>1, <1>4, <1>5, <2>3, <3>2 DEF created
  <2>4. CASE released(h)
    <3>1. onChain' = Celo!COMPLETE
      BY <1>0, <2>4, Forward DEF released, Knowledge, ReceiptsTruthful
    <3>2. StaysTruthful(trade'.metadata)
      BY <1>0, <1>1, <2>4, <3>1
      DEF released, BackendType, Settlement, Metadata, StaysTruthful
    <3> QED
      BY <1>4, <2>4, <3>2 DEF released
  <2>5. CASE rejected(h)
    <3>1. trade' = trade
      BY <2>5 DEF rejected, row
    <3> QED
      BY <1>1, <1>4, <2>5, <3>1 DEF rejected
  <2> QED
    BY <1>7, <2>1, <2>2, <2>3, <2>4, <2>5 DEF settle
<1>8. ASSUME NEW h \in Handlers, mine(h)
      PROVE  Knowledge'
  BY <1>0, <1>8, KnowledgeMined
<1>9. CASE \/ \E c \in Calls, p \in Phase : updatePhaseRead(c, p)
           \/ sellersChange \/ escrowRoutes
  BY <1>2, <1>9 DEF updatePhaseRead, sellersChange, escrowRoutes, row
<1>10. CASE OtherWriters
  <2>1. UNCHANGED handlers
    BY <1>10 DEF OtherWriters, AdminWriters, TransportWriters, update,
       updateRecheck, finalizeTradeRead, finalizeTradeWrite, rawWrite,
       setInitialNegotiationPhase, inspectionsVerified, createTransportRequest,
       InspectionWriters, inspectionFailed, inspectionNoted, acceptBid,
       confirmDelivery, untouched
  <2>2. CASE AdminWriters \/ TransportWriters
    <3>1. UNCHANGED trade.metadata
      BY <1>0, <2>2 DEF AdminWriters, TransportWriters, update, updateRecheck,
         finalizeTradeRead, finalizeTradeWrite, rawWrite,
         setInitialNegotiationPhase, inspectionsVerified,
         createTransportRequest, acceptBid, confirmDelivery, WritePhase,
         BackendType
    <3> QED
      BY <1>2, <2>1, <3>1
  <2>3. ASSUME NEW c \in Calls, inspectionFailed(c)
        PROVE  Knowledge'
    BY <1>2, <2>1, <2>3 DEF inspectionFailed
  <2>4. ASSUME NEW c \in Calls, inspectionNoted(c)
        PROVE  Knowledge'
    <3>1. trade'.metadata = calls[c].metadata
      BY <1>0, <2>4 DEF inspectionNoted, BackendType
    <3>2. StaysTruthful(calls[c].metadata)
      BY <1>0, <2>4, TruthStays DEF inspectionNoted, NotesTruthful
    <3> QED
      BY <1>0, <2>1, <3>1, <3>2, KnowledgeKept
  <2> QED
    BY <1>10, <2>2, <2>3, <2>4 DEF OtherWriters, InspectionWriters
<1>11. CASE Faults
  <2>1. trade' = trade
    BY <1>11 DEF Faults, throws, orphanLands, crash, row
  <2>2. ASSUME NEW h \in Handlers, throws(h)
        PROVE  Knowledge'
    BY <1>1, <1>4, <2>1, <2>2 DEF throws
  <2>3. ASSUME NEW tx \in Tx, orphanLands(tx)
        PROVE  Knowledge'
    BY <1>2, <2>1, <2>3 DEF orphanLands
  <2>4. CASE crash
    <3>1. \A g \in Handlers : handlers'[g] = Asleep
      BY <2>4 DEF crash
    <3>2. MetadataTruthful' /\ SnapshotsTruthful'
      BY <1>1, <2>1, <3>1
      DEF MetadataTruthful, SnapshotsTruthful, Truthful, StaysTruthful
    <3>3. ReceiptsTruthful'
      BY <3>1 DEF ReceiptsTruthful, Mined, Asleep
    <3> QED
      BY <3>2, <3>3 DEF Knowledge
  <2> QED
    BY <1>11, <2>2, <2>3, <2>4 DEF Faults
<1>12. CASE UNCHANGED vars
  BY <1>2, <1>12 DEF vars
<1> QED
  BY <1>6, <1>7, <1>8, <1>9, <1>10, <1>11, <1>12 DEF Next, Core

-----------------------------------------------------------------------------
(* Who is paid, and when.                                                  *)

\* One promise changes.
LEMMA DueMoves ==
  ASSUME BackendType, ReleasesDue, due => due', UNCHANGED orphans,
         NEW h \in Handlers, NEW s, handlers' = [handlers EXCEPT ![h] = s],
         s.pc # "idle" /\ s.phase = ReleasePhase => due',
         s.pc = "release" => s.phase = ReleasePhase
  PROVE  ReleasesDue'
<1>1. \A g \in Handlers : handlers'[g] = IF g = h THEN s ELSE handlers[g]
  BY DEF BackendType
<1> QED
  BY <1>1 DEF ReleasesDue

\* Releases stay tied to the release phase.
LEMMA DueStep ==
  ASSUME BackendType, ReleasesDue, [Next]_vars
  PROVE  ReleasesDue'
<1>1. ASSUME UNCHANGED <<handlers, due>>, orphans' \subseteq orphans
      PROVE  ReleasesDue'
  BY <1>1 DEF ReleasesDue
<1>2. ASSUME NEW h \in Handlers, Return(h), UNCHANGED <<due, orphans>>
      PROVE  ReleasesDue'
  <2>1. Asleep.pc = "idle"
    BY DEF Asleep
  <2> QED
    BY <1>2, <2>1, DueMoves DEF Return
<1>3. ASSUME NEW h \in Handlers, NEW tx, NEW m, Send(h, tx, m),
             handlers[h].pc # "idle", tx = "release" =>
               handlers[h].phase = ReleasePhase, UNCHANGED <<due, orphans>>
      PROVE  ReleasesDue'
  <2> DEFINE s == [pc |-> tx, phase |-> handlers[h].phase, tx |-> "pending",
                   metadata |-> m]
  <2>1. s.pc = tx /\ s.phase = handlers[h].phase
    OBVIOUS
  <2>2. handlers' = [handlers EXCEPT ![h] = s]
    BY <1>3 DEF Send
  <2>3. handlers[h].phase = ReleasePhase => due
    BY <1>3 DEF ReleasesDue
  <2> HIDE DEF s
  <2> QED
    BY <1>3, <2>1, <2>2, <2>3, DueMoves
<1>4. ASSUME NEW c \in Calls, updatePhaseWrite(c)
      PROVE  ReleasesDue'
  <2>1. CASE Settles(calls[c].target)
    <3> DEFINE s == [pc |-> "read", phase |-> calls[c].target, tx |-> "none",
                     metadata |-> Asleep.metadata]
    <3>1. s.pc = "read" /\ s.phase = calls[c].target
      OBVIOUS
    <3>2. PICK h \in Handlers : handlers' = [handlers EXCEPT ![h] = s]
      BY <1>4, <2>1 DEF updatePhaseWrite, StartSettlement
    <3> HIDE DEF s
    <3>3. (due => due') /\ (s.phase = ReleasePhase => due')
      BY <1>4, <3>1 DEF updatePhaseWrite
    <3>4. UNCHANGED orphans
      BY <1>4 DEF updatePhaseWrite
    <3> QED
      BY <3>1, <3>2, <3>3, <3>4, DueMoves
  <2>2. CASE ~Settles(calls[c].target)
    BY <1>4, <2>2 DEF updatePhaseWrite, StartSettlement, ReleasesDue
  <2> QED
    BY <2>1, <2>2
<1>5. ASSUME NEW h \in Handlers, settle(h)
      PROVE  ReleasesDue'
  <2>1. UNCHANGED <<due, orphans>>
    BY <1>5 DEF settle, settlementRead, approved, created, released, rejected,
       history
  <2>2. CASE settlementRead(h)
    BY <1>2, <1>3, <2>1, <2>2 DEF settlementRead, ReleaseDue
  <2>3. CASE approved(h)
    BY <1>3, <2>1, <2>3 DEF approved, Mined
  <2>4. CASE created(h)
    BY <1>2, <1>3, <2>1, <2>4 DEF created, ReleaseDue, Mined
  <2>5. CASE released(h) \/ rejected(h)
    BY <1>2, <2>1, <2>5 DEF released, rejected
  <2> QED
    BY <1>5, <2>2, <2>3, <2>4, <2>5 DEF settle
<1>6. ASSUME NEW h \in Handlers, mine(h)
      PROVE  ReleasesDue'
  <2>1. \A g \in Handlers : /\ handlers'[g].pc = handlers[g].pc
                            /\ handlers'[g].phase = handlers[g].phase
    BY <1>6 DEF mine, BackendType, Settlement
  <2> QED
    BY <1>6, <2>1 DEF mine, ReleasesDue
<1>7. CASE \/ \E c \in Calls, p \in Phase : updatePhaseRead(c, p)
           \/ sellersChange \/ escrowRoutes
  BY <1>1, <1>7 DEF updatePhaseRead, sellersChange, escrowRoutes, history
<1>8. CASE OtherWriters
  BY <1>1, <1>8 DEF OtherWriters, AdminWriters, TransportWriters, update,
     updateRecheck, finalizeTradeRead, finalizeTradeWrite, rawWrite,
     setInitialNegotiationPhase, inspectionsVerified, createTransportRequest,
     InspectionWriters, inspectionFailed, inspectionNoted, acceptBid,
     confirmDelivery, untouched, history
<1>9. CASE Faults
  <2>1. \A h \in Handlers : handlers[h].pc = "release" => due
    BY DEF ReleasesDue
  <2>2. ASSUME NEW h \in Handlers, throws(h)
        PROVE  ReleasesDue'
    <3>1. \A g \in Handlers :
            handlers'[g] = IF g = h THEN Asleep ELSE handlers[g]
      BY <2>2 DEF throws, Return, BackendType
    <3>2. "release" \in orphans' => due
      BY <2>1, <2>2 DEF throws, ReleasesDue
    <3> QED
      BY <2>2, <3>1, <3>2 DEF throws, history, ReleasesDue, Asleep
  <2>3. ASSUME NEW tx \in Tx, orphanLands(tx)
        PROVE  ReleasesDue'
    BY <1>1, <2>3 DEF orphanLands
  <2>4. CASE crash
    <3>1. "release" \in orphans' => due
      BY <2>1, <2>4 DEF crash, ReleasesDue
    <3> QED
      BY <2>4, <3>1 DEF crash, history, ReleasesDue, Asleep
  <2> QED
    BY <1>9, <2>2, <2>3, <2>4 DEF Faults
<1>10. CASE UNCHANGED vars
  BY <1>1, <1>10 DEF vars
<1> QED
  BY <1>4, <1>5, <1>6, <1>7, <1>8, <1>9, <1>10 DEF Next, Core

\* Only a release that is due pays on behalf of the settlement.
LEMMA PayoutStep ==
  ASSUME BackendType, ReleasesDue, NoEarlyPayout, [Next]_vars
  PROVE  NoEarlyPayout'
<1>1. due => due'
  BY DEF Next, vars, Core, updatePhaseRead, updatePhaseWrite, settle,
     settlementRead, approved, created, released, rejected, mine,
     sellersChange, escrowRoutes, OtherWriters, AdminWriters,
     TransportWriters, update, updateRecheck, finalizeTradeRead,
     finalizeTradeWrite, rawWrite, setInitialNegotiationPhase,
     inspectionsVerified, createTransportRequest, InspectionWriters,
     inspectionFailed, inspectionNoted, acceptBid, confirmDelivery, untouched,
     Faults, throws, orphanLands, crash, history
<1>2. ASSUME NEW h \in Handlers, mine(h), paidBy' = "settlement"
      PROVE  due
  BY <1>2 DEF mine, Execute, ReleasesDue, NoEarlyPayout
<1>3. ASSUME NEW tx \in Tx, orphanLands(tx), paidBy' = "settlement"
      PROVE  due
  BY <1>3 DEF orphanLands, Execute, ReleasesDue, NoEarlyPayout
<1>4. ASSUME paidBy' = "settlement", paidBy # "settlement"
      PROVE  due
  BY <1>2, <1>3, <1>4
  DEF Next, vars, Core, updatePhaseRead, updatePhaseWrite, settle,
     settlementRead, approved, created, released, rejected,
     sellersChange, escrowRoutes, adminApproves, adminCreates, adminDisputes,
     adminPays, OtherWriters, AdminWriters,
     TransportWriters, update, updateRecheck, finalizeTradeRead,
     finalizeTradeWrite, rawWrite, setInitialNegotiationPhase,
     inspectionsVerified, createTransportRequest, InspectionWriters,
     inspectionFailed, inspectionNoted, acceptBid, confirmDelivery, untouched,
     Faults, throws, crash, history
<1> QED
  BY <1>1, <1>4 DEF NoEarlyPayout

-----------------------------------------------------------------------------
(* The theorems.                                                           *)

\* The platform's wallets meet the contract's assumptions.
LEMMA LockAssumptions ==
  /\ 1 \in Nat /\ Nat \subseteq Nat /\ Wallet \in {Wallet, Farmer}
  /\ NoOne # Contract /\ NoOne \notin {Wallet, Farmer}
  /\ Contract \notin {Wallet, Farmer}
  BY WalletAssumption

\* The two instances of the contract agree on its types.
LEMMA SameType == Lock!TypeOK <=> Celo!TypeOK
  BY DEF Lock!TypeOK, Celo!TypeOK, Lock!Keys, Celo!Keys, Lock!Escrow,
     Celo!Escrow, Lock!Parties, Celo!Parties, Lock!State, Celo!State,
     Lock!AWAITING_PAYMENT, Celo!AWAITING_PAYMENT, Lock!AWAITING_DELIVERY,
     Celo!AWAITING_DELIVERY, Lock!COMPLETE, Celo!COMPLETE, Lock!DISPUTED,
     Celo!DISPUTED, Lock!REFUNDED, Celo!REFUNDED

\* What is known when the service starts.
LEMMA InitIInv == Init => IInv
<1> SUFFICES ASSUME Init PROVE IInv
  OBVIOUS
<1>1. BackendType
  BY BackendInit
<1>2. Lock!IInv
  BY LockAssumptions, LockInit, Lock!InitIInv
<1>3. \A h \in Handlers : handlers[h] = Asleep
  BY DEF Init
<1>4. MetadataTruthful /\ SnapshotsTruthful /\ NotesTruthful
  BY <1>3 DEF Init, MetadataTruthful, SnapshotsTruthful, NotesTruthful, Idle,
     Truthful, Asleep
<1>5. ReceiptsTruthful /\ ReleasesDue /\ NoEarlyPayout
  BY <1>3 DEF Init, ReceiptsTruthful, Mined, Asleep, ReleasesDue, NoEarlyPayout
<1>6. WalletsNamed /\ OneLock
  BY WalletAssumption DEF Init, WalletsNamed, OneLock, Key, Celo!NoEscrow,
     onChain, Celo!Open, Celo!AWAITING_PAYMENT, Celo!AWAITING_DELIVERY,
     Celo!DISPUTED
<1> QED
  BY <1>1, <1>2, <1>4, <1>5, <1>6, SameType DEF IInv, TypeOK, Lock!IInv

\* Every step of the system keeps the invariant.
LEMMA StepIInv == IInv /\ [Next]_vars => IInv'
<1> SUFFICES ASSUME IInv, [Next]_vars PROVE IInv'
  OBVIOUS
<1>0. /\ TypeOK /\ BackendType /\ Lock!TypeOK /\ Lock!FundedIffOpen
      /\ Knowledge /\ NotesTruthful /\ MetadataTruthful
  BY DEF IInv, TypeOK, Lock!IInv, Knowledge
<1>1. ChainMove \/ UNCHANGED chain
  BY <1>0, StepMoves
<1>2. [Lock!Next]_(Lock!vars)
  BY <1>1, MoveIsStep DEF chain, Lock!vars
<1>3. Lock!IInv'
  BY <1>2, LockAssumptions, Lock!StepIInv DEF IInv
<1>4. TypeOK'
  <2>1. (Lock!TypeOK <=> Celo!TypeOK)'
    BY SameType, PTL
  <2> QED
    BY <1>0, <1>3, <2>1, BackendStep DEF TypeOK, Lock!IInv
<1>5. Knowledge' /\ NotesTruthful'
  BY <1>0, KnowledgeStep, NotesStep
<1>6. ReleasesDue' /\ NoEarlyPayout'
  BY <1>0, DueStep, PayoutStep DEF IInv
<1>7. WalletsNamed' /\ OneLock'
  BY <1>0, <1>1, OneLockStep DEF IInv
<1> QED
  BY <1>3, <1>4, <1>5, <1>6, <1>7 DEF IInv, Knowledge

-----------------------------------------------------------------------------
(* The theorems.                                                           *)

\* The inductive invariant holds of every reachable state.
THEOREM InductiveInvariant == Spec => []IInv
  BY InitIInv, StepIInv, PTL DEF Spec

\* Every variable keeps its type, through crashes and overlapping requests.
THEOREM TypeCorrect == Spec => []TypeOK
<1>1. IInv => TypeOK
  BY DEF IInv
<1> QED
  BY <1>1, InductiveInvariant, PTL

\* The metadata of a trade never claims a lock or a pay-out that the chain
\* does not have, for any number of promises in flight.
THEOREM MetadataTrue == Spec => []MetadataTruthful
<1>1. IInv => MetadataTruthful
  BY DEF IInv
<1> QED
  BY <1>1, InductiveInvariant, PTL

\* The settlement pays nobody before the release phase of the incoterm.
THEOREM PaysWhenDue == Spec => []NoEarlyPayout
<1>1. IInv => NoEarlyPayout
  BY DEF IInv
<1> QED
  BY <1>1, InductiveInvariant, PTL

\* However often the lock is sent, the contract holds one amount at most.
THEOREM LocksOnce == Spec => []OneLock
<1>1. IInv => OneLock
  BY DEF IInv
<1> QED
  BY <1>1, InductiveInvariant, PTL

\* The contract under the backend behaves as its own specification says: the
\* backend drives it through its functions and nothing else.
THEOREM DrivesContract == Spec => Lock!Spec
<1>1. IInv /\ [Next]_vars => [Lock!Next]_(Lock!vars)
  BY StepMoves, MoveIsStep DEF IInv, chain, Lock!vars
<1> QED
  BY <1>1, LockInit, InductiveInvariant, PTL DEF Spec, Lock!Spec
=============================================================================
